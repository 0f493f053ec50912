------------------------------ MODULE Endpoint ------------------------------
(***************************************************************************)
(* Requests on their way from the Worker's fetch to the caller's object    *)
(* and to its Workflow, and the objects' isolates while turns run in them. *)
(*                                                                         *)
(* A request is served in steps: its token is verified, its body checked,  *)
(* beginTask records the task, startTurn creates the turn (a2a/executor.ts,*)
(* worker/define-agent.ts).  It may die between any two, and the           *)
(* gatekeeper sends the message again.  An object is named by the verified *)
(* identity key, in the namespace of the tenant's agent.                   *)
(*                                                                         *)
(* What an isolate knows of itself, its caller's key and the deployment's  *)
(* origin (host/agent.ts, a2a/self-origin.ts), arrives with turns and is   *)
(* lost with it.                                                           *)
(***************************************************************************)
EXTENDS Gateway, FiniteSets, Functions

CONSTANTS Forms,        \* the declarations of agents a deployment may be built from
          Messages,     \* messages of the gatekeepers' callers
          Sender,       \* the identity key whose message it is
          WorkflowIds,  \* ids of Workflow instances
          WorkflowId,   \* the id a message's id is sanitized to
          Past,         \* the rows of earlier tasks in each object
          Stamps,       \* createdAt of new tasks, in milliseconds
          PageSizes,    \* page sizes a caller of ListTasks asks for
          MaxPage,      \* the largest page served
          MaxRequests   \* bound: requests

Objects == Agents \X Keys

\* Message ids are the callers' own, and differ also when sanitized.
ASSUME EndpointAssumption ==
  /\ Forms \subseteq Declarations
  /\ Sender \in [Messages -> Keys]
  /\ WorkflowId \in [Messages -> WorkflowIds]
  /\ Past \in [Objects -> SUBSET [message : Messages, created : Nat, task : Nat \ 1..MaxRequests]]
  /\ \A o \in Objects : IsFiniteSet(Past[o])
  /\ \A m, n \in Messages : WorkflowId[m] = WorkflowId[n] => m = n
  /\ None \notin [object : Objects, task : Nat, host : Hosts, key : Keys]
  /\ {Stamps, PageSizes} \subseteq SUBSET Nat
  /\ MaxPage \in Nat \ {0}
  /\ MaxRequests \in Nat

Requests == 1..MaxRequests
Instances == Agents \X WorkflowIds

Rows == [message : Messages, task : Nat, created : Nat]
Turns == [object : Objects, task : Nat, host : Hosts, key : Keys]

VARIABLES form,       \* how the deployment declares its agents
          request,    \* each request: how far it is and what it has shown
          rows,       \* each object's task rows
          aged,       \* messages that nobody sends again
          instance,   \* each Workflow instance: the object its turn is for, and the task,
                      \* the host and the identity key in its params
          swallowed,  \* instances whose creation failed in words about existence
          isolate,    \* each object's isolate: the origin and the key it knows
          turn,       \* instances whose turn is in a call of the object
          issued,     \* who the isolate's signed tokens said they were from
          scan        \* a caller listing its tasks, page by page: the rows its
                      \* filter hides, those it has been shown, those it must be

vars == <<form, request, rows, aged, instance, swallowed, isolate, turn, issued, scan>>

Fresh == [origin |-> None, key |-> None]
Unsent == [at |-> "unsent", host |-> None, iss |-> None, tenant |-> None, key |-> None,
           asked |-> None, message |-> None, task |-> None]
Unasked == [at |-> "idle", object |-> None, limit |-> 0, offset |-> 0,
            hidden |-> {}, must |-> {}, seen |-> {}]

Places == {"unsent", "verified", "list", "begin", "start", "accepted", "closed"}

\* The object a verified request is for.
ObjectOf(q) == <<TenantAgent(form, request[q].asked), request[q].key>>
InstanceOf(q) == <<TenantAgent(form, request[q].asked), WorkflowId[request[q].message]>>

TypeOK ==
  /\ form \in Forms
  /\ request \in [Requests -> [at : Places, host : Hosts \cup {None}, iss : Issuers \cup {None},
                               tenant : Tenants \cup {None}, key : Keys \cup {None},
                               asked : Tenants \cup {None}, message : Messages \cup {None},
                               task : Nat \cup {None}]]
  /\ rows \in [Objects -> SUBSET Rows]
  /\ instance \in [Instances -> Turns \cup {None}]
  /\ aged \subseteq Messages
  /\ swallowed \subseteq Instances
  /\ isolate \in [Objects -> [origin : Hosts \cup {None}, key : Keys \cup {None}]]
  /\ turn \subseteq Instances
  /\ issued \in [Objects -> SUBSET [issuer : Hosts \cup {None}, key : Keys]]
  /\ scan \in [at : {"idle", "reading", "done"}, object : Objects \cup {None},
               limit : Nat, offset : Nat,
               hidden : SUBSET Rows, must : SUBSET Rows, seen : SUBSET Rows]

Init ==
  /\ form \in {f \in Forms : Constructs(f)}
  /\ request = [q \in Requests |-> Unsent]
  /\ rows = Past
  /\ instance = [i \in Instances |-> None]
  /\ aged = UNION {{r.message : r \in Past[o]} : o \in Objects}
  /\ swallowed = {}
  /\ isolate = [o \in Objects |-> Fresh]
  /\ turn = {}
  /\ issued = [o \in Objects |-> {}]
  /\ scan = Unasked

-----------------------------------------------------------------------------
(* Requests. *)

objectVars == <<isolate, turn, issued, scan>>

Closes(q) == request' = [request EXCEPT ![q] = [Unsent EXCEPT !.at = "closed"]]

\* The token is read and its signature verified; a caller without a key is refused.
Verify(q, token, host) ==
  /\ request[q].at = "unsent"
  /\ IF Verifies(token, host) /\ token.key # None
     THEN request' = [request EXCEPT ![q] = [Unsent EXCEPT !.at = "verified", !.host = host,
                        !.iss = token.iss, !.tenant = token.tenant, !.key = token.key]]
     ELSE Closes(q)
  /\ UNCHANGED <<form, rows, aged, instance, swallowed, objectVars>>

\* The body is read and checked, and the executor has its own look at the callback.
Dispatch(q, body, message) ==
  /\ request[q].at = "verified"
  /\ Sender[message] = request[q].key
  /\ message \notin aged
  /\ IF Reply(Checks(form, request[q], body)) # "handled"
     THEN Closes(q)
     ELSE \/ /\ body.method = "send" /\ body.push
             /\ request' = [request EXCEPT ![q].at = "begin", ![q].asked = body.tenant,
                                           ![q].message = message]
          \/ /\ body.method = "list"
             /\ request' = [request EXCEPT ![q].at = "list", ![q].asked = body.tenant]
          \/ /\ body.method = "other" \/ (body.method = "send" /\ ~body.push)
             /\ Closes(q)
  /\ UNCHANGED <<form, rows, aged, instance, swallowed, objectVars>>

\* A listing that is read meanwhile: its filter hides the new row or does not.  The
\* query orders no rows of one millisecond.
Joins(o, new) ==
  scan' \in IF scan.at = "reading" /\ scan.object = o
             THEN {[scan EXCEPT !.hidden = h, !.must = {r \in @ : r.created # new.created}] :
                    h \in {scan.hidden, scan.hidden \cup {new}}}
             ELSE {scan}

\* beginTask: the row of the message, inserted on first sight.
Begin(q) ==
  /\ request[q].at = "begin"
  /\ LET o == ObjectOf(q)
         known == {r \in rows[o] : r.message = request[q].message}
     IN IF known = {}
        THEN \E now \in Stamps :
               LET new == [message |-> request[q].message, task |-> q, created |-> now]
               IN /\ rows' = [rows EXCEPT ![o] = @ \cup {new}]
                  /\ request' = [request EXCEPT ![q].at = "start", ![q].task = q]
                  /\ Joins(o, new)
        ELSE /\ \E r \in known : request' = [request EXCEPT ![q].at = "start", ![q].task = r.task]
             /\ UNCHANGED <<rows, scan>>
  /\ UNCHANGED <<form, aged, instance, swallowed, isolate, turn, issued>>

\* Regression: the turn is given the task id the request came with.
TurnOfRequest(q) == [object |-> ObjectOf(q), task |-> q, host |-> request[q].host,
                     key |-> request[q].key]

AcceptedTurn(q) == [object |-> ObjectOf(q), task |-> request[q].task,
                    host |-> request[q].host, key |-> request[q].key]

\* startTurn: the instance is created, or is there already.
StartTurn(q) ==
  /\ request[q].at = "start"
  /\ request' = [request EXCEPT ![q].at = "accepted"]
  /\ instance' = [instance EXCEPT ![InstanceOf(q)] = IF @ = None THEN AcceptedTurn(q) ELSE @]
  /\ UNCHANGED <<form, rows, aged, swallowed, objectVars>>

\* Creating it throws, which fails the request.
CreateThrows(q) ==
  /\ request[q].at = "start"
  /\ request' = [request EXCEPT ![q].at = "closed"]
  /\ UNCHANGED <<form, rows, aged, instance, swallowed, objectVars>>

\* Creating it throws, and the words of the error hold "exist".
CreateSwallowed(q) ==
  /\ request[q].at = "start"
  /\ request' = [request EXCEPT ![q].at = "accepted"]
  /\ swallowed' = swallowed \cup {InstanceOf(q)}
  /\ UNCHANGED <<form, rows, aged, instance, objectVars>>

Die(q) ==
  /\ request[q].at \in {"begin", "start"}
  /\ request' = [request EXCEPT ![q].at = "closed"]
  /\ UNCHANGED <<form, rows, aged, instance, swallowed, objectVars>>

-----------------------------------------------------------------------------
(* Turns inside the object. *)

requestVars == <<form, request, rows, aged, instance, swallowed, scan>>

NoteLatest(known, host) == host \* Regression

\* SelfOrigin.note: the first origin stays.
Note(known, host) == IF known = None THEN host ELSE known

\* getSession: the key of the turn's identity, unless one is known.
OpenSession(i) ==
  /\ i \in turn
  /\ LET o == instance[i].object
     IN isolate' = [isolate EXCEPT ![o].key = IF @ = None THEN instance[i].key ELSE @]
  /\ UNCHANGED <<requestVars, turn, issued>>

\* requireIdentityKey: what a turn has left, or else the object's own name.
KeyKnown(o) == IF isolate[o].key = None THEN o[2] ELSE isolate[o].key

\* A call of the turn enters the object, and its origin is noted first.
Enter(i) ==
  /\ instance[i] # None
  /\ i \notin turn
  /\ LET o == instance[i].object
     IN isolate' = [isolate EXCEPT ![o].origin = Note(@, instance[i].host)]
  /\ turn' = turn \cup {i}
  /\ UNCHANGED <<requestVars, issued>>

\* Below an await, the turn signs a token in its caller's name.
Sign(i) ==
  /\ i \in turn
  /\ LET o == instance[i].object
     IN /\ isolate' = [isolate EXCEPT ![o].key = KeyKnown(o)]
        /\ issued' = [issued EXCEPT ![o] = @ \cup {[issuer |-> isolate[o].origin,
                                                   key |-> KeyKnown(o)]}]
  /\ UNCHANGED <<requestVars, turn>>

Leave(i) ==
  /\ i \in turn
  /\ turn' = turn \ {i}
  /\ UNCHANGED <<requestVars, isolate, issued>>

\* The isolate goes, and the calls in it.
Evict(o) ==
  /\ isolate[o] # Fresh
  /\ isolate' = [isolate EXCEPT ![o] = Fresh]
  /\ turn' = {i \in turn : instance[i].object # o}
  /\ issued' = [issued EXCEPT ![o] = {}]
  /\ UNCHANGED requestVars

-----------------------------------------------------------------------------
(* Listing and cleaning up an object's tasks. *)

turnVars == <<form, request, instance, swallowed, isolate, turn, issued>>

ClampPageSize(size) == IF size < 1 THEN 1 ELSE IF size > MaxPage THEN MaxPage ELSE size

\* The rows that the caller's filter lets through, and those before one of them.
Listed == rows[scan.object] \ scan.hidden
Newer(r) == {x \in Listed : x.created > r.created}

\* Regression: the oldest first.
OrdersOldestFirst ==
  {s \in Bijection(1..Cardinality(Listed), Listed) :
     \A i, j \in DOMAIN s : i < j => s[i].created <= s[j].created}

\* The orders a query may give them in: by createdAt, and nothing says how rows of
\* one millisecond are ordered, on this page or the next.
Orders ==
  {s \in Bijection(1..Cardinality(Listed), Listed) :
     \A i, j \in DOMAIN s : i < j => s[i].created >= s[j].created}

\* ListTasks without a page token.  What the listing owes its caller are the rows
\* that have a millisecond of their own.
Ask(q, size) ==
  /\ request[q].at = "list"
  /\ scan.at = "idle"
  /\ LET o == ObjectOf(q)
     IN \E hidden \in SUBSET rows[o] :
          scan' = [at |-> "reading", object |-> o, limit |-> ClampPageSize(size),
                   offset |-> 0, hidden |-> hidden, seen |-> {},
                   must |-> {r \in rows[o] \ hidden :
                               \A x \in rows[o] : x.created = r.created => x = r}]
  /\ Closes(q)
  /\ UNCHANGED <<form, rows, aged, instance, swallowed, isolate, turn, issued>>

\* A page, and the token of the next one.
ReadPage ==
  /\ scan.at = "reading"
  /\ LET last == scan.offset + scan.limit
     IN \E order \in Orders :
          scan' = [scan EXCEPT
                     !.seen = @ \cup {order[i] : i \in DOMAIN order \cap (scan.offset + 1)..last},
                     !.offset = last,
                     !.at = IF last < Cardinality(Listed) THEN "reading" ELSE "done"]
  /\ UNCHANGED <<turnVars, rows, aged>>

\* The rows that may be among those the offset stands for.
Reached == {r \in Listed : Cardinality(Newer(r)) < scan.offset}

\* A task's state or time changes, so that it joins the listing or leaves it.  One
\* that leaves from before the next page moves all the others a place forward.
Relist(r) ==
  /\ scan.at = "reading"
  /\ r \in rows[scan.object]
  /\ scan' = IF r \in scan.hidden
             THEN [scan EXCEPT !.hidden = @ \ {r}]
             ELSE [scan EXCEPT !.hidden = @ \cup {r},
                               !.must = IF r \in Reached THEN @ \cap scan.seen ELSE @ \ {r}]
  /\ UNCHANGED <<turnVars, rows, aged>>

\* The weekly cleanup takes the rows up to some age, of tasks nobody works on any
\* more.
Cleanup(o, oldest) ==
  /\ \A q \in Requests : request[q].at \in {"begin", "start"} => ObjectOf(q) # o
  /\ \A i \in turn : instance[i].object # o
  /\ LET gone == {r \in rows[o] : r.created <= oldest.created}
     IN /\ rows' = [rows EXCEPT ![o] = @ \ gone]
        /\ aged' = aged \cup {r.message : r \in gone}
        /\ scan' = IF scan.at = "reading" /\ scan.object = o
                   THEN [scan EXCEPT !.must = @ \ gone, !.hidden = @ \ gone] ELSE scan
  /\ UNCHANGED turnVars

-----------------------------------------------------------------------------

Serve(q) ==
  \/ \E token \in Tokens, host \in Hosts : Verify(q, token, host)
  \/ \E body \in Bodies, message \in Messages : Dispatch(q, body, message)
  \/ Begin(q)
  \/ StartTurn(q)
  \/ CreateThrows(q)
  \/ CreateSwallowed(q)
  \/ Die(q)

Work(i) == Enter(i) \/ OpenSession(i) \/ Sign(i) \/ Leave(i)

\* Every request is answered, and the isolates have gone.
Finished ==
  /\ \A q \in Requests : request[q].at \in {"verified", "list", "accepted", "closed"}
  /\ turn = {}
  /\ UNCHANGED vars

Next ==
  \/ \E q \in Requests : Serve(q)
  \/ \E i \in Instances : Work(i)
  \/ \E o \in Objects : Evict(o)
  \/ \E q \in Requests, size \in PageSizes : Ask(q, size)
  \/ ReadPage
  \/ \E o \in Objects : \E r \in rows[o] : Relist(r) \/ Cleanup(o, r)
  \/ Finished

Spec == Init /\ [][Next]_vars

-----------------------------------------------------------------------------
(* Properties. *)

\* A task lies in the object that the token's identity names, of the agent that
\* the token, the body and the declaration name alike: no caller's task is ever
\* recorded with another's, and no declared agent is shadowed by a second one
\* of its name (worker/index.ts, worker/define-agent.ts).
RoutedAsVerified ==
  /\ \A o \in Objects : \A row \in rows[o] : row.task \in Requests =>
        LET q == row.task
        IN /\ request[q].iss \in Allowed
           /\ request[q].asked = request[q].tenant
           /\ o = <<TenantAgent(form, request[q].tenant), request[q].key>>
  /\ \A i \in DOMAIN form.agents : TenantAgent(form, form.agents[i].tenant) = form.agents[i].agent

\* However often a message is sent and wherever a dispatch dies, an accepted
\* message has its one turn, that turn carries the id of the task on record, and
\* it runs in the object that holds the task.  Save for one case: a creation
\* that failed in words that hold "exist" (a2a/executor.ts, ignoreAlreadyExists).
AcceptedHasItsTurn ==
  /\ \A q \in Requests : request[q].at = "accepted" =>
        \/ /\ instance[InstanceOf(q)] # None
           /\ instance[InstanceOf(q)].object = ObjectOf(q)
           /\ instance[InstanceOf(q)].task = request[q].task
        \/ InstanceOf(q) \in swallowed

\* All tokens that are signed in one isolate name one issuer, and the object's
\* own caller, whichever turns ran in it side by side and whichever call woke it
\* (a2a/self-origin.ts, host/agent.ts).
OneIssuer ==
  \A o \in Objects : \E host \in Hosts :
    issued[o] \subseteq {[issuer |-> host, key |-> o[2]]}

\* A listing read to its last page has shown every task that was listed from its
\* first page on and shares its millisecond with no other, unless a task before
\* the page it had come to left the listing meanwhile: offset paging skips for no
\* other reason (a2a/task-store.ts, "can skip or repeat a row"), whatever tasks
\* are added, change behind the offset or are cleaned up between the pages.
ScanMissesNone == scan.at = "done" => scan.must \subseteq scan.seen
=============================================================================
