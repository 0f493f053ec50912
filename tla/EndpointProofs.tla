--------------------------- MODULE EndpointProofs ---------------------------
(***************************************************************************)
(* What holds of requests, turns, isolates and listings for any number of  *)
(* requests, messages, tenants, agents, callers and pages.                 *)
(***************************************************************************)
EXTENDS Endpoint, SequenceTheorems, FiniteSetTheorems, TLAPS

Active(q) == request[q].at \in {"begin", "start"}

\* What the checks establish of a request that an object is asked about.
Routed(q) ==
  /\ request[q].iss \in Allowed
  /\ request[q].asked = request[q].tenant
  /\ request[q].host \in Hosts
  /\ request[q].message \in Messages
  /\ Sender[request[q].message] = request[q].key
  /\ ObjectOf(q) \in Objects

Shown(q) ==
  /\ request[q].at \in {"verified", "list"} =>
       request[q].iss \in Allowed /\ request[q].host \in Hosts /\ request[q].key \in Keys
  /\ request[q].at = "list" => ObjectOf(q) \in Objects
  /\ request[q].at \in {"begin", "start", "accepted"} => Routed(q)

RequestsInv == \A q \in Requests : Shown(q)

RowsInv ==
  \A o \in Objects : \A row \in rows[o] : row.task \in Requests =>
    /\ request[row.task].at \in {"start", "accepted", "closed"}
    /\ Routed(row.task)
    /\ o = ObjectOf(row.task)

\* The row that a request goes on with is there as long as it is at work.
IsTaskOf(q, row) == row.message = request[q].message /\ row.task = request[q].task

StartInv == \A q \in Requests :
  request[q].at = "start" => \E row \in rows[ObjectOf(q)] : IsTaskOf(q, row)

\* A message that may still be sent, or is being served.
Live(o, m) ==
  \/ m \notin aged /\ o[2] = Sender[m]
  \/ \E q \in Requests : Active(q) /\ ObjectOf(q) = o /\ request[q].message = m

OneTask(o, m) == \A one, other \in rows[o] :
  one.message = m /\ other.message = m => one.task = other.task

TurnOnRecord(o, m) ==
  LET i == <<o[1], WorkflowId[m]>>
  IN instance[i] # None =>
       /\ instance[i].object = o
       /\ \E row \in rows[o] : row.message = m /\ row.task = instance[i].task

TurnsInv == \A o \in Objects, m \in Messages :
  Live(o, m) => OneTask(o, m) /\ TurnOnRecord(o, m)

\* A turn's identity is its object's; whoever runs in an isolate has told it the origin.
IsolatesInv ==
  /\ \A i \in Instances : instance[i] # None => instance[i].key = instance[i].object[2]
  /\ \A i \in turn : instance[i] # None /\ isolate[instance[i].object].origin \in Hosts
  /\ \A o \in Objects :
       /\ isolate[o].key \in {None, o[2]}
       /\ issued[o] \subseteq {[issuer |-> isolate[o].origin, key |-> o[2]]}
       /\ isolate[o].origin \notin Hosts => issued[o] = {}

RowsFinite == \A o \in Objects : IsFiniteSet(rows[o])

\* The rows a listing owes and has not shown are listed, alone in their millisecond,
\* and have as many rows before them as the offset stands for.
Alone(r) == \A x \in rows[scan.object] : x.created = r.created => x = r

Ahead(r) == r \in Listed /\ Alone(r) /\ Cardinality(Newer(r)) >= scan.offset

ScanInv ==
  scan.at # "idle" =>
    /\ scan.object \in Objects
    /\ scan.at = "reading" => \A r \in scan.must \ scan.seen : Ahead(r)
    /\ scan.at = "done" => scan.must \subseteq scan.seen

IInv == /\ TypeOK /\ Constructs(form) /\ RequestsInv /\ RowsFinite /\ RowsInv /\ StartInv /\ TurnsInv
        /\ AcceptedHasItsTurn /\ IsolatesInv /\ ScanInv

-----------------------------------------------------------------------------
(* Checks and declarations. *)

\* In a declaration that makes a Worker a name stands for one agent.
LEMMA OneEntry ==
  ASSUME EndpointAssumption, form \in Forms, Constructs(form), NEW i \in DOMAIN form.agents
  PROVE  LastNamed(form, form.agents[i].tenant) = i
<1>1. form.agents \in Seq([tenant : Tenants \cup {None}, agent : Agents])
  BY DEF EndpointAssumption, Declarations
<1>2. DOMAIN form.agents \subseteq Nat
  BY <1>1, LenProperties
<1>3. \A j \in DOMAIN form.agents : form.agents[j].tenant = form.agents[i].tenant <=> j = i
  BY DEF Constructs
<1> QED BY <1>2, <1>3 DEF LastNamed

\* And for nothing but an agent.
LEMMA AgentDeclared ==
  ASSUME EndpointAssumption, form \in Forms, Constructs(form), NEW name
  PROVE  TenantAgent(form, name) \in Agents \cup {None}
<1>1. /\ form.agents \in Seq([tenant : Tenants \cup {None}, agent : Agents])
      /\ form.tenants \in UNION {[names -> Agents] : names \in SUBSET (Tenants \cup {None})}
  BY DEF EndpointAssumption, Declarations
<1>2. \A i \in DOMAIN form.agents : form.agents[i].agent \in Agents
  <2>1. form.agents \in [1..Len(form.agents) -> [tenant : Tenants \cup {None}, agent : Agents]]
    BY <1>1, LenProperties
  <2> QED BY <2>1
<1>3. \A n \in DOMAIN form.tenants : form.tenants[n] \in Agents
  BY <1>1
<1>4. ASSUME name \notin DOMAIN form.tenants, name \in Named(form)
      PROVE  form.agents[LastNamed(form, name)].agent \in Agents
  BY <1>2, <1>4, OneEntry DEF Named
<1> QED BY <1>3, <1>4 DEF TenantAgent

\* The other half of RoutedAsVerified.
LEMMA NoneShadowed ==
  ASSUME EndpointAssumption, form \in Forms, Constructs(form), NEW i \in DOMAIN form.agents
  PROVE  TenantAgent(form, form.agents[i].tenant) = form.agents[i].agent
<1>1. form.agents[i].tenant \notin DOMAIN form.tenants /\ form.agents[i].tenant \in Named(form)
  BY DEF Constructs, Named
<1> QED BY <1>1, OneEntry DEF TenantAgent

\* A request is handled only if it passes every check.
LEMMA HandledPasses ==
  ASSUME NEW claims, NEW body, Reply(Checks(form, claims, body)) = "handled"
  PROVE  /\ body.tenant # None
         /\ body.tenant = claims.tenant
         /\ TenantAgent(form, body.tenant) # None
<1> DEFINE c == Checks(form, claims, body)
           First(i) == ~c[i].holds /\ \A j \in 1..(i - 1) : c[j].holds
<1>1. /\ DOMAIN c = 1..5
      /\ \A i \in 1..5 : c[i].answer # "handled"
      /\ c[1].holds <=> body.tenant # None
      /\ c[2].holds <=> TenantAgrees(claims, body)
      /\ c[3].holds <=> TenantAgent(form, body.tenant) # None
  <2>1. DOMAIN c = 1..5 /\ \A i \in 1..5 : c[i].answer # "handled"
    BY DEF Checks
  <2>2. c[2].holds <=> TenantAgrees(claims, body)
    BY Zenon DEF Checks
  <2>3. c[3].holds <=> TenantAgent(form, body.tenant) # None
    BY Zenon DEF Checks
  <2>4. c[1].holds <=> body.tenant # None
    BY Zenon DEF Checks
  <2> QED BY <2>1, <2>2, <2>3, <2>4
<1> HIDE DEF c
<1>2. ASSUME NEW i \in 1..5, ~c[i].holds PROVE \E j \in 1..5 : First(j)
  <2>1. CASE ~c[1].holds
    BY <2>1
  <2>2. CASE c[1].holds /\ ~c[2].holds
    BY <2>2
  <2>3. CASE c[1].holds /\ c[2].holds /\ ~c[3].holds
    BY <2>3
  <2>4. CASE c[1].holds /\ c[2].holds /\ c[3].holds /\ ~c[4].holds
    BY <2>4
  <2>5. CASE c[1].holds /\ c[2].holds /\ c[3].holds /\ c[4].holds
    BY <1>2, <2>5
  <2> QED BY <2>1, <2>2, <2>3, <2>4, <2>5
<1>3. \A i \in 1..5 : c[i].holds
  <2> SUFFICES ASSUME NEW i \in 1..5, ~c[i].holds PROVE FALSE
    OBVIOUS
  <2>1. PICK j \in 1..5 : First(j)
    BY <1>2
  <2>2. (CHOOSE k \in 1..5 : First(k)) \in 1..5
    BY <2>1
  <2>3. Reply(c) = c[CHOOSE k \in 1..5 : First(k)].answer
    BY <1>1 DEF Reply
  <2> QED BY <1>1, <2>2, <2>3 DEF c
<1> QED BY <1>1, <1>3 DEF TenantAgrees

-----------------------------------------------------------------------------
(* Types, and what requests carry. *)

Kinds == [at : Places, host : Hosts \cup {None}, iss : Issuers \cup {None},
          tenant : Tenants \cup {None}, key : Keys \cup {None}, asked : Tenants \cup {None},
          message : Messages \cup {None}, task : Nat \cup {None}]

LEMMA InitGood == EndpointAssumption /\ GatewayAssumption /\ Init => IInv
<1> SUFFICES ASSUME EndpointAssumption, GatewayAssumption, Init PROVE IInv
  OBVIOUS
<1> DEFINE Old == [message : Messages, created : Nat, task : Nat \ 1..MaxRequests]
<1>1. rows \in [Objects -> SUBSET Old] /\ RowsFinite
  BY DEF Init, EndpointAssumption, RowsFinite
<1>2. rows \in [Objects -> SUBSET Rows]
  <2>1. Old \subseteq Rows
    BY DEF Rows
  <2> HIDE DEF Old
  <2> QED BY <1>1, <2>1
<1>3. ASSUME NEW o \in Objects, NEW row \in rows[o]
      PROVE  row.message \in Messages /\ row.task \notin Requests /\ row.message \in aged
  <2>1. row \in Old
    <3> HIDE DEF Old
    <3> QED BY <1>1
  <2>2. row.message \in aged
    BY DEF Init
  <2> QED BY <2>1, <2>2 DEF Requests
<1>4. aged \subseteq Messages
  BY <1>3 DEF Init
<1>5. TypeOK
  <2>1. scan \in [at : {"idle", "reading", "done"}, object : Objects \cup {None},
                 limit : Nat, offset : Nat, hidden : SUBSET Rows,
                 must : SUBSET Rows, seen : SUBSET Rows]
    BY DEF Init, Unasked
  <2> QED BY <1>2, <1>4, <2>1 DEF Init, TypeOK, Unsent, Fresh, Places
<1>6. RequestsInv /\ StartInv /\ AcceptedHasItsTurn
  BY DEF Init, RequestsInv, Shown, StartInv, AcceptedHasItsTurn, Unsent
<1>7. RowsInv
  BY <1>3 DEF RowsInv
<1>8. TurnsInv
  <2> SUFFICES ASSUME NEW o \in Objects, NEW m \in Messages, Live(o, m)
               PROVE  OneTask(o, m) /\ TurnOnRecord(o, m)
    BY DEF TurnsInv
  <2>1. m \notin aged
    BY DEF Live, Active, Init, Unsent
  <2>2. OneTask(o, m)
    BY <1>3, <2>1 DEF OneTask
  <2>3. TurnOnRecord(o, m)
    BY DEF TurnOnRecord, Init, Objects, Instances, EndpointAssumption
  <2> QED BY <2>2, <2>3
<1>9. IsolatesInv /\ ScanInv
  BY DEF Init, IsolatesInv, ScanInv, Fresh, Unasked
<1> QED BY <1>1, <1>5, <1>6, <1>7, <1>8, <1>9 DEF IInv, Init

\* A request that did not move is what it was.
LEMMA Untouched ==
  ASSUME form' = form, NEW q, request'[q] = request[q]
  PROVE  /\ ObjectOf(q)' = ObjectOf(q) /\ InstanceOf(q)' = InstanceOf(q)
         /\ Routed(q)' <=> Routed(q)
         /\ Active(q)' <=> Active(q)
         /\ Shown(q)' <=> Shown(q)
BY DEF ObjectOf, InstanceOf, Routed, Active, Shown

\* One that only moved on carries what it did.
LEMMA MovedOn ==
  ASSUME form' = form, TypeOK, NEW q \in Requests, NEW to \in Places,
         request' = [request EXCEPT ![q].at = to]
  PROVE  /\ request'[q] = [request[q] EXCEPT !.at = to]
         /\ ObjectOf(q)' = ObjectOf(q) /\ InstanceOf(q)' = InstanceOf(q)
         /\ Routed(q)' <=> Routed(q)
         /\ request'[q].at = to /\ request'[q].message = request[q].message
         /\ request'[q].task = request[q].task
         /\ request' \in [Requests -> Kinds]
         /\ \A p \in Requests \ {q} : request'[p] = request[p]
<1>1. request \in [Requests -> Kinds] /\ request[q] \in Kinds
  BY DEF TypeOK, Kinds
<1>2. request'[q] = [request[q] EXCEPT !.at = to] /\ \A p \in Requests \ {q} : request'[p] = request[p]
  BY <1>1
<1>3. request'[q] \in Kinds
  BY <1>1, <1>2 DEF Kinds
<1>4. request' \in [Requests -> Kinds]
  BY <1>1, <1>3
<1>5. /\ request'[q].at = to /\ request'[q].message = request[q].message
      /\ request'[q].task = request[q].task /\ request'[q].iss = request[q].iss
      /\ request'[q].asked = request[q].asked /\ request'[q].tenant = request[q].tenant
      /\ request'[q].host = request[q].host /\ request'[q].key = request[q].key
  BY <1>1, <1>2 DEF Kinds
<1>6. ObjectOf(q)' = ObjectOf(q) /\ InstanceOf(q)' = InstanceOf(q)
  BY <1>5 DEF ObjectOf, InstanceOf
<1>7. Routed(q)' <=> Routed(q)
  BY <1>5, <1>6 DEF Routed
<1> QED BY <1>2, <1>4, <1>5, <1>6, <1>7

\* One that is answered for good is told nothing of.
LEMMA ClosedShown ==
  ASSUME TypeOK, NEW q \in Requests, Closes(q)
  PROVE  /\ request' \in [Requests -> Kinds]
         /\ \A p \in Requests \ {q} : request'[p] = request[p]
         /\ request'[q].at = "closed"
         /\ Shown(q)' /\ ~Active(q)'
<1>1. request \in [Requests -> Kinds] /\ [Unsent EXCEPT !.at = "closed"] \in Kinds
  BY DEF TypeOK, Kinds, Unsent, Places
<1>2. request' = [request EXCEPT ![q] = [Unsent EXCEPT !.at = "closed"]]
  BY DEF Closes
<1>3. request'[q].at = "closed"
  BY <1>1, <1>2 DEF Unsent
<1> QED BY <1>1, <1>2, <1>3 DEF Shown, Active

\* The token has been looked at.
LEMMA VerifyGood ==
  ASSUME GatewayAssumption, IInv, NEW q \in Requests, NEW token \in Tokens, NEW host \in Hosts,
         Verify(q, token, host)
  PROVE  /\ request' \in [Requests -> Kinds]
         /\ \A p \in Requests \ {q} : request'[p] = request[p]
         /\ request'[q].at \in {"verified", "closed"}
         /\ Shown(q)'
<1>0. TypeOK
  BY DEF IInv
<1>1. CASE Closes(q)
  BY <1>0, <1>1, ClosedShown
<1>2. CASE Verifies(token, host) /\ token.key # None /\ ~Closes(q)
  <2> DEFINE r == [Unsent EXCEPT !.at = "verified", !.host = host, !.iss = token.iss,
                                 !.tenant = token.tenant, !.key = token.key]
  <2>1. /\ token.iss \in Issuers /\ token.tenant \in Tenants \cup {None} /\ token.key \in Keys
        /\ token.iss \in Allowed
    BY <1>2 DEF Tokens, Verifies
  <2>2. /\ r \in Kinds /\ r.at = "verified" /\ r.iss = token.iss /\ r.host = host
        /\ r.key = token.key
    BY <2>1 DEF Kinds, Unsent, Places
  <2>3. request \in [Requests -> Kinds]
    BY <1>0 DEF TypeOK, Kinds
  <2>4. request' = [request EXCEPT ![q] = r]
    BY <1>2 DEF Verify
  <2> HIDE DEF r
  <2> QED BY <2>1, <2>2, <2>3, <2>4 DEF Shown
<1> QED BY <1>1, <1>2 DEF Verify

\* And the body.
LEMMA DispatchGood ==
  ASSUME EndpointAssumption, IInv, NEW q \in Requests, NEW body \in Bodies,
         NEW message \in Messages, Dispatch(q, body, message)
  PROVE  /\ request' \in [Requests -> Kinds]
         /\ \A p \in Requests \ {q} : request'[p] = request[p]
         /\ request'[q].at \in {"begin", "list", "closed"}
         /\ request'[q].at = "begin" => request'[q].message = message
         /\ Shown(q)'
<1>0. /\ TypeOK /\ form' = form
      /\ request \in [Requests -> Kinds] /\ request[q] \in Kinds
      /\ request[q].iss \in Allowed /\ request[q].host \in Hosts /\ request[q].key \in Keys
      /\ Sender[message] = request[q].key
  BY DEF IInv, TypeOK, RequestsInv, Shown, Kinds, Dispatch
<1>1. CASE Closes(q)
  BY <1>0, <1>1, ClosedShown
<1>2. ASSUME Reply(Checks(form, request[q], body)) = "handled"
      PROVE  /\ body.tenant = request[q].tenant /\ body.tenant \in Tenants
             /\ <<TenantAgent(form, body.tenant), request[q].key>> \in Objects
  <2>1. /\ body.tenant = request[q].tenant /\ body.tenant # None
        /\ TenantAgent(form, body.tenant) # None
    BY <1>2, HandledPasses
  <2>2. TenantAgent(form, body.tenant) \in Agents
    BY <2>1, AgentDeclared DEF IInv, TypeOK
  <2> QED BY <1>0, <2>1, <2>2 DEF Objects, Bodies
<1>3. ASSUME request' = [request EXCEPT ![q].at = "begin", ![q].asked = body.tenant, ![q].message = message],
             Reply(Checks(form, request[q], body)) = "handled"
      PROVE  /\ request' \in [Requests -> Kinds]
             /\ \A p \in Requests \ {q} : request'[p] = request[p]
             /\ request'[q].at = "begin" /\ request'[q].message = message /\ Shown(q)'
  <2> DEFINE r == [request[q] EXCEPT !.at = "begin", !.asked = body.tenant, !.message = message]
  <2>1. request' = [request EXCEPT ![q] = r]
    BY <1>0, <1>3
  <2>2. /\ r \in Kinds /\ r.at = "begin" /\ r.asked = body.tenant /\ r.message = message
        /\ r.iss = request[q].iss /\ r.host = request[q].host /\ r.key = request[q].key
        /\ r.tenant = request[q].tenant
    BY <1>0, <1>2, <1>3 DEF Kinds, Places
  <2> HIDE DEF r
  <2>3. request'[q] = r /\ request' \in [Requests -> Kinds] /\ \A p \in Requests \ {q} : request'[p] = request[p]
    BY <1>0, <2>1, <2>2
  <2>4. Routed(q)'
    BY <1>0, <1>2, <1>3, <2>2, <2>3 DEF Routed, ObjectOf
  <2> QED BY <2>2, <2>3, <2>4 DEF Shown
<1>4. ASSUME request' = [request EXCEPT ![q].at = "list", ![q].asked = body.tenant],
             Reply(Checks(form, request[q], body)) = "handled"
      PROVE  /\ request' \in [Requests -> Kinds]
             /\ \A p \in Requests \ {q} : request'[p] = request[p]
             /\ request'[q].at = "list" /\ Shown(q)'
  <2> DEFINE r == [request[q] EXCEPT !.at = "list", !.asked = body.tenant]
  <2>1. request' = [request EXCEPT ![q] = r]
    BY <1>0, <1>4
  <2>2. /\ r \in Kinds /\ r.at = "list" /\ r.asked = body.tenant
        /\ r.iss = request[q].iss /\ r.host = request[q].host /\ r.key = request[q].key
    BY <1>0, <1>2, <1>4 DEF Kinds, Places
  <2> HIDE DEF r
  <2>3. request'[q] = r /\ request' \in [Requests -> Kinds] /\ \A p \in Requests \ {q} : request'[p] = request[p]
    BY <1>0, <2>1, <2>2
  <2>4. ObjectOf(q)' \in Objects
    BY <1>0, <1>2, <1>4, <2>2, <2>3 DEF ObjectOf
  <2> QED BY <1>0, <2>2, <2>3, <2>4 DEF Shown
<1> QED BY <1>0, <1>1, <1>3, <1>4, ClosedShown DEF Dispatch

-----------------------------------------------------------------------------
(* What a step can do to a request. *)

\* It is looked at, before any object is asked.
Early(q) ==
  /\ request[q].at \in {"unsent", "verified", "list"}
  /\ request'[q].at \in {"verified", "list", "begin", "closed"}
  /\ Shown(q)'
  /\ request'[q].at = "begin" => request'[q].message \notin aged

\* It moves on, and is still the same request.
Onward(q) ==
  /\ Active(q)
  /\ request'[q].at \in {"start", "accepted", "closed"}
  /\ ObjectOf(q)' = ObjectOf(q) /\ InstanceOf(q)' = InstanceOf(q)
  /\ Routed(q)' /\ Routed(q)
  /\ request'[q].message = request[q].message
  /\ request'[q].at = "start" => request[q].at = "begin"
  /\ request'[q].at = "accepted" => request[q].at = "start" /\ request'[q].task = request[q].task

\* The row that beginTask may insert.
NewRows(q) == {[message |-> request[q].message, task |-> q, created |-> now] : now \in Stamps}

Progress ==
  /\ form' = form
  /\ request' \in [Requests -> Kinds]
  /\ \A q \in Requests : request'[q] = request[q] \/ Early(q) \/ Onward(q)

LEMMA BeginMoves ==
  ASSUME EndpointAssumption, IInv, NEW q \in Requests, Begin(q)
  PROVE  /\ Progress
         /\ request'[q].at = "start" /\ Onward(q)
         /\ \A p \in Requests \ {q} : request'[p] = request[p]
         /\ \E row \in (rows[ObjectOf(q)])' :
              row.message = request'[q].message /\ row.task = request'[q].task
<1> DEFINE o == ObjectOf(q)
           known == {r \in rows[o] : r.message = request[q].message}
<1>1. /\ TypeOK /\ form' = form /\ request[q].at = "begin" /\ Routed(q) /\ o \in Objects
      /\ request \in [Requests -> Kinds] /\ request[q] \in Kinds /\ q \in Nat
      /\ request[q].message \in Messages
  <2>1. q \in Nat
    BY DEF Requests, EndpointAssumption
  <2>2. TypeOK /\ form' = form /\ request[q].at = "begin" /\ Shown(q)
    BY DEF IInv, RequestsInv, Begin
  <2>3. request \in [Requests -> Kinds] /\ request[q] \in Kinds
    BY <2>2 DEF TypeOK, Kinds
  <2> QED BY <2>1, <2>2, <2>3 DEF Shown, Routed
<1>2. \E t \in Nat : request' = [request EXCEPT ![q].at = "start", ![q].task = t]
  <2>1. CASE known = {}
    BY <1>1, <2>1 DEF Begin
  <2>2. CASE known # {}
    <3>1. PICK s \in known : request' = [request EXCEPT ![q].at = "start", ![q].task = s.task]
      BY <1>1, <2>2 DEF Begin
    <3>2. s \in Rows
      BY <1>1 DEF TypeOK
    <3> QED BY <3>1, <3>2 DEF Rows
  <2> QED BY <2>1, <2>2
<1>3. PICK t \in Nat : request' = [request EXCEPT ![q].at = "start", ![q].task = t]
  BY <1>2
<1> DEFINE r == [request[q] EXCEPT !.at = "start", !.task = t]
<1>4. request' = [request EXCEPT ![q] = r]
  BY <1>1, <1>3
<1>5. /\ r \in Kinds /\ r.at = "start" /\ r.message = request[q].message /\ r.task = t
      /\ r.iss = request[q].iss /\ r.asked = request[q].asked /\ r.tenant = request[q].tenant
      /\ r.host = request[q].host /\ r.key = request[q].key
  BY <1>1 DEF Kinds, Places
<1> HIDE DEF r
<1>6. request'[q] = r /\ request' \in [Requests -> Kinds] /\ \A p \in Requests \ {q} : request'[p] = request[p]
  BY <1>1, <1>4, <1>5
<1>7. ObjectOf(q)' = o /\ InstanceOf(q)' = InstanceOf(q) /\ (Routed(q)' <=> Routed(q))
  <2>1. ObjectOf(q)' = o /\ InstanceOf(q)' = InstanceOf(q)
    BY <1>1, <1>5, <1>6 DEF ObjectOf, InstanceOf
  <2> QED BY <1>1, <1>5, <1>6, <2>1 DEF Routed
<1>10. (rows[ObjectOf(q)])' = rows'[o]
  BY <1>7
<1>8. Onward(q)
  BY <1>1, <1>5, <1>6, <1>7 DEF Onward, Active
<1>9. \E row \in (rows[ObjectOf(q)])' : row.message = request'[q].message /\ row.task = request'[q].task
  <2>1. CASE known = {}
    <3>0. PICK now \in Stamps :
            /\ rows' = [rows EXCEPT ![o] = @ \cup
                         {[message |-> request[q].message, task |-> q, created |-> now]}]
            /\ request' = [request EXCEPT ![q].at = "start", ![q].task = q]
      BY <2>1 DEF Begin
    <3> DEFINE new == [message |-> request[q].message, task |-> q, created |-> now]
    <3>1. /\ rows' = [rows EXCEPT ![o] = @ \cup {new}]
          /\ request' = [request EXCEPT ![q].at = "start", ![q].task = q]
      BY <3>0
    <3>2. rows \in [Objects -> SUBSET Rows]
      BY <1>1 DEF TypeOK
    <3>3. new \in rows'[o] /\ new.message = request[q].message /\ new.task = q
      BY <1>1, <3>1, <3>2
    <3>4. request'[q].task = q /\ request'[q].message = request[q].message
      BY <1>1, <3>1 DEF Kinds
    <3> QED BY <1>10, <3>3, <3>4
  <2>2. CASE known # {}
    <3>1. PICK s \in known : request' = [request EXCEPT ![q].at = "start", ![q].task = s.task]
      BY <1>1, <2>2 DEF Begin
    <3>2. request'[q].task = s.task /\ request'[q].message = request[q].message
      BY <1>1, <3>1, <1>5, <1>6 DEF Kinds
    <3>3. rows' = rows
      BY <1>1, <2>2 DEF Begin
    <3> QED BY <1>10, <3>2, <3>3
  <2> QED BY <2>1, <2>2
<1> QED BY <1>1, <1>6, <1>5, <1>8, <1>9 DEF Progress

\* A request that an action moves on, and no other.
LEMMA OnlyMoves ==
  ASSUME IInv, form' = form, NEW q \in Requests, NEW to \in {"accepted", "closed"}, Active(q),
         to = "accepted" => request[q].at = "start",
         request' = [request EXCEPT ![q].at = to]
  PROVE  Progress /\ Onward(q) /\ \A p \in Requests \ {q} : request'[p] = request[p]
<1>1. TypeOK /\ to \in Places /\ Shown(q)
  BY DEF IInv, RequestsInv, Places
<1>2. Routed(q)
  BY <1>1 DEF Shown, Active
<1> QED BY <1>1, <1>2, MovedOn DEF Progress, Onward

\* Every step of the system.
LEMMA StepsProgress ==
  ASSUME EndpointAssumption, GatewayAssumption, IInv, [Next]_vars
  PROVE  Progress
<1>0. TypeOK /\ request \in [Requests -> Kinds] /\ \A q \in Requests : Shown(q)
  BY DEF IInv, TypeOK, Kinds, RequestsInv
<1>1. ASSUME NEW q \in Requests, NEW token \in Tokens, NEW host \in Hosts, Verify(q, token, host)
      PROVE  Progress
  <2>1. request[q].at = "unsent" /\ form' = form
    BY <1>1 DEF Verify
  <2> QED BY <1>1, <2>1, VerifyGood DEF Progress, Early
<1>2. ASSUME NEW q \in Requests, NEW body \in Bodies, NEW message \in Messages,
             Dispatch(q, body, message)
      PROVE  Progress
  <2>1. request[q].at = "verified" /\ form' = form /\ message \notin aged
    BY <1>2 DEF Dispatch
  <2>2. /\ request' \in [Requests -> Kinds]
        /\ \A p \in Requests \ {q} : request'[p] = request[p]
        /\ request'[q].at \in {"begin", "list", "closed"}
        /\ request'[q].at = "begin" => request'[q].message = message
        /\ Shown(q)'
    BY <1>2, DispatchGood
  <2>3. Early(q)
    BY <2>1, <2>2 DEF Early
  <2> QED BY <2>1, <2>2, <2>3 DEF Progress
<1>3. ASSUME NEW q \in Requests, NEW size \in PageSizes, Ask(q, size) PROVE Progress
  <2>1. request[q].at = "list" /\ form' = form /\ Closes(q)
    BY <1>3 DEF Ask
  <2> QED BY <1>0, <2>1, ClosedShown DEF Progress, Early
<1>4. ASSUME NEW q \in Requests, StartTurn(q) \/ CreateThrows(q) \/ CreateSwallowed(q) \/ Die(q)
      PROVE  Progress
  <2>1. /\ form' = form /\ Active(q)
        /\ \E to \in {"accepted", "closed"} : /\ request' = [request EXCEPT ![q].at = to]
                                              /\ to = "accepted" => request[q].at = "start"
    BY <1>4 DEF StartTurn, CreateThrows, CreateSwallowed, Die, Active
  <2>2. PICK to \in {"accepted", "closed"} : /\ request' = [request EXCEPT ![q].at = to]
                                             /\ to = "accepted" => request[q].at = "start"
    BY <2>1
  <2> QED BY <2>1, <2>2, OnlyMoves
<1>5. ASSUME UNCHANGED <<form, request>> PROVE Progress
  BY <1>0, <1>5 DEF Progress
<1>6. ASSUME NEW i \in Instances, Work(i) PROVE UNCHANGED <<form, request>>
  BY <1>6 DEF Work, Enter, OpenSession, Sign, Leave, requestVars
<1>7. ASSUME NEW o \in Objects, Evict(o) PROVE UNCHANGED <<form, request>>
  BY <1>7 DEF Evict, requestVars
<1>8. ASSUME NEW o \in Objects, NEW r \in rows[o], Relist(r) \/ Cleanup(o, r)
      PROVE  UNCHANGED <<form, request>>
  BY <1>8 DEF Relist, Cleanup, turnVars
<1>9. ASSUME ReadPage PROVE UNCHANGED <<form, request>>
  BY <1>9 DEF ReadPage, turnVars
<1>10. ASSUME Finished \/ UNCHANGED vars PROVE UNCHANGED <<form, request>>
  BY <1>10 DEF Finished, vars
<1> QED BY <1>1, <1>2, <1>3, <1>4, <1>5, <1>6, <1>7, <1>8, <1>9, <1>10, BeginMoves DEF Next, Serve

\* What the three places that write rows or instances do; nobody else does.
LEMMA WhoWrites ==
  ASSUME [Next]_vars
  PROVE  /\ \/ rows' = rows /\ aged' = aged
            \/ \E q \in Requests : Begin(q)
            \/ \E o \in Objects : \E oldest \in rows[o] : Cleanup(o, oldest)
         /\ \/ instance' = instance
            \/ \E q \in Requests : StartTurn(q)
         /\ swallowed \subseteq swallowed'
<1>1. ASSUME NEW q \in Requests, Serve(q) \/ (\E size \in PageSizes : Ask(q, size))
      PROVE  /\ (rows' = rows /\ aged' = aged) \/ Begin(q)
             /\ instance' = instance \/ StartTurn(q)
             /\ swallowed \subseteq swallowed'
  BY <1>1 DEF Serve, Verify, Dispatch, Begin, StartTurn, CreateThrows, CreateSwallowed, Die, Ask
<1>2. ASSUME NEW i \in Instances, Work(i)
      PROVE  UNCHANGED <<rows, aged, instance, swallowed>>
  BY <1>2 DEF Work, Enter, OpenSession, Sign, Leave, requestVars
<1>3. ASSUME NEW o \in Objects, Evict(o) PROVE UNCHANGED <<rows, aged, instance, swallowed>>
  BY <1>3 DEF Evict, requestVars
<1>4. ASSUME ReadPage PROVE UNCHANGED <<rows, aged, instance, swallowed>>
  BY <1>4 DEF ReadPage, turnVars
<1>5. ASSUME NEW o \in Objects, NEW r \in rows[o], Relist(r) \/ Cleanup(o, r)
      PROVE  /\ instance' = instance /\ swallowed' = swallowed
             /\ (rows' = rows /\ aged' = aged) \/ Cleanup(o, r)
  BY <1>5 DEF Relist, Cleanup, turnVars
<1>6. ASSUME Finished \/ UNCHANGED vars PROVE UNCHANGED <<rows, aged, instance, swallowed>>
  BY <1>6 DEF Finished, vars
<1> QED BY <1>1, <1>2, <1>3, <1>4, <1>5, <1>6 DEF Next

-----------------------------------------------------------------------------
(* What the two writers of rows leave. *)

LEMMA BeginRows ==
  ASSUME EndpointAssumption, IInv, NEW q \in Requests, Begin(q)
  PROVE  /\ rows' \in [Objects -> SUBSET Rows] /\ aged' = aged
         /\ RowsFinite'
         /\ \/ rows' = rows /\ scan' = scan
            \/ /\ \A o \in Objects \ {ObjectOf(q)} : rows'[o] = rows[o]
               /\ ObjectOf(q) \in Objects
               /\ \E new \in NewRows(q) : /\ rows'[ObjectOf(q)] = rows[ObjectOf(q)] \cup {new}
                                          /\ Joins(ObjectOf(q), new)
               /\ \A row \in rows[ObjectOf(q)] : row.message # request[q].message
<1> DEFINE o == ObjectOf(q)
<1>1. Shown(q) /\ request[q].at = "begin" /\ rows \in [Objects -> SUBSET Rows] /\ RowsFinite
  BY DEF IInv, RequestsInv, Begin, TypeOK
<1>2. o \in Objects /\ request[q].message \in Messages /\ q \in Nat
  <2>1. q \in Nat
    BY DEF Requests, EndpointAssumption
  <2> QED BY <1>1, <2>1 DEF Shown, Routed
<1>3. NewRows(q) \subseteq Rows
  BY <1>2 DEF NewRows, Rows, EndpointAssumption
<1>4. CASE {r \in rows[o] : r.message = request[q].message} = {}
  <2>1. PICK new \in NewRows(q) : rows' = [rows EXCEPT ![o] = @ \cup {new}] /\ Joins(o, new)
    BY <1>4 DEF Begin, NewRows
  <2>2. aged' = aged
    BY DEF Begin
  <2>3. \A row \in rows[o] : row.message # request[q].message
    BY <1>4
  <2> HIDE DEF o
  <2>4. /\ rows' \in [Objects -> SUBSET Rows] /\ rows'[o] = rows[o] \cup {new}
        /\ \A other \in Objects \ {o} : rows'[other] = rows[other]
    BY <1>1, <1>2, <1>3, <2>1
  <2>5. ASSUME NEW other \in Objects PROVE IsFiniteSet(rows'[other])
    <3>1. IsFiniteSet(rows[other]) /\ IsFiniteSet(rows[other] \cup {new})
      BY <1>1, FS_AddElement DEF RowsFinite
    <3>2. rows'[other] = rows[other] \/ rows'[other] = rows[other] \cup {new}
      BY <2>4
    <3> QED BY <3>1, <3>2
  <2> QED BY <1>2, <2>1, <2>2, <2>3, <2>4, <2>5 DEF o, RowsFinite
<1>5. CASE {r \in rows[o] : r.message = request[q].message} # {}
  <2>1. rows' = rows /\ scan' = scan /\ aged' = aged
    BY <1>5 DEF Begin
  <2> QED BY <1>1, <2>1 DEF RowsFinite
<1> QED BY <1>4, <1>5

LEMMA CleanupRows ==
  ASSUME EndpointAssumption, IInv, NEW o \in Objects, NEW oldest \in rows[o], Cleanup(o, oldest)
  PROVE  LET gone == {r \in rows[o] : r.created <= oldest.created}
         IN /\ rows' \in [Objects -> SUBSET Rows]
            /\ \A other \in Objects \ {o} : rows'[other] = rows[other]
            /\ rows'[o] = rows[o] \ gone
            /\ \A row \in gone : row.message \in aged'
            /\ aged \subseteq aged' /\ aged' \subseteq Messages
            /\ RowsFinite'
<1> DEFINE gone == {r \in rows[o] : r.created <= oldest.created}
<1>1. TypeOK /\ rows \in [Objects -> SUBSET Rows] /\ RowsFinite /\ aged \subseteq Messages
  BY DEF IInv, TypeOK
<1>2. rows' = [rows EXCEPT ![o] = @ \ gone] /\ aged' = aged \cup {r.message : r \in gone}
  BY DEF Cleanup
<1>3. gone \subseteq Rows
  BY <1>1
<1> HIDE DEF gone
<1>4. /\ rows' \in [Objects -> SUBSET Rows] /\ rows'[o] = rows[o] \ gone
      /\ \A other \in Objects \ {o} : rows'[other] = rows[other]
  BY <1>1, <1>2
<1>5. \A r \in gone : r.message \in Messages
  BY <1>3 DEF Rows
<1>6. RowsFinite'
  <2> SUFFICES ASSUME NEW other \in Objects PROVE IsFiniteSet(rows'[other])
    BY DEF RowsFinite
  <2>1. rows'[other] \subseteq rows[other] /\ IsFiniteSet(rows[other])
    BY <1>1, <1>4 DEF RowsFinite
  <2> QED BY <2>1, FS_Subset
<1> QED BY <1>1, <1>2, <1>4, <1>5, <1>6 DEF gone

-----------------------------------------------------------------------------
(* Each part is kept. *)

\* Where a row can be, after any step.
LEMMA RowsAfter ==
  ASSUME EndpointAssumption, IInv, [Next]_vars
  PROVE  /\ \A o \in Objects : \A row \in rows'[o] :
              \/ row \in rows[o]
              \/ \E q \in Requests : Begin(q) /\ o = ObjectOf(q) /\ row \in NewRows(q)
         /\ rows' \in [Objects -> SUBSET Rows] /\ aged' \subseteq Messages /\ RowsFinite'
<1>0. rows \in [Objects -> SUBSET Rows] /\ aged \subseteq Messages /\ RowsFinite
  BY DEF IInv, TypeOK
<1>1. CASE rows' = rows /\ aged' = aged
  BY <1>0, <1>1 DEF RowsFinite
<1>2. ASSUME NEW q \in Requests, Begin(q) PROVE
        /\ \A o \in Objects : \A row \in rows'[o] :
             row \in rows[o] \/ (o = ObjectOf(q) /\ row \in NewRows(q))
        /\ rows' \in [Objects -> SUBSET Rows] /\ aged' \subseteq Messages /\ RowsFinite'
  BY <1>0, <1>2, BeginRows
<1>3. ASSUME NEW c \in Objects, NEW oldest \in rows[c], Cleanup(c, oldest) PROVE
        /\ \A o \in Objects : rows'[o] \subseteq rows[o]
        /\ rows' \in [Objects -> SUBSET Rows] /\ aged' \subseteq Messages /\ RowsFinite'
  BY <1>3, CleanupRows
<1> QED BY <1>1, <1>2, <1>3, WhoWrites

\* A row's task never turns into another's.
LEMMA RowsStay ==
  ASSUME EndpointAssumption, IInv, [Next]_vars, Progress
  PROVE  RowsInv'
<1> SUFFICES ASSUME NEW o \in Objects, NEW row \in rows'[o], row.task \in Requests
             PROVE  /\ request'[row.task].at \in {"start", "accepted", "closed"}
                    /\ Routed(row.task)'
                    /\ o = ObjectOf(row.task)'
  BY DEF RowsInv
<1> DEFINE q == row.task
<1>1. CASE row \in rows[o]
  <2>1. /\ request[q].at \in {"start", "accepted", "closed"} /\ Routed(q) /\ o = ObjectOf(q)
    BY <1>1 DEF IInv, RowsInv
  <2>2. CASE request'[q] = request[q]
    <3>1. ObjectOf(q)' = ObjectOf(q) /\ (Routed(q)' <=> Routed(q))
      BY <2>2, Untouched DEF Progress
    <3> QED BY <2>1, <2>2, <3>1
  <2>3. CASE Onward(q)
    BY <2>1, <2>3 DEF Onward
  <2>4. ~Early(q)
    BY <2>1 DEF Early
  <2> QED BY <2>2, <2>3, <2>4 DEF Progress
<1>2. CASE row \notin rows[o]
  <2>1. PICK p \in Requests : Begin(p) /\ o = ObjectOf(p) /\ row \in NewRows(p)
    BY <1>2, RowsAfter
  <2>2. p = q
    BY <2>1 DEF NewRows
  <2>3. request'[p].at = "start" /\ Onward(p)
    BY <2>1, BeginMoves
  <2> QED BY <2>1, <2>2, <2>3 DEF Onward
<1> QED BY <1>1, <1>2

\* Only Begin takes a request to its start.
LEMMA OnlyBegins ==
  ASSUME EndpointAssumption, GatewayAssumption, IInv, [Next]_vars, NEW q \in Requests,
         request'[q] # request[q], request'[q].at = "start"
  PROVE  Begin(q)
<1>0. request \in [Requests -> Kinds] /\ TypeOK
  BY DEF IInv, TypeOK, Kinds
<1>1. ASSUME NEW p \in Requests, NEW token \in Tokens, NEW host \in Hosts, Verify(p, token, host)
      PROVE  FALSE
  BY <1>1, VerifyGood
<1>2. ASSUME NEW p \in Requests, NEW body \in Bodies, NEW message \in Messages,
             Dispatch(p, body, message)
      PROVE  FALSE
  BY <1>2, DispatchGood
<1>3. ASSUME NEW p \in Requests, NEW size \in PageSizes, Ask(p, size) PROVE FALSE
  <2>1. Closes(p)
    BY <1>3 DEF Ask
  <2> QED BY <1>0, <2>1, ClosedShown
<1>4. ASSUME NEW p \in Requests, StartTurn(p) \/ CreateThrows(p) \/ CreateSwallowed(p) \/ Die(p)
      PROVE  FALSE
  <2>1. \E to \in {"accepted", "closed"} : request' = [request EXCEPT ![p].at = to]
    BY <1>4 DEF StartTurn, CreateThrows, CreateSwallowed, Die
  <2> QED BY <1>0, <2>1 DEF Kinds
<1>5. ASSUME NEW p \in Requests, Begin(p) PROVE p = q
  BY <1>5, BeginMoves
<1>6. request' # request
  OBVIOUS
<1>7. ~(\E i \in Instances : Work(i)) /\ ~(\E o \in Objects : Evict(o))
  BY <1>6 DEF Work, Enter, OpenSession, Sign, Leave, Evict, requestVars
<1>8. ~ReadPage /\ ~(\E o \in Objects : \E r \in rows[o] : Relist(r) \/ Cleanup(o, r))
  BY <1>6 DEF ReadPage, Relist, Cleanup, turnVars
<1>9. ~Finished /\ ~UNCHANGED vars
  BY <1>6 DEF Finished, vars
<1> QED BY <1>1, <1>2, <1>3, <1>4, <1>5, <1>7, <1>8, <1>9 DEF Next, Serve

\* And only these two accept one.
LEMMA OnlyAccepts ==
  ASSUME EndpointAssumption, GatewayAssumption, IInv, [Next]_vars, NEW q \in Requests,
         request'[q] # request[q], request'[q].at = "accepted"
  PROVE  StartTurn(q) \/ CreateSwallowed(q)
<1>0. request \in [Requests -> Kinds] /\ TypeOK
  BY DEF IInv, TypeOK, Kinds
<1>1. ASSUME NEW p \in Requests, NEW token \in Tokens, NEW host \in Hosts, Verify(p, token, host)
      PROVE  FALSE
  BY <1>1, VerifyGood
<1>2. ASSUME NEW p \in Requests, NEW body \in Bodies, NEW message \in Messages,
             Dispatch(p, body, message)
      PROVE  FALSE
  BY <1>2, DispatchGood
<1>3. ASSUME NEW p \in Requests, NEW size \in PageSizes, Ask(p, size) PROVE FALSE
  <2>1. Closes(p)
    BY <1>3 DEF Ask
  <2> QED BY <1>0, <2>1, ClosedShown
<1>4. ASSUME NEW p \in Requests, CreateThrows(p) \/ Die(p) PROVE FALSE
  <2>1. request' = [request EXCEPT ![p].at = "closed"]
    BY <1>4 DEF CreateThrows, Die
  <2> QED BY <1>0, <2>1 DEF Kinds
<1>5. ASSUME NEW p \in Requests, StartTurn(p) \/ CreateSwallowed(p) PROVE p = q
  <2>1. request' = [request EXCEPT ![p].at = "accepted"]
    BY <1>5 DEF StartTurn, CreateSwallowed
  <2> QED BY <1>0, <2>1
<1>6. ASSUME NEW p \in Requests, Begin(p) PROVE FALSE
  BY <1>6, BeginMoves
<1>7. request' # request
  OBVIOUS
<1>8. ~(\E i \in Instances : Work(i)) /\ ~(\E o \in Objects : Evict(o))
  BY <1>7 DEF Work, Enter, OpenSession, Sign, Leave, Evict, requestVars
<1>9. ~ReadPage /\ ~(\E o \in Objects : \E r \in rows[o] : Relist(r) \/ Cleanup(o, r))
  BY <1>7 DEF ReadPage, Relist, Cleanup, turnVars
<1>10. ~Finished /\ ~UNCHANGED vars
  BY <1>7 DEF Finished, vars
<1> QED BY <1>1, <1>2, <1>3, <1>4, <1>5, <1>6, <1>8, <1>9, <1>10 DEF Next, Serve

\* What a request at work has in its table stays there.
LEMMA StartStays ==
  ASSUME EndpointAssumption, GatewayAssumption, IInv, [Next]_vars, Progress
  PROVE  StartInv'
<1> SUFFICES ASSUME NEW q \in Requests, request'[q].at = "start"
             PROVE  \E row \in (rows[ObjectOf(q)])' : IsTaskOf(q, row)'
  BY DEF StartInv
<1>1. CASE request'[q] = request[q]
  <2>1. /\ Shown(q) /\ request[q].at = "start" /\ Active(q)
        /\ ObjectOf(q)' = ObjectOf(q) /\ ObjectOf(q) \in Objects
    <3>1. Shown(q) /\ request[q].at = "start"
      BY <1>1 DEF IInv, RequestsInv
    <3>2. ObjectOf(q)' = ObjectOf(q)
      BY <1>1, Untouched DEF Progress
    <3> QED BY <3>1, <3>2 DEF Shown, Routed, Active
  <2>2. PICK o \in Objects : o = ObjectOf(q) /\ o = ObjectOf(q)'
    BY <2>1
  <2>3. PICK row \in rows[o] : IsTaskOf(q, row)
    BY <2>1, <2>2 DEF IInv, StartInv
  <2>4. row \in rows'[o]
    <3>1. CASE rows' = rows
      BY <2>3, <3>1
    <3>2. ASSUME NEW p \in Requests, Begin(p) PROVE row \in rows'[o]
      <4>1. CASE o = ObjectOf(p)
        BY <2>3, <3>2, <4>1, BeginRows
      <4>2. CASE o # ObjectOf(p)
        BY <2>3, <3>2, <4>2, BeginRows
      <4> QED BY <4>1, <4>2
    <3>3. ASSUME NEW c \in Objects, NEW oldest \in rows[c], Cleanup(c, oldest)
          PROVE  row \in rows'[o]
      <4>1. c # o
        BY <2>1, <2>2, <3>3 DEF Cleanup, Active
      <4> QED BY <2>3, <3>3, <4>1, CleanupRows
    <3> QED BY <3>1, <3>2, <3>3, WhoWrites
  <2>5. IsTaskOf(q, row)'
    BY <1>1, <2>3 DEF IsTaskOf
  <2>6. (rows[ObjectOf(q)])' = rows'[o]
    BY <2>2
  <2> QED BY <2>4, <2>5, <2>6
<1>2. CASE request'[q] # request[q]
  <2>1. Begin(q)
    BY <1>2, OnlyBegins
  <2>2. \E row \in (rows[ObjectOf(q)])' : row.message = request'[q].message /\ row.task = request'[q].task
    BY <2>1, BeginMoves
  <2> QED BY <2>2 DEF IsTaskOf
<1> QED BY <1>1, <1>2

\* A message that may be sent or is being served is not new by a step.
LEMMA LiveBefore ==
  ASSUME EndpointAssumption, GatewayAssumption, IInv, [Next]_vars, Progress,
         NEW o \in Objects, NEW m \in Messages, Live(o, m)'
  PROVE  Live(o, m)
<1>0. aged \subseteq aged'
  BY WhoWrites, BeginRows, CleanupRows
<1>1. CASE m \notin aged' /\ o[2] = Sender[m]
  BY <1>0, <1>1 DEF Live
<1>2. ASSUME NEW q \in Requests, Active(q)', ObjectOf(q)' = o, request'[q].message = m
      PROVE  Live(o, m)
  <2>1. CASE request'[q] = request[q]
    <3>1. Active(q) /\ ObjectOf(q) = o
      BY <1>2, <2>1, Untouched DEF Progress
    <3> QED BY <1>2, <2>1, <3>1 DEF Live
  <2>2. CASE Onward(q)
    BY <1>2, <2>2 DEF Live, Onward
  <2>3. CASE Early(q)
    <3>1. request'[q].at = "begin"
      BY <1>2, <2>3 DEF Early, Active
    <3>2. Routed(q)' /\ m \notin aged
      BY <1>2, <2>3, <3>1 DEF Early, Shown
    <3>3. Sender[m] = request'[q].key /\ o[2] = request'[q].key
      BY <1>2, <3>2 DEF Routed, ObjectOf
    <3> QED BY <3>2, <3>3 DEF Live
  <2> QED BY <2>1, <2>2, <2>3 DEF Progress
<1> QED BY <1>1, <1>2 DEF Live

\* Two callers' messages do not meet in an instance.
LEMMA ObjectOfMessage ==
  ASSUME EndpointAssumption, IInv, NEW o \in Objects, NEW m \in Messages, Live(o, m)
  PROVE  o[2] = Sender[m]
<1>1. ASSUME NEW q \in Requests, Active(q), ObjectOf(q) = o, request[q].message = m
      PROVE  o[2] = Sender[m]
  <2>1. Routed(q)
    BY <1>1 DEF IInv, RequestsInv, Shown, Active
  <2> QED BY <1>1, <2>1 DEF Routed, ObjectOf
<1> QED BY <1>1 DEF Live

\* A request at work: its object, its message, and what is on record of them.
LEMMA AtWork ==
  ASSUME IInv, NEW q \in Requests, Active(q)
  PROVE  /\ ObjectOf(q) \in Objects /\ request[q].message \in Messages
         /\ Sender[request[q].message] = request[q].key
         /\ Live(ObjectOf(q), request[q].message)
         /\ OneTask(ObjectOf(q), request[q].message)
         /\ TurnOnRecord(ObjectOf(q), request[q].message)
         /\ InstanceOf(q) = <<ObjectOf(q)[1], WorkflowId[request[q].message]>>
<1>1. Routed(q)
  BY DEF IInv, RequestsInv, Shown, Active
<1>2. Live(ObjectOf(q), request[q].message)
  BY DEF Live
<1>3. ObjectOf(q) \in Objects /\ request[q].message \in Messages
      /\ Sender[request[q].message] = request[q].key
  BY <1>1 DEF Routed
<1>4. OneTask(ObjectOf(q), request[q].message) /\ TurnOnRecord(ObjectOf(q), request[q].message)
  BY <1>2, <1>3 DEF IInv, TurnsInv
<1> QED BY <1>2, <1>3, <1>4 DEF InstanceOf, ObjectOf

\* The instance a start leaves is one of the task on record.
LEMMA Started ==
  ASSUME EndpointAssumption, IInv, NEW q \in Requests, StartTurn(q)
  PROVE  /\ InstanceOf(q) \in Instances
         /\ AcceptedTurn(q) \in Turns
         /\ instance'[InstanceOf(q)] # None
         /\ instance'[InstanceOf(q)].object = ObjectOf(q)
         /\ instance'[InstanceOf(q)].task = request[q].task
         /\ \E row \in rows[ObjectOf(q)] : IsTaskOf(q, row)
         /\ \A i \in Instances \ {InstanceOf(q)} : instance'[i] = instance[i]
         /\ instance' \in [Instances -> Turns \cup {None}]
<1> DEFINE i == InstanceOf(q)
           o == ObjectOf(q)
           m == request[q].message
<1>1. request[q].at = "start" /\ Active(q)
  BY DEF StartTurn, Active
<1>2. /\ TypeOK /\ instance \in [Instances -> Turns \cup {None}] /\ Routed(q)
  <2>1. TypeOK /\ Shown(q)
    BY DEF IInv, RequestsInv
  <2> QED BY <1>1, <2>1 DEF TypeOK, Shown
<1>3. /\ o \in Objects /\ m \in Messages /\ OneTask(o, m) /\ TurnOnRecord(o, m)
      /\ i = <<o[1], WorkflowId[m]>>
  BY <1>1, AtWork
<1>4. i \in Instances
  BY <1>3 DEF Objects, Instances, EndpointAssumption
<1>5. PICK row \in rows[o] : row.message = m /\ row.task = request[q].task
  BY <1>1 DEF IInv, StartInv, IsTaskOf
<1>6. request[q].task \in Nat /\ request[q].host \in Hosts /\ request[q].key \in Keys
  <2>1. row \in Rows
    BY <1>2, <1>3, <1>5 DEF TypeOK
  <2>2. request[q].key \in Keys
    BY <1>3 DEF o, ObjectOf, Objects
  <2> QED BY <1>2, <1>5, <2>1, <2>2 DEF Rows, Routed
<1>7. AcceptedTurn(q) \in Turns
  BY <1>3, <1>6 DEF AcceptedTurn, Turns
<1>8. AcceptedTurn(q) # None
  <2>1. None \notin Turns
    BY DEF EndpointAssumption, Turns
  <2> QED BY <1>7, <2>1
<1>9. instance' = [instance EXCEPT ![i] = IF @ = None THEN AcceptedTurn(q) ELSE @]
  BY DEF StartTurn
<1> HIDE DEF i, o, m
<1>10. /\ instance'[i] = IF instance[i] = None THEN AcceptedTurn(q) ELSE instance[i]
       /\ \A j \in Instances \ {i} : instance'[j] = instance[j]
       /\ instance' \in [Instances -> Turns \cup {None}]
  BY <1>2, <1>4, <1>7, <1>9
<1>11. CASE instance[i] = None
  <2>1. instance'[i] = AcceptedTurn(q)
    BY <1>10, <1>11
  <2>2. AcceptedTurn(q).object = o /\ AcceptedTurn(q).task = request[q].task
    BY DEF AcceptedTurn, o
  <2> QED BY <1>4, <1>5, <1>7, <1>8, <1>10, <2>1, <2>2 DEF i, o, m, IsTaskOf
<1>12. CASE instance[i] # None
  <2>1. instance'[i] = instance[i]
    BY <1>10, <1>12
  <2>2. PICK other \in rows[o] : other.message = m /\ other.task = instance[i].task
    BY <1>3, <1>12 DEF TurnOnRecord
  <2>3. instance[i].object = o
    BY <1>3, <1>12 DEF TurnOnRecord
  <2>4. instance[i].task = request[q].task
    BY <1>3, <1>5, <2>2 DEF OneTask
  <2> QED BY <1>4, <1>5, <1>7, <1>10, <1>12, <2>1, <2>3, <2>4 DEF i, o, m, IsTaskOf
<1> QED BY <1>11, <1>12

\* The rows of a message that is served, or may be, are kept.
LEMMA RowsKept ==
  ASSUME EndpointAssumption, IInv, [Next]_vars,
         NEW o \in Objects, NEW m \in Messages, Live(o, m)',
         NEW row \in rows[o], row.message = m
  PROVE  row \in rows'[o]
<1>1. CASE rows' = rows
  BY <1>1
<1>2. ASSUME NEW p \in Requests, Begin(p) PROVE row \in rows'[o]
  <2>1. CASE o = ObjectOf(p)
    BY <1>2, <2>1, BeginRows
  <2>2. CASE o # ObjectOf(p)
    BY <1>2, <2>2, BeginRows
  <2> QED BY <2>1, <2>2
<1>3. ASSUME NEW c \in Objects, NEW oldest \in rows[c], Cleanup(c, oldest)
      PROVE  row \in rows'[o]
  <2>1. /\ \A other \in Objects \ {c} : rows'[other] = rows[other]
        /\ \A old \in rows[c] : old \in rows'[c] \/ old.message \in aged'
    BY <1>3, CleanupRows
  <2>2. CASE o = c
    <3>1. /\ request' = request /\ form' = form
          /\ \A q \in Requests : Active(q) => ObjectOf(q) # o
      BY <1>3, <2>2 DEF Cleanup, turnVars, Active
    <3>2. \A q \in Requests : Active(q)' => ObjectOf(q)' # o
      BY <3>1 DEF Active, ObjectOf
    <3>3. m \notin aged'
      BY <3>2 DEF Live
    <3> QED BY <2>1, <2>2, <3>3
  <2>3. CASE o # c
    BY <2>1, <2>3
  <2> QED BY <2>2, <2>3
<1> QED BY <1>1, <1>2, <1>3, WhoWrites

\* A message has one task in an object, and its turn carries that task.
LEMMA TurnsStay ==
  ASSUME EndpointAssumption, GatewayAssumption, IInv, [Next]_vars, Progress
  PROVE  TurnsInv'
<1> SUFFICES ASSUME NEW o \in Objects, NEW m \in Messages, Live(o, m)'
             PROVE  OneTask(o, m)' /\ TurnOnRecord(o, m)'
  BY DEF TurnsInv
<1>1. TypeOK /\ Live(o, m) /\ OneTask(o, m) /\ TurnOnRecord(o, m) /\ o[2] = Sender[m]
  BY LiveBefore, ObjectOfMessage DEF IInv, TurnsInv
<1>2. OneTask(o, m)'
  <2>1. ASSUME NEW p \in Requests, Begin(p), rows' # rows, o = ObjectOf(p) PROVE OneTask(o, m)'
    <3>1. PICK new \in NewRows(p) : rows'[o] = rows[o] \cup {new}
      BY <2>1, BeginRows
    <3>2. new.message = request[p].message /\ \A row \in rows[o] : row.message # request[p].message
      BY <2>1, BeginRows DEF NewRows
    <3> QED BY <1>1, <3>1, <3>2 DEF OneTask
  <2>2. ASSUME rows'[o] \subseteq rows[o] PROVE OneTask(o, m)'
    BY <1>1, <2>2 DEF OneTask
  <2>3. ASSUME NEW p \in Requests, Begin(p), rows' # rows, o # ObjectOf(p)
        PROVE  rows'[o] \subseteq rows[o]
    BY <2>3, BeginRows
  <2>4. ASSUME NEW c \in Objects, NEW oldest \in rows[c], Cleanup(c, oldest)
        PROVE  rows'[o] \subseteq rows[o]
    <3>1. ASSUME NEW p \in Requests, Begin(p) PROVE FALSE
      <4>1. request[p].at = "begin" /\ request' = request
        BY <2>4, <3>1 DEF Cleanup, turnVars, Begin
      <4>2. request'[p].at = "start"
        BY <3>1, BeginMoves
      <4> QED BY <4>1, <4>2
    <3> QED BY <3>1, RowsAfter
  <2>5. CASE rows' = rows
    BY <2>2, <2>5
  <2> QED BY <2>1, <2>2, <2>3, <2>4, <2>5, WhoWrites
<1>3. TurnOnRecord(o, m)'
  <2> DEFINE i == <<o[1], WorkflowId[m]>>
  <2>0. i \in Instances
    BY DEF Objects, Instances, EndpointAssumption
  <2>1. ASSUME instance'[i] = instance[i] PROVE TurnOnRecord(o, m)'
    <3>1. CASE instance[i] # None
      <4>1. instance[i].object = o
        BY <1>1, <3>1 DEF TurnOnRecord
      <4>2. PICK row \in rows[o] : row.message = m /\ row.task = instance[i].task
        BY <1>1, <3>1 DEF TurnOnRecord
      <4>3. row \in rows'[o]
        BY <4>2, RowsKept
      <4> QED BY <2>1, <4>1, <4>2, <4>3 DEF TurnOnRecord
    <3>2. CASE instance[i] = None
      BY <2>1, <3>2 DEF TurnOnRecord
    <3> QED BY <3>1, <3>2
  <2>2. ASSUME NEW q \in Requests, StartTurn(q), i = InstanceOf(q) PROVE TurnOnRecord(o, m)'
    <3>1. Active(q) /\ rows' = rows
      BY <2>2 DEF StartTurn, Active
    <3>2. /\ InstanceOf(q) = <<ObjectOf(q)[1], WorkflowId[request[q].message]>>
          /\ request[q].message \in Messages /\ ObjectOf(q) \in Objects
          /\ Sender[request[q].message] = request[q].key
      BY <3>1, AtWork
    <3>3. m = request[q].message /\ o[1] = ObjectOf(q)[1]
      BY <2>2, <3>2 DEF EndpointAssumption
    <3>4. o = ObjectOf(q)
      <4>1. ObjectOf(q)[2] = request[q].key
        BY DEF ObjectOf
      <4>2. ObjectOf(q)[2] = o[2]
        BY <1>1, <3>2, <3>3, <4>1
      <4>3. ObjectOf(q) = <<ObjectOf(q)[1], ObjectOf(q)[2]>> /\ o = <<o[1], o[2]>>
        BY <3>2 DEF Objects
      <4> QED BY <3>3, <4>2, <4>3
    <3>5. /\ instance'[i].object = o /\ instance'[i].task = request[q].task
          /\ \E row \in rows[o] : IsTaskOf(q, row)
      BY <2>2, <3>4, Started
    <3>6. \E row \in rows[o] : row.message = m /\ row.task = instance'[i].task
      BY <3>3, <3>5 DEF IsTaskOf
    <3>7. rows'[o] = rows[o]
      BY <3>1
    <3> QED BY <3>5, <3>6, <3>7 DEF TurnOnRecord
  <2>3. ASSUME NEW q \in Requests, StartTurn(q), i # InstanceOf(q)
        PROVE  instance'[i] = instance[i]
    BY <2>0, <2>3, Started
  <2> QED BY <2>1, <2>2, <2>3, WhoWrites
<1> QED BY <1>2, <1>3

\* What is accepted has its turn, and keeps it.
LEMMA AcceptedStays ==
  ASSUME EndpointAssumption, GatewayAssumption, IInv, [Next]_vars, Progress
  PROVE  AcceptedHasItsTurn'
<1> SUFFICES ASSUME NEW q \in Requests, request'[q].at = "accepted"
             PROVE  (\/ /\ instance[InstanceOf(q)] # None
                        /\ instance[InstanceOf(q)].object = ObjectOf(q)
                        /\ instance[InstanceOf(q)].task = request[q].task
                     \/ InstanceOf(q) \in swallowed)'
  BY DEF AcceptedHasItsTurn
<1>1. CASE request'[q] = request[q]
  <2>1. /\ InstanceOf(q)' = InstanceOf(q) /\ ObjectOf(q)' = ObjectOf(q)
    BY <1>1, Untouched DEF Progress
  <2>2. \/ /\ instance[InstanceOf(q)] # None
           /\ instance[InstanceOf(q)].object = ObjectOf(q)
           /\ instance[InstanceOf(q)].task = request[q].task
        \/ InstanceOf(q) \in swallowed
    BY <1>1 DEF IInv, AcceptedHasItsTurn
  <2>3. InstanceOf(q) \in Instances
    <3>1. Routed(q)
      BY <1>1 DEF IInv, RequestsInv, Shown
    <3> QED BY <3>1 DEF Routed, ObjectOf, InstanceOf, Objects, Instances, EndpointAssumption
  <2>4. instance[InstanceOf(q)] # None => instance'[InstanceOf(q)] = instance[InstanceOf(q)]
    <3>1. ASSUME NEW p \in Requests, StartTurn(p), instance[InstanceOf(q)] # None
          PROVE  instance'[InstanceOf(q)] = instance[InstanceOf(q)]
      <4>1. CASE InstanceOf(q) # InstanceOf(p)
        BY <2>3, <3>1, <4>1, Started
      <4>2. CASE InstanceOf(q) = InstanceOf(p)
        <5>1. instance \in [Instances -> Turns \cup {None}]
          BY DEF IInv, TypeOK
        <5> QED BY <2>3, <3>1, <4>2, <5>1 DEF StartTurn
      <4> QED BY <4>1, <4>2
    <3> QED BY <3>1, WhoWrites
  <2>5. swallowed \subseteq swallowed'
    BY WhoWrites
  <2> QED BY <1>1, <2>1, <2>2, <2>4, <2>5
<1>2. CASE request'[q] # request[q]
  <2>1. ~Early(q)
    BY DEF Early
  <2>2. Onward(q)
    BY <1>2, <2>1 DEF Progress
  <2>3. /\ request[q].at = "start" /\ request'[q].task = request[q].task
        /\ InstanceOf(q)' = InstanceOf(q) /\ ObjectOf(q)' = ObjectOf(q)
    BY <2>2 DEF Onward
  <2>4. StartTurn(q) \/ CreateSwallowed(q)
    BY <1>2, <2>3, OnlyAccepts
  <2>5. CASE StartTurn(q)
    BY <2>3, <2>5, Started
  <2>6. CASE CreateSwallowed(q)
    BY <2>3, <2>6 DEF CreateSwallowed
  <2> QED BY <2>4, <2>5, <2>6
<1> QED BY <1>1, <1>2

Isolates == [origin : Hosts \cup {None}, key : Keys \cup {None}]
Signed == [issuer : Hosts \cup {None}, key : Keys]

\* An instance that is there stays as it is.
LEMMA InstancesStay ==
  ASSUME EndpointAssumption, IInv, [Next]_vars
  PROVE  /\ instance' \in [Instances -> Turns \cup {None}]
         /\ \A i \in Instances : instance[i] # None => instance'[i] = instance[i]
         /\ \A i \in Instances : instance'[i] # None => instance'[i].key = instance'[i].object[2]
<1>0. \A i \in Instances : instance[i] # None => instance[i].key = instance[i].object[2]
  BY DEF IInv, IsolatesInv
<1>1. instance \in [Instances -> Turns \cup {None}]
  BY DEF IInv, TypeOK
<1>2. ASSUME NEW q \in Requests, StartTurn(q)
      PROVE  /\ instance' \in [Instances -> Turns \cup {None}]
             /\ \A i \in Instances : instance[i] # None => instance'[i] = instance[i]
             /\ \A i \in Instances : instance'[i] # None => instance'[i].key = instance'[i].object[2]
  <2>1. /\ InstanceOf(q) \in Instances
        /\ \A i \in Instances \ {InstanceOf(q)} : instance'[i] = instance[i]
        /\ instance' \in [Instances -> Turns \cup {None}]
    BY <1>2, Started
  <2>2. instance[InstanceOf(q)] # None => instance'[InstanceOf(q)] = instance[InstanceOf(q)]
    BY <1>1, <1>2, <2>1 DEF StartTurn
  <2>3. instance[InstanceOf(q)] = None => instance'[InstanceOf(q)] = AcceptedTurn(q)
    BY <1>1, <1>2, <2>1 DEF StartTurn
  <2>4. AcceptedTurn(q).key = AcceptedTurn(q).object[2]
    BY DEF AcceptedTurn, ObjectOf
  <2> QED BY <1>0, <2>1, <2>2, <2>3, <2>4
<1> QED BY <1>0, <1>1, <1>2, WhoWrites

\* Who writes what an isolate holds.
LEMMA WhoRuns ==
  ASSUME [Next]_vars
  PROVE  \/ UNCHANGED <<isolate, turn, issued>>
         \/ \E i \in Instances : Work(i)
         \/ \E o \in Objects : Evict(o)
<1>1. ASSUME NEW q \in Requests, Serve(q) \/ (\E size \in PageSizes : Ask(q, size))
      PROVE  UNCHANGED <<isolate, turn, issued>>
  BY <1>1 DEF Serve, Verify, Dispatch, Begin, StartTurn, CreateThrows, CreateSwallowed, Die, Ask, objectVars
<1>2. ASSUME ReadPage \/ (\E o \in Objects : \E r \in rows[o] : Relist(r) \/ Cleanup(o, r))
      PROVE  UNCHANGED <<isolate, turn, issued>>
  BY <1>2 DEF ReadPage, Relist, Cleanup, turnVars
<1>3. ASSUME Finished \/ UNCHANGED vars PROVE UNCHANGED <<isolate, turn, issued>>
  BY <1>3 DEF Finished, vars
<1> QED BY <1>1, <1>2, <1>3 DEF Next

IsolateTypes == isolate \in [Objects -> Isolates] /\ turn \subseteq Instances /\ issued \in [Objects -> SUBSET Signed]

\* An isolate holds one origin and one key from its first call until it goes.
LEMMA IsolatesStay ==
  ASSUME EndpointAssumption, GatewayAssumption, IInv, [Next]_vars
  PROVE  IsolateTypes' /\ IsolatesInv'
<1>0. /\ IsolateTypes /\ IsolatesInv /\ instance \in [Instances -> Turns \cup {None}]
      /\ None \notin Hosts /\ None \notin Keys
      /\ \A i \in Instances : instance'[i] # None => instance'[i].key = instance'[i].object[2]
  BY InstancesStay DEF IInv, TypeOK, IsolateTypes, Isolates, Signed, GatewayAssumption
<1>1. CASE UNCHANGED <<isolate, turn, issued>>
  <2>1. IsolateTypes'
    BY <1>0, <1>1 DEF IsolateTypes
  <2>2. \A i \in turn : instance'[i] = instance[i]
    BY <1>0, InstancesStay DEF IsolateTypes, IsolatesInv
  <2> QED BY <1>0, <1>1, <2>1, <2>2 DEF IsolatesInv
<1>2. ASSUME NEW i \in Instances, Enter(i) PROVE IsolateTypes' /\ IsolatesInv'
  <2>1. PICK o \in Objects : o = instance[i].object /\ instance[i].host \in Hosts
    BY <1>0, <1>2 DEF Enter, Turns
  <2>2. /\ isolate' = [isolate EXCEPT ![o].origin = Note(@, instance[i].host)]
        /\ turn' = turn \cup {i} /\ issued' = issued /\ instance' = instance /\ instance[i] # None
    BY <1>2, <2>1 DEF Enter, requestVars
  <2>3. /\ isolate'[o].origin \in Hosts /\ isolate'[o].key = isolate[o].key
        /\ isolate[o].origin \in Hosts => isolate'[o].origin = isolate[o].origin
        /\ isolate' \in [Objects -> Isolates]
        /\ \A other \in Objects \ {o} : isolate'[other] = isolate[other]
    <3> DEFINE r == [isolate[o] EXCEPT !.origin = Note(isolate[o].origin, instance[i].host)]
    <3>1. isolate[o] \in Isolates /\ isolate \in [Objects -> Isolates]
      BY <1>0 DEF IsolateTypes
    <3>2. Note(isolate[o].origin, instance[i].host) \in Hosts
      BY <2>1, <3>1 DEF Note, Isolates
    <3>3. isolate[o].origin \in Hosts => Note(isolate[o].origin, instance[i].host) = isolate[o].origin
      BY <1>0 DEF Note
    <3>4. /\ r \in Isolates /\ r.key = isolate[o].key
          /\ r.origin = Note(isolate[o].origin, instance[i].host)
      BY <3>1, <3>2 DEF Isolates
    <3>5. isolate' = [isolate EXCEPT ![o] = r]
      BY <2>2, <3>1
    <3> HIDE DEF r
    <3>6. /\ isolate' \in [Objects -> Isolates] /\ isolate'[o] = r
          /\ \A other \in Objects \ {o} : isolate'[other] = isolate[other]
      BY <3>1, <3>4, <3>5
    <3> QED BY <3>2, <3>3, <3>4, <3>6
  <2>4. IsolateTypes'
    BY <1>0, <2>2, <2>3 DEF IsolateTypes
  <2>5. ASSUME NEW j \in turn' PROVE instance'[j] # None /\ isolate'[instance'[j].object].origin \in Hosts
    <3>1. CASE j = i
      BY <2>1, <2>2, <2>3, <3>1
    <3>2. CASE j # i
      <4>1. j \in turn /\ j \in Instances /\ instance[j] # None /\ isolate[instance[j].object].origin \in Hosts
        BY <1>0, <2>2, <3>2 DEF IsolatesInv, IsolateTypes
      <4>2. instance[j].object \in Objects
        BY <1>0, <4>1 DEF Turns
      <4> QED BY <2>2, <2>3, <4>1, <4>2
    <3> QED BY <3>1, <3>2
  <2>6. ASSUME NEW other \in Objects
        PROVE  /\ isolate'[other].key \in {None, other[2]}
               /\ issued'[other] \subseteq {[issuer |-> isolate'[other].origin, key |-> other[2]]}
               /\ isolate'[other].origin \notin Hosts => issued'[other] = {}
    <3>1. CASE other = o /\ isolate[o].origin \in Hosts
      BY <1>0, <2>2, <2>3, <3>1 DEF IsolatesInv
    <3>2. CASE other = o /\ isolate[o].origin \notin Hosts
      BY <1>0, <2>2, <2>3, <3>2 DEF IsolatesInv
    <3>3. CASE other # o
      BY <1>0, <2>2, <2>3, <3>3 DEF IsolatesInv
    <3> QED BY <3>1, <3>2, <3>3
  <2> QED BY <1>0, <2>4, <2>5, <2>6 DEF IsolatesInv
<1>3. ASSUME NEW i \in Instances, Sign(i) PROVE IsolateTypes' /\ IsolatesInv'
  <2>1. PICK o \in Objects : o = instance[i].object /\ isolate[o].origin \in Hosts
    <3>1. i \in turn /\ instance[i] # None /\ isolate[instance[i].object].origin \in Hosts
      BY <1>0, <1>3 DEF Sign, IsolatesInv
    <3> QED BY <1>0, <3>1 DEF Turns
  <2>2. KeyKnown(o) = o[2] /\ o[2] \in Keys
    BY <1>0 DEF IsolatesInv, KeyKnown, Objects
  <2>3. /\ isolate' = [isolate EXCEPT ![o].key = o[2]]
        /\ issued' = [issued EXCEPT ![o] = @ \cup {[issuer |-> isolate[o].origin, key |-> o[2]]}]
        /\ turn' = turn /\ instance' = instance
    BY <1>3, <2>1, <2>2 DEF Sign, requestVars
  <2>4. /\ isolate' \in [Objects -> Isolates] /\ isolate'[o].key = o[2]
        /\ isolate'[o].origin = isolate[o].origin
        /\ \A other \in Objects \ {o} : isolate'[other] = isolate[other]
    BY <1>0, <2>2, <2>3 DEF IsolateTypes, Isolates
  <2>5. /\ issued' \in [Objects -> SUBSET Signed]
        /\ issued'[o] = issued[o] \cup {[issuer |-> isolate[o].origin, key |-> o[2]]}
        /\ \A other \in Objects \ {o} : issued'[other] = issued[other]
    <3>1. [issuer |-> isolate[o].origin, key |-> o[2]] \in Signed
      BY <2>1, <2>2 DEF Signed
    <3> QED BY <1>0, <2>3, <3>1 DEF IsolateTypes
  <2>6. \A j \in turn' : instance'[j] # None /\ isolate'[instance'[j].object].origin \in Hosts
    <3> SUFFICES ASSUME NEW j \in turn
                 PROVE  instance[j] # None /\ isolate'[instance[j].object].origin \in Hosts
      BY <2>3
    <3>1. j \in Instances /\ instance[j] # None /\ isolate[instance[j].object].origin \in Hosts
      BY <1>0 DEF IsolatesInv, IsolateTypes
    <3>2. instance[j].object \in Objects
      BY <1>0, <3>1 DEF Turns
    <3> QED BY <2>4, <3>1, <3>2
  <2>7. \A other \in Objects :
          /\ isolate'[other].key \in {None, other[2]}
          /\ issued'[other] \subseteq {[issuer |-> isolate'[other].origin, key |-> other[2]]}
          /\ isolate'[other].origin \notin Hosts => issued'[other] = {}
    BY <1>0, <2>1, <2>4, <2>5 DEF IsolatesInv
  <2> QED BY <1>0, <2>3, <2>4, <2>5, <2>6, <2>7 DEF IsolatesInv, IsolateTypes
<1>6. ASSUME NEW i \in Instances, OpenSession(i) PROVE IsolateTypes' /\ IsolatesInv'
  <2>1. /\ i \in turn /\ instance[i] \in Turns /\ isolate[instance[i].object].origin \in Hosts
        /\ instance[i].key = instance[i].object[2]
    BY <1>0, <1>6 DEF OpenSession, IsolatesInv
  <2>2. PICK o \in Objects : o = instance[i].object /\ instance[i].key = o[2]
    BY <2>1 DEF Turns
  <2>3. isolate[o].key \in {None, o[2]} /\ o[2] \in Keys
    BY <1>0 DEF IsolatesInv, Objects
  <2>4. isolate' = [isolate EXCEPT ![o].key = o[2]]
    BY <1>6, <2>2, <2>3 DEF OpenSession
  <2>5. /\ isolate' \in [Objects -> Isolates] /\ isolate'[o].key = o[2]
        /\ isolate'[o].origin = isolate[o].origin
        /\ \A other \in Objects \ {o} : isolate'[other] = isolate[other]
    BY <1>0, <2>3, <2>4 DEF IsolateTypes, Isolates
  <2>6. turn' = turn /\ issued' = issued /\ instance' = instance
    BY <1>6 DEF OpenSession, requestVars
  <2>7. \A j \in turn' : instance'[j] # None /\ isolate'[instance'[j].object].origin \in Hosts
    <3> SUFFICES ASSUME NEW j \in turn
                 PROVE  instance[j] # None /\ isolate'[instance[j].object].origin \in Hosts
      BY <2>6
    <3>1. j \in Instances /\ instance[j] # None /\ isolate[instance[j].object].origin \in Hosts
      BY <1>0 DEF IsolatesInv, IsolateTypes
    <3>2. instance[j].object \in Objects
      BY <1>0, <3>1 DEF Turns
    <3> QED BY <2>5, <3>1, <3>2
  <2>8. \A other \in Objects :
          /\ isolate'[other].key \in {None, other[2]}
          /\ issued'[other] \subseteq {[issuer |-> isolate'[other].origin, key |-> other[2]]}
          /\ isolate'[other].origin \notin Hosts => issued'[other] = {}
    BY <1>0, <2>5, <2>6 DEF IsolatesInv
  <2> QED BY <1>0, <2>5, <2>6, <2>7, <2>8 DEF IsolatesInv, IsolateTypes
<1>4. ASSUME NEW i \in Instances, Leave(i) PROVE IsolateTypes' /\ IsolatesInv'
  BY <1>0, <1>4 DEF Leave, requestVars, IsolateTypes, IsolatesInv
<1>5. ASSUME NEW o \in Objects, Evict(o) PROVE IsolateTypes' /\ IsolatesInv'
  <2>1. /\ isolate' = [isolate EXCEPT ![o] = Fresh] /\ turn' = {i \in turn : instance[i].object # o}
        /\ issued' = [issued EXCEPT ![o] = {}] /\ instance' = instance
    BY <1>5 DEF Evict, requestVars
  <2>2. /\ isolate' \in [Objects -> Isolates] /\ isolate'[o] = Fresh
        /\ \A other \in Objects \ {o} : isolate'[other] = isolate[other]
    BY <1>0, <2>1 DEF IsolateTypes, Isolates, Fresh
  <2>3. /\ issued' \in [Objects -> SUBSET Signed] /\ issued'[o] = {}
        /\ \A other \in Objects \ {o} : issued'[other] = issued[other]
    BY <1>0, <2>1 DEF IsolateTypes
  <2>4. ASSUME NEW j \in turn' PROVE instance'[j] # None /\ isolate'[instance'[j].object].origin \in Hosts
    <3>1. /\ j \in Instances /\ instance[j] # None /\ isolate[instance[j].object].origin \in Hosts
          /\ instance[j].object # o
      BY <1>0, <2>1 DEF IsolatesInv, IsolateTypes
    <3>2. instance[j].object \in Objects
      BY <1>0, <3>1 DEF Turns
    <3> QED BY <2>1, <2>2, <3>1, <3>2
  <2>5. ASSUME NEW other \in Objects
        PROVE  /\ isolate'[other].key \in {None, other[2]}
               /\ issued'[other] \subseteq {[issuer |-> isolate'[other].origin, key |-> other[2]]}
               /\ isolate'[other].origin \notin Hosts => issued'[other] = {}
    <3>1. CASE other = o
      BY <2>2, <2>3, <3>1 DEF Fresh
    <3>2. CASE other # o
      <4>1. isolate'[other] = isolate[other] /\ issued'[other] = issued[other]
        BY <2>2, <2>3, <3>2
      <4> QED BY <1>0, <4>1 DEF IsolatesInv
    <3> QED BY <3>1, <3>2
  <2> QED BY <1>0, <2>1, <2>2, <2>3, <2>4, <2>5 DEF IsolatesInv, IsolateTypes
<1> QED BY <1>1, <1>2, <1>3, <1>4, <1>5, <1>6, WhoRuns DEF Work

-----------------------------------------------------------------------------
(* Listings. *)

Scans == [at : {"idle", "reading", "done"}, object : Objects \cup {None}, limit : Nat,
          offset : Nat, hidden : SUBSET Rows, must : SUBSET Rows, seen : SUBSET Rows]

\* A listing is finite, and so are the rows before one of them.
LEMMA ListedFinite ==
  ASSUME IInv, scan.at # "idle"
  PROVE  /\ scan.object \in Objects /\ IsFiniteSet(rows[scan.object])
         /\ Listed \subseteq Rows /\ IsFiniteSet(Listed) /\ Cardinality(Listed) \in Nat
         /\ \A r \in Rows : IsFiniteSet(Newer(r)) /\ Cardinality(Newer(r)) \in Nat
<1>1. scan.object \in Objects /\ IsFiniteSet(rows[scan.object]) /\ rows[scan.object] \subseteq Rows
  BY DEF IInv, ScanInv, RowsFinite, TypeOK
<1>2. Listed \subseteq rows[scan.object]
  BY DEF Listed
<1>3. IsFiniteSet(Listed) /\ Cardinality(Listed) \in Nat
  BY <1>1, <1>2, FS_Subset, FS_CardinalityType
<1>4. ASSUME NEW r \in Rows PROVE IsFiniteSet(Newer(r)) /\ Cardinality(Newer(r)) \in Nat
  <2>1. Newer(r) \subseteq Listed
    BY DEF Newer
  <2> QED BY <1>3, <2>1, FS_Subset, FS_CardinalityType
<1> QED BY <1>1, <1>2, <1>3, <1>4

\* In a query's order, a row alone in its millisecond stands behind the newer ones.
LEMMA PlaceOfRow ==
  ASSUME IInv, scan.at = "reading", NEW order \in Orders, NEW r \in Listed, Alone(r)
  PROVE  \E k \in 1..Cardinality(Listed) : order[k] = r /\ Cardinality(Newer(r)) = k - 1
<1> DEFINE n == Cardinality(Listed)
<1>1. /\ n \in Nat /\ Listed \subseteq Rows /\ \A x \in Listed : x.created \in Nat
      /\ Listed \subseteq rows[scan.object]
  BY ListedFinite DEF Rows, Listed
<1>2. /\ order \in [1..n -> Listed]
      /\ \A i, j \in 1..n : order[i] = order[j] => i = j
      /\ \A x \in Listed : \E i \in 1..n : order[i] = x
      /\ \A i, j \in 1..n : i < j => order[i].created >= order[j].created
  BY DEF Orders, Bijection, Injection, Surjection, IsInjective
<1> HIDE DEF n
<1>3. PICK k \in 1..n : order[k] = r
  BY <1>2
<1> DEFINE before == [i \in 1..(k - 1) |-> order[i]]
<1>4. ASSUME NEW i \in 1..(k - 1) PROVE i \in 1..n /\ order[i] \in Newer(r)
  <2>1. i \in 1..n /\ i < k /\ order[i] # r
    BY <1>1, <1>2, <1>3
  <2>2. order[i] \in Listed /\ order[i].created >= r.created /\ order[i].created # r.created
    BY <1>1, <1>2, <1>3, <2>1 DEF Alone
  <2> QED BY <1>1, <2>1, <2>2 DEF Newer
<1>5. ASSUME NEW x \in Newer(r) PROVE \E i \in 1..(k - 1) : order[i] = x
  <2>1. x \in Listed /\ x.created > r.created
    BY DEF Newer
  <2>2. PICK i \in 1..n : order[i] = x
    BY <1>2, <2>1
  <2>3. ~(i > k) /\ i # k
    BY <1>1, <1>2, <1>3, <2>1, <2>2
  <2>4. i \in 1..(k - 1)
    BY <1>1, <2>3
  <2> QED BY <2>2, <2>4
<1>6. before \in Bijection(1..(k - 1), Newer(r))
  <2>1. before \in [1..(k - 1) -> Newer(r)]
    BY <1>4
  <2>2. \A i, j \in 1..(k - 1) : before[i] = before[j] => i = j
    BY <1>2, <1>4
  <2>3. \A x \in Newer(r) : \E i \in 1..(k - 1) : before[i] = x
    BY <1>5
  <2> HIDE DEF before
  <2> QED BY <2>1, <2>2, <2>3 DEF Bijection, Injection, Surjection, IsInjective
<1>7. IsFiniteSet(1..(k - 1)) /\ Cardinality(1..(k - 1)) = k - 1
  BY <1>1, <1>3, FS_Interval
<1>8. Cardinality(Newer(r)) = k - 1
  BY <1>6, <1>7, FS_Bijection DEF ExistsBijection
<1> QED BY <1>3, <1>8 DEF n

\* A page shows what it owes of the rows it passes, and the last passes them all.
LEMMA PageShows ==
  ASSUME EndpointAssumption, IInv, ReadPage
  PROVE  scan' \in Scans /\ ScanInv'
<1> DEFINE last == scan.offset + scan.limit
           n == Cardinality(Listed)
<1>1. /\ scan \in Scans /\ ScanInv /\ scan.at = "reading" /\ rows' = rows
      /\ scan.object \in Objects /\ Listed \subseteq Rows /\ n \in Nat
  BY ListedFinite DEF IInv, TypeOK, Scans, ReadPage
<1>2. scan.offset \in Nat /\ scan.limit \in Nat /\ last \in Nat
  BY <1>1 DEF Scans
<1>3. PICK order \in Orders :
        scan' = [scan EXCEPT
                   !.seen = @ \cup {order[i] : i \in DOMAIN order \cap (scan.offset + 1)..last},
                   !.offset = last,
                   !.at = IF last < n THEN "reading" ELSE "done"]
  BY DEF ReadPage
<1> DEFINE page == {order[i] : i \in DOMAIN order \cap (scan.offset + 1)..last}
<1>4. order \in [1..n -> Listed]
  BY DEF Orders, Bijection, Injection
<1>5. page \subseteq Rows
  BY <1>1, <1>4
<1>6. DOMAIN order = 1..n
  BY <1>4
<1> HIDE DEF page
<1>7. /\ scan' \in Scans /\ scan'.object = scan.object /\ scan'.must = scan.must
      /\ scan'.offset = last /\ scan'.hidden = scan.hidden /\ scan'.seen = scan.seen \cup page
      /\ scan'.at = IF last < n THEN "reading" ELSE "done"
  BY <1>1, <1>2, <1>3, <1>5 DEF Scans, page
<1>8. ASSUME NEW r \in scan.must, r \notin scan'.seen
      PROVE  r \in Listed /\ Alone(r) /\ Cardinality(Newer(r)) >= last /\ last < n
  <2>1. r \in Listed /\ Alone(r) /\ Cardinality(Newer(r)) >= scan.offset
    BY <1>1, <1>7, <1>8 DEF ScanInv, Ahead
  <2>2. PICK k \in 1..n : order[k] = r /\ Cardinality(Newer(r)) = k - 1
    BY <1>1, <2>1, PlaceOfRow
  <2>3. ~(k <= last)
    <3> SUFFICES ASSUME k <= last PROVE FALSE
      OBVIOUS
    <3>1. k \in DOMAIN order \cap (scan.offset + 1)..last
      BY <1>1, <1>2, <1>6, <2>1, <2>2
    <3> QED BY <1>7, <1>8, <2>2, <3>1 DEF page
  <2> QED BY <1>1, <1>2, <2>1, <2>2, <2>3
<1>9. Listed' = Listed
  BY <1>1, <1>7 DEF Listed
<1>10. \A r : Newer(r)' = Newer(r) /\ (Alone(r)' <=> Alone(r))
  BY <1>1, <1>7, <1>9 DEF Newer, Alone
<1>11. ScanInv'
  <2>1. ASSUME NEW r \in scan'.must \ scan'.seen PROVE Ahead(r)' /\ scan'.at # "done"
    <3>1. r \in Listed /\ Alone(r) /\ Cardinality(Newer(r)) >= last /\ last < n
      BY <1>7, <1>8, <2>1
    <3> QED BY <1>2, <1>7, <1>9, <1>10, <3>1 DEF Ahead
  <2> QED BY <1>1, <1>7, <2>1 DEF ScanInv
<1> QED BY <1>7, <1>11

\* A row that is owed stays so as long as enough rows stay before it.
LEMMA StillAhead ==
  ASSUME RowsFinite', scan'.object \in Objects, scan'.offset \in Nat, NEW r, NEW before,
         (r \in Listed)', Alone(r)', before \subseteq Newer(r)', Cardinality(before) >= scan'.offset
  PROVE  Ahead(r)'
<1>1. Newer(r)' \subseteq rows'[scan'.object] /\ IsFiniteSet(rows'[scan'.object])
  BY DEF Newer, Listed, RowsFinite
<1>2. IsFiniteSet(Newer(r)') /\ IsFiniteSet(before) /\ Cardinality(before) <= Cardinality(Newer(r)')
  BY <1>1, FS_Subset
<1>3. Cardinality(before) \in Nat /\ Cardinality(Newer(r)') \in Nat
  BY <1>2, FS_CardinalityType
<1>4. Cardinality(Newer(r)') >= scan'.offset
  BY <1>2, <1>3
<1> QED BY <1>4 DEF Ahead

\* A step that leaves the listing and its object's rows alone.
LEMMA ScanUnmoved ==
  ASSUME IInv, scan' = scan, scan.at = "reading" => rows'[scan.object] = rows[scan.object]
  PROVE  scan' \in Scans /\ ScanInv'
<1>1. scan \in Scans /\ ScanInv
  BY DEF IInv, TypeOK, Scans
<1>2. CASE scan.at # "reading"
  BY <1>1, <1>2 DEF ScanInv
<1>3. CASE scan.at = "reading"
  <2>1. Listed' = Listed
    BY <1>3 DEF Listed
  <2>2. \A r : Ahead(r)' <=> Ahead(r)
    BY <1>3, <2>1 DEF Ahead, Alone, Newer
  <2> QED BY <1>1, <1>3, <2>2 DEF ScanInv
<1> QED BY <1>2, <1>3

\* A new row pushes others back, but for those whose millisecond it takes.
LEMMA JoinedScan ==
  ASSUME IInv, NEW o \in Objects, NEW new \in Rows,
         rows'[o] = rows[o] \cup {new}, \A other \in Objects \ {o} : rows'[other] = rows[other],
         new \notin rows[o], RowsFinite', Joins(o, new)
  PROVE  scan' \in Scans /\ ScanInv'
<1>1. scan \in Scans /\ ScanInv
  BY DEF IInv, TypeOK, Scans
<1>2. CASE scan.at = "reading" /\ scan.object = o
  <2>1. PICK h \in {scan.hidden, scan.hidden \cup {new}} :
          scan' = [scan EXCEPT !.hidden = h, !.must = {r \in @ : r.created # new.created}]
    BY <1>2 DEF Joins
  <2>2. /\ scan' \in Scans /\ scan'.object = o /\ scan'.at = "reading"
        /\ scan'.must = {r \in scan.must : r.created # new.created}
        /\ scan'.offset = scan.offset /\ scan'.seen = scan.seen /\ scan'.hidden = h
    BY <1>1, <1>2, <2>1 DEF Scans
  <2>3. ASSUME NEW r \in scan'.must \ scan'.seen PROVE Ahead(r)'
    <3>1. Ahead(r) /\ r.created # new.created /\ r # new
      BY <1>1, <1>2, <2>2, <2>3 DEF ScanInv
    <3>2. ASSUME NEW x \in Listed, x # new PROVE (x \in Listed)'
      BY <1>2, <2>1, <2>2, <3>2 DEF Listed
    <3>3. (r \in Listed)' /\ Alone(r)'
      BY <1>2, <2>2, <3>1, <3>2 DEF Ahead, Alone
    <3>4. Newer(r) \subseteq Newer(r)'
      <4>1. new \notin Listed
        BY <1>2 DEF Listed
      <4> QED BY <3>2, <4>1 DEF Newer
    <3> QED BY <1>1, <2>2, <3>1, <3>3, <3>4, StillAhead DEF Ahead, Scans
  <2> QED BY <2>2, <2>3 DEF ScanInv
<1>3. CASE ~(scan.at = "reading" /\ scan.object = o)
  <2>1. scan' = scan
    BY <1>3 DEF Joins
  <2>2. scan.at = "reading" => rows'[scan.object] = rows[scan.object]
    BY <1>1, <1>3 DEF ScanInv
  <2> QED BY <2>1, <2>2, ScanUnmoved
<1> QED BY <1>2, <1>3

\* One that leaves moves others forward, which costs the listing what is behind
\* it only if it was before the offset.
LEMMA RelistedScan ==
  ASSUME IInv, NEW row \in Rows, Relist(row)
  PROVE  scan' \in Scans /\ ScanInv'
<1>1. /\ scan \in Scans /\ ScanInv /\ scan.at = "reading" /\ rows' = rows /\ RowsFinite'
      /\ scan.object \in Objects /\ row \in rows[scan.object] /\ scan.offset \in Nat
  BY DEF IInv, TypeOK, Scans, Relist, ScanInv, RowsFinite
<1>2. CASE row \in scan.hidden
  <2>1. /\ scan' \in Scans /\ scan'.object = scan.object /\ scan'.at = "reading"
        /\ scan'.must = scan.must /\ scan'.offset = scan.offset /\ scan'.seen = scan.seen
        /\ scan'.hidden = scan.hidden \ {row}
    BY <1>1, <1>2 DEF Scans, Relist
  <2>2. Listed \subseteq Listed'
    BY <1>1, <2>1 DEF Listed
  <2>3. ASSUME NEW r \in scan'.must \ scan'.seen PROVE Ahead(r)'
    <3>1. Ahead(r)
      BY <1>1, <2>1, <2>3 DEF ScanInv
    <3>2. (r \in Listed)' /\ Alone(r)' /\ Newer(r) \subseteq Newer(r)'
      BY <1>1, <2>1, <2>2, <3>1 DEF Ahead, Alone, Newer
    <3> QED BY <1>1, <2>1, <3>1, <3>2, StillAhead DEF Ahead
  <2> QED BY <1>1, <2>1, <2>3 DEF ScanInv
<1>3. CASE row \notin scan.hidden
  <2> DEFINE owed == IF row \in Reached THEN scan.must \cap scan.seen ELSE scan.must \ {row}
  <2>1. /\ scan' \in Scans /\ scan'.object = scan.object /\ scan'.at = "reading"
        /\ scan'.must = owed /\ scan'.offset = scan.offset /\ scan'.seen = scan.seen
        /\ scan'.hidden = scan.hidden \cup {row}
    BY <1>1, <1>3 DEF Scans, Relist
  <2>2. row \in Listed /\ \A x \in Listed : x # row => x \in Listed'
    BY <1>1, <1>3, <2>1 DEF Listed
  <2>3. ASSUME NEW r \in scan'.must \ scan'.seen PROVE Ahead(r)'
    <3>1. row \notin Reached /\ r # row /\ r \in scan.must \ scan.seen
      BY <2>1, <2>3
    <3>2. Ahead(r)
      BY <1>1, <3>1 DEF ScanInv
    <3>3. (r \in Listed)' /\ Alone(r)'
      BY <1>1, <2>1, <2>2, <3>1, <3>2 DEF Ahead, Alone
    <3>4. Cardinality(Newer(row)) >= scan.offset
      <4>1. Cardinality(Newer(row)) \in Nat
        BY <1>1, ListedFinite
      <4> QED BY <1>1, <2>2, <3>1, <4>1 DEF Reached
    <3>5. CASE row \in Newer(r)
      <4>1. Newer(row) \subseteq Newer(r)'
        <5> SUFFICES ASSUME NEW x \in Newer(row) PROVE x \in Newer(r)'
          OBVIOUS
        <5>1. x \in Listed /\ x.created > row.created /\ row.created > r.created
          BY <3>5 DEF Newer
        <5>2. x \in Listed' /\ x.created > r.created
          <6>1. x.created \in Nat /\ row.created \in Nat /\ r.created \in Nat
            BY <1>1, <3>2, <5>1, ListedFinite DEF Rows, Ahead
          <6> QED BY <2>2, <5>1, <6>1
        <5> QED BY <5>2 DEF Newer
      <4> QED BY <1>1, <2>1, <3>3, <3>4, <4>1, StillAhead
    <3>6. CASE row \notin Newer(r)
      <4>1. Newer(r) \subseteq Newer(r)'
        BY <2>2, <3>6 DEF Newer
      <4> QED BY <1>1, <2>1, <3>2, <3>3, <4>1, StillAhead DEF Ahead
    <3> QED BY <3>5, <3>6
  <2> QED BY <1>1, <2>1, <2>3 DEF ScanInv
<1> QED BY <1>2, <1>3

\* The cleanup takes what is behind all the rows it leaves.
LEMMA CleanedScan ==
  ASSUME EndpointAssumption, IInv, NEW o \in Objects, NEW oldest \in rows[o], Cleanup(o, oldest)
  PROVE  scan' \in Scans /\ ScanInv'
<1> DEFINE gone == {r \in rows[o] : r.created <= oldest.created}
<1>1. /\ scan \in Scans /\ ScanInv /\ rows[o] \subseteq Rows
      /\ \A other \in Objects \ {o} : rows'[other] = rows[other]
      /\ rows'[o] = rows[o] \ gone /\ RowsFinite'
  BY CleanupRows DEF IInv, TypeOK, Scans
<1>2. CASE scan.at = "reading" /\ scan.object = o
  <2>1. scan' = [scan EXCEPT !.must = @ \ gone, !.hidden = @ \ gone]
    BY <1>2 DEF Cleanup
  <2> HIDE DEF gone
  <2>2. /\ scan' \in Scans /\ scan'.object = o /\ scan'.at = "reading"
        /\ scan'.must = scan.must \ gone /\ scan'.hidden = scan.hidden \ gone
        /\ scan'.offset = scan.offset /\ scan'.seen = scan.seen
    BY <1>1, <1>2, <2>1 DEF Scans
  <2>3. \A x \in Listed : x \notin gone => x \in Listed'
    BY <1>1, <1>2, <2>2 DEF Listed
  <2>4. ASSUME NEW r \in scan'.must \ scan'.seen PROVE Ahead(r)'
    <3>1. Ahead(r) /\ r \notin gone
      BY <1>1, <1>2, <2>2, <2>4 DEF ScanInv
    <3>2. (r \in Listed)' /\ Alone(r)'
      BY <1>1, <1>2, <2>2, <2>3, <3>1 DEF Ahead, Alone
    <3>3. Newer(r) \subseteq Newer(r)'
      <4> SUFFICES ASSUME NEW x \in Newer(r) PROVE x \in Newer(r)'
        OBVIOUS
      <4>1. x \in Listed /\ x.created > r.created /\ {x, r, oldest} \subseteq rows[o]
        BY <1>2, <3>1 DEF Newer, Ahead, Listed
      <4>2. x.created \in Nat /\ r.created \in Nat /\ oldest.created \in Nat
        BY <1>1, <4>1 DEF Rows
      <4>3. x \notin gone
        BY <3>1, <4>1, <4>2 DEF gone
      <4> QED BY <2>3, <4>1, <4>3 DEF Newer
    <3> QED BY <1>1, <2>2, <3>1, <3>2, <3>3, StillAhead DEF Ahead, Scans
  <2> QED BY <2>2, <2>4 DEF ScanInv
<1>3. CASE ~(scan.at = "reading" /\ scan.object = o)
  <2>1. scan' = scan
    BY <1>3 DEF Cleanup
  <2>2. scan.at = "reading" => rows'[scan.object] = rows[scan.object]
    BY <1>1, <1>3 DEF ScanInv
  <2> QED BY <2>1, <2>2, ScanUnmoved
<1> QED BY <1>2, <1>3

\* What a listing owes is ahead of it or shown, wherever the rows move meanwhile.
LEMMA ScanStays ==
  ASSUME EndpointAssumption, GatewayAssumption, IInv, [Next]_vars
  PROVE  scan' \in Scans /\ ScanInv'
<1>1. ASSUME NEW q \in Requests, Begin(q) PROVE scan' \in Scans /\ ScanInv'
  <2>1. CASE rows' = rows /\ scan' = scan
    BY <2>1, ScanUnmoved
  <2>2. CASE ~(rows' = rows /\ scan' = scan)
    <3>1. /\ ObjectOf(q) \in Objects /\ RowsFinite' /\ rows' \in [Objects -> SUBSET Rows]
          /\ \A o \in Objects \ {ObjectOf(q)} : rows'[o] = rows[o]
      BY <1>1, <2>2, BeginRows
    <3>2. PICK new \in NewRows(q) : /\ rows'[ObjectOf(q)] = rows[ObjectOf(q)] \cup {new}
                                    /\ Joins(ObjectOf(q), new)
      BY <1>1, <2>2, BeginRows
    <3>3. new \in Rows /\ new \notin rows[ObjectOf(q)]
      <4>1. new.message = request[q].message
        BY DEF NewRows
      <4>2. \A row \in rows[ObjectOf(q)] : row.message # request[q].message
        BY <1>1, <2>2, BeginRows
      <4> QED BY <3>1, <3>2, <4>1, <4>2
    <3> QED BY <3>1, <3>2, <3>3, JoinedScan
  <2> QED BY <2>1, <2>2
<1>2. ASSUME NEW o \in Objects, NEW r \in rows[o], Relist(r) \/ Cleanup(o, r)
      PROVE  scan' \in Scans /\ ScanInv'
  <2>1. r \in Rows
    BY DEF IInv, TypeOK
  <2> QED BY <1>2, <2>1, RelistedScan, CleanedScan
<1>3. ASSUME NEW q \in Requests, NEW size \in PageSizes, Ask(q, size) PROVE scan' \in Scans /\ ScanInv'
  <2>1. request[q].at = "list" /\ rows' = rows /\ IInv /\ rows \in [Objects -> SUBSET Rows]
    BY <1>3 DEF Ask, IInv, TypeOK
  <2> DEFINE o == ObjectOf(q)
  <2>2. o \in Objects
    BY <2>1 DEF IInv, RequestsInv, Shown
  <2>3. PICK hidden \in SUBSET rows[o] :
          scan' = [at |-> "reading", object |-> o, limit |-> ClampPageSize(size),
                   offset |-> 0, hidden |-> hidden, seen |-> {},
                   must |-> {r \in rows[o] \ hidden :
                               \A x \in rows[o] : x.created = r.created => x = r}]
    BY <1>3 DEF Ask
  <2> HIDE DEF o
  <2>4. ClampPageSize(size) \in Nat
    BY DEF ClampPageSize, EndpointAssumption
  <2>5. scan' \in Scans
    BY <2>1, <2>2, <2>3, <2>4 DEF Scans
  <2>6. ASSUME NEW r \in scan'.must PROVE Ahead(r)'
    <3>1. (r \in Listed)' /\ Alone(r)'
      BY <2>1, <2>3, <2>6 DEF Listed, Alone
    <3>2. scan'.offset = 0 /\ scan'.object = o /\ RowsFinite'
      BY <2>1, <2>3 DEF IInv, RowsFinite
    <3> QED BY <2>2, <3>1, <3>2, FS_EmptySet, StillAhead
  <2> QED BY <2>2, <2>3, <2>5, <2>6 DEF ScanInv
<1>4. ASSUME NEW q \in Requests, Serve(q), ~Begin(q) PROVE scan' = scan /\ rows' = rows
  BY <1>4 DEF Serve, Verify, Dispatch, StartTurn, CreateThrows, CreateSwallowed, Die, objectVars
<1>5. ASSUME NEW i \in Instances, Work(i) PROVE scan' = scan /\ rows' = rows
  BY <1>5 DEF Work, Enter, OpenSession, Sign, Leave, requestVars
<1>6. ASSUME NEW o \in Objects, Evict(o) PROVE scan' = scan /\ rows' = rows
  BY <1>6 DEF Evict, requestVars
<1>7. ASSUME Finished \/ UNCHANGED vars PROVE scan' = scan /\ rows' = rows
  BY <1>7 DEF Finished, vars
<1> QED BY <1>1, <1>2, <1>3, <1>4, <1>5, <1>6, <1>7, PageShows, ScanUnmoved DEF Next

-----------------------------------------------------------------------------
(* What holds in every reachable state. *)

LEMMA StepKeeps == EndpointAssumption /\ GatewayAssumption /\ IInv /\ [Next]_vars => IInv'
<1> SUFFICES ASSUME EndpointAssumption, GatewayAssumption, IInv, [Next]_vars PROVE IInv'
  OBVIOUS
<1>0. TypeOK /\ Constructs(form) /\ RequestsInv
  BY DEF IInv
<1>1. Progress
  BY StepsProgress
<1>2. RequestsInv'
  <2> SUFFICES ASSUME NEW q \in Requests PROVE Shown(q)'
    BY DEF RequestsInv
  <2>1. CASE request'[q] = request[q]
    BY <1>0, <1>1, <2>1, Untouched DEF Progress, RequestsInv
  <2>2. CASE Early(q)
    BY <2>2 DEF Early
  <2>3. CASE Onward(q)
    BY <2>3 DEF Onward, Shown
  <2> QED BY <1>1, <2>1, <2>2, <2>3 DEF Progress
<1>3. swallowed' \subseteq Instances
  <2>1. ASSUME NEW q \in Requests, CreateSwallowed(q) PROVE swallowed' \subseteq Instances
    <3>1. Routed(q)
      BY <1>0, <2>1 DEF CreateSwallowed, RequestsInv, Shown
    <3>2. InstanceOf(q) \in Instances
      BY <3>1 DEF Routed, ObjectOf, InstanceOf, Objects, Instances, EndpointAssumption
    <3> QED BY <1>0, <2>1, <3>2 DEF CreateSwallowed, TypeOK
  <2>2. ASSUME ~(\E q \in Requests : CreateSwallowed(q)) PROVE swallowed' = swallowed
    <3>1. ASSUME NEW q \in Requests, Serve(q) \/ (\E size \in PageSizes : Ask(q, size))
          PROVE  swallowed' = swallowed
      BY <2>2, <3>1 DEF Serve, Verify, Dispatch, Begin, StartTurn, CreateThrows, Die, Ask
    <3>2. ASSUME NEW i \in Instances, Work(i) PROVE swallowed' = swallowed
      BY <3>2 DEF Work, Enter, OpenSession, Sign, Leave, requestVars
    <3>3. ASSUME ReadPage \/ (\E o \in Objects : Evict(o))
                 \/ (\E o \in Objects : \E r \in rows[o] : Relist(r) \/ Cleanup(o, r))
          PROVE  swallowed' = swallowed
      BY <3>3 DEF ReadPage, Evict, Relist, Cleanup, turnVars, requestVars
    <3>4. ASSUME Finished \/ UNCHANGED vars PROVE swallowed' = swallowed
      BY <3>4 DEF Finished, vars
    <3> QED BY <3>1, <3>2, <3>3, <3>4 DEF Next
  <2> QED BY <1>0, <2>1, <2>2 DEF TypeOK
<1>4. TypeOK'
  <2>1. form' \in Forms /\ request' \in [Requests -> Kinds]
    BY <1>0, <1>1 DEF Progress, TypeOK
  <2>2. rows' \in [Objects -> SUBSET Rows] /\ aged' \subseteq Messages
    BY RowsAfter
  <2>3. instance' \in [Instances -> Turns \cup {None}]
    BY InstancesStay
  <2>4. IsolateTypes' /\ scan' \in Scans
    BY IsolatesStay, ScanStays
  <2> QED BY <1>3, <2>1, <2>2, <2>3, <2>4
          DEF TypeOK, Kinds, Isolates, Signed, IsolateTypes, Scans
<1>5. Constructs(form)'
  BY <1>0, <1>1 DEF Progress
<1>6. RowsFinite' /\ RowsInv' /\ StartInv' /\ TurnsInv' /\ AcceptedHasItsTurn'
  BY <1>1, RowsAfter, RowsStay, StartStays, TurnsStay, AcceptedStays
<1>7. IsolatesInv' /\ ScanInv'
  BY IsolatesStay, ScanStays
<1> QED BY <1>2, <1>4, <1>5, <1>6, <1>7 DEF IInv

\* The invariant that the properties below follow from.
THEOREM EndpointCorrect == Spec => []IInv
<1>1. Init => IInv
  BY InitGood, EndpointAssumption, GatewayAssumption
<1>2. IInv /\ [Next]_vars => IInv'
  BY StepKeeps, EndpointAssumption, GatewayAssumption
<1> QED BY <1>1, <1>2, PTL DEF Spec

\* Every variable keeps its type.
THEOREM TypeCorrect == Spec => []TypeOK
<1>1. IInv => TypeOK
  BY DEF IInv
<1> QED BY <1>1, EndpointCorrect, PTL

\* A task lies in the object of the caller and the agent that the token and the
\* body named, and no declared agent is shadowed.
THEOREM TasksAreRouted == Spec => []RoutedAsVerified
<1>1. IInv => RoutedAsVerified
  <2> SUFFICES ASSUME IInv PROVE RoutedAsVerified
    OBVIOUS
  <2>1. ASSUME NEW o \in Objects, NEW row \in rows[o], row.task \in Requests
        PROVE  /\ request[row.task].iss \in Allowed
               /\ request[row.task].asked = request[row.task].tenant
               /\ o = <<TenantAgent(form, request[row.task].tenant), request[row.task].key>>
    BY <2>1 DEF IInv, RowsInv, Routed, ObjectOf
  <2>2. \A i \in DOMAIN form.agents : TenantAgent(form, form.agents[i].tenant) = form.agents[i].agent
    BY NoneShadowed, EndpointAssumption DEF IInv, TypeOK
  <2> QED BY <2>1, <2>2 DEF RoutedAsVerified
<1> QED BY <1>1, EndpointCorrect, PTL

\* An accepted message has its one turn, in the object and with the id that the
\* task was recorded with.
THEOREM AcceptedAreServed == Spec => []AcceptedHasItsTurn
<1>1. IInv => AcceptedHasItsTurn
  BY DEF IInv
<1> QED BY <1>1, EndpointCorrect, PTL

\* The tokens signed in one isolate name one issuer and the object's caller.
THEOREM IssuerIsOne == Spec => []OneIssuer
<1>1. IInv => OneIssuer
  <2> SUFFICES ASSUME IInv, NEW o \in Objects
               PROVE  \E host \in Hosts : issued[o] \subseteq {[issuer |-> host, key |-> o[2]]}
    BY DEF OneIssuer
  <2>1. CASE isolate[o].origin \in Hosts
    BY <2>1 DEF IInv, IsolatesInv
  <2>2. CASE isolate[o].origin \notin Hosts
    <3>1. issued[o] = {}
      BY <2>2 DEF IInv, IsolatesInv
    <3>2. Hosts # {}
      BY GatewayAssumption DEF GatewayAssumption
    <3> QED BY <3>1, <3>2
  <2> QED BY <2>1, <2>2
<1> QED BY <1>1, EndpointCorrect, PTL

\* A listing read to its end has shown every task that was listed from its first
\* page on, alone in its millisecond, unless one left the listing before the offset.
THEOREM ScansAreWhole == Spec => []ScanMissesNone
<1>1. IInv => ScanMissesNone
  BY DEF IInv, ScanInv, ScanMissesNone
<1> QED BY <1>1, EndpointCorrect, PTL
=============================================================================
