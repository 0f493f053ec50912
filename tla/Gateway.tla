------------------------------ MODULE Gateway ------------------------------
(***************************************************************************)
(* What the Worker decides about a request before any object is asked      *)
(* (worker/index.ts, a2a/verify.ts): which declarations make a Worker,     *)
(* which agent a tenant names, which tokens and bodies pass.               *)
(*                                                                         *)
(* A token is what is in it and whose keys signed it; a body is the tenant *)
(* it names, its method, and whether it negotiates the protocol version    *)
(* and carries the callback's url and token.                               *)
(***************************************************************************)
EXTENDS Naturals, Sequences

CONSTANTS Issuers,      \* origins that sign gatekeeper tokens
          Allowed,      \* those of them the deployment lists
          Hosts,        \* origins the deployment answers on
          Tenants,      \* the names a tenant may have
          Agents,       \* agent declarations: an object class and a Workflow each
          Keys,         \* identity keys of callers
          RequirePush,  \* the option requirePushConfig
          None          \* an absent claim, field, key or agent; no tenant's name

ASSUME GatewayAssumption ==
  /\ None \notin Issuers \cup Tenants \cup Agents \cup Keys \cup Hosts
  /\ Allowed \subseteq Issuers
  /\ Hosts # {}
  /\ RequirePush \in BOOLEAN

Tokens == [jku : Issuers \cup {None}, iss : Issuers, signer : Issuers, audience : Hosts,
           tenant : Tenants \cup {None}, key : Keys \cup {None}]

Bodies == [tenant : Tenants \cup {None}, method : {"send", "list", "other"},
           versioned : BOOLEAN, push : BOOLEAN]

\* Both forms of declaring agents: the record `tenants` and the list `agents`.
Declarations == [tenants : UNION {[names -> Agents] : names \in SUBSET (Tenants \cup {None})},
          agents : Seq([tenant : Tenants \cup {None}, agent : Agents])]

Named(form) == DOMAIN form.tenants \cup {form.agents[i].tenant : i \in DOMAIN form.agents}

\* createA2AWorker returns a handler; otherwise it throws at start-up.
Constructs(form) ==
  /\ \A i \in DOMAIN form.agents : form.agents[i].tenant \notin DOMAIN form.tenants
  /\ \A i, j \in DOMAIN form.agents : form.agents[i].tenant = form.agents[j].tenant => i = j
  /\ Named(form) # {}
  /\ None \notin Named(form)

\* The Map of `agents` keeps the last entry of a name.
LastNamed(form, name) ==
  CHOOSE i \in DOMAIN form.agents :
    /\ form.agents[i].tenant = name
    /\ \A j \in DOMAIN form.agents : form.agents[j].tenant = name => j <= i

TenantAgent(form, name) ==
  IF name \in DOMAIN form.tenants
  THEN form.tenants[name]
  ELSE IF name \in Named(form)
       THEN form.agents[LastNamed(form, name)].agent
       ELSE None

\* verifyGatekeeperToken, at the audience of the host that was called.
Verifies(token, host) ==
  /\ token.jku \in Allowed
  /\ token.iss = token.jku
  /\ token.signer = token.jku
  /\ token.audience = host

TenantUnchecked(claims, body) == TRUE \* Regression

\* All tenants share one audience: the token's tenant must be the body's.
TenantAgrees(claims, body) == body.tenant = claims.tenant

\* What the handler checks once the token holds, and how it answers otherwise.
Checks(form, claims, body) ==
  << [holds |-> body.tenant # None, answer |-> "malformed"],
     [holds |-> TenantAgrees(claims, body), answer |-> "unauthorized"],
     [holds |-> TenantAgent(form, body.tenant) # None, answer |-> "malformed"],
     [holds |-> body.versioned, answer |-> "version"],
     [holds |-> RequirePush /\ body.method = "send" => body.push, answer |-> "malformed"] >>

\* The first check that fails answers.
Reply(checks) ==
  IF \A i \in DOMAIN checks : checks[i].holds
  THEN "handled"
  ELSE checks[CHOOSE i \in DOMAIN checks :
                /\ ~checks[i].holds
                /\ \A j \in 1..(i - 1) : checks[j].holds].answer
=============================================================================
