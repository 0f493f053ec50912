------------------------------ MODULE AiErrors ------------------------------
(***************************************************************************)
(* How the loops read what a model's call threw (agent/inference.ts,       *)
(* agent/errors.ts): try again later, try the other model, or stop, for    *)
(* nothing further can clear it.                                           *)
(***************************************************************************)
EXTENDS Naturals

\* HTTP statuses, one of each sort; 0 for none.
Statuses == {0, 400, 408, 409, 429, 500}

\* What can be seen of an error: who refused the credential if one was refused
\* (`source` crosses realms as it is, or not at all), the class it was raised in,
\* whether that says to retry, the status, and whether its words sound transient.
Errors == [source : {"none", "provider", "gateway", "unsaid"},
           class : {"APICallError", "RetryError", "Error", "other"},
           isRetryable : BOOLEAN, status : Statuses, hint : BOOLEAN]

IsRetryableStatus(status) == status \in {408, 409, 429} \/ status >= 500

\* The credential kinds, which name who has to be seen about it.
NonRecoverableKind(error) ==
  CASE error.source = "provider" -> "credential"
    [] error.source = "gateway"  -> "gateway-credential"
    [] error.source = "unsaid"   -> "unknown-credential"
    [] OTHER -> "none"

Credentials == {NonRecoverableKind(e) : e \in Errors} \ {"none"}

\* A refused credential is never transient, whatever else it looks like.
IsTransientAiError(error) ==
  /\ NonRecoverableKind(error) = "none"
  /\ \/ error.class = "APICallError" /\ (error.isRetryable \/ IsRetryableStatus(error.status))
     \/ error.class = "RetryError"
     \/ error.class # "other" /\ error.hint

\* What an error is to the two attempt ladders.
KindOf(error) ==
  CASE NonRecoverableKind(error) # "none" -> NonRecoverableKind(error)
    [] IsTransientAiError(error) -> "transient"
    [] OTHER -> "plain"

ErrorKinds == {KindOf(e) : e \in Errors}
=============================================================================
