------------------------------ MODULE HttpRetry ------------------------------
(***************************************************************************)
(* One call of HttpClient._request (integrations/_http.py, and the two     *)
(* copies of it in the comment posters): what an attempt can meet, whether *)
(* the service has applied the request by then, and what the loop does     *)
(* next.  Sleeping between attempts, bodies and wording are left out.      *)
(***************************************************************************)
EXTENDS Naturals

CONSTANT MaxAttempts    \* RetrySpec.max_attempts, 3 in the code

ASSUME MaxAttemptsIsPositive == MaxAttempts \in Nat \ {0}

\* ok       a 2xx answer was read
\* refused  URLError: nothing reached the service
\* busy     429 or 503: turned away at the front, not applied
\* fault    500, not applied
\* lost     502 or 504: a gateway gave up waiting, the service has applied it
\* denied   any other error status
\* hung     time-out or disconnect after the request was sent, not applied
\* cut      the same, but the service has applied it
Reply == {"ok", "refused", "busy", "fault", "lost", "denied", "hung", "cut"}

Applied(r) == r \in {"ok", "lost", "cut"}

\* RETRYABLE_STATUSES, and URLError.  The poster of GitLab adds 500.
Transient(platform) ==
  {"refused", "busy", "lost"} \cup (IF platform = "gitlab" THEN {"fault"} ELSE {})

Verdict_OneMore_Mutant(platform, r, attempt) ==
  IF r = "ok" THEN "answered"
  ELSE IF r \in {"hung", "cut"} THEN "crashed"
  ELSE IF r \in Transient(platform) /\ attempt <= MaxAttempts THEN "again"
  ELSE "failed"

\* An exception of the socket while the answer is awaited or read is neither
\* HTTPError nor URLError: it leaves _request, and every caller, as it is.
Verdict(platform, r, attempt) ==
  IF r = "ok" THEN "answered"
  ELSE IF r \in {"hung", "cut"} THEN "crashed"
  ELSE IF r \in Transient(platform) /\ attempt < MaxAttempts THEN "again"
  ELSE "failed"
=============================================================================
