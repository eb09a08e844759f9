------------------------------ MODULE LlmSpend ------------------------------
(***************************************************************************)
(* What the calls to a language model may cost: engine/llm/budget.py,      *)
(* rate_limit.py and providers/_http_base.py, and the two older clients    *)
(* with a budget of their own, engine/planner/llm_providers/_base.py and   *)
(* engine/analyzer/llm_explainer.py.                                       *)
(*                                                                         *)
(* A process makes one call after the other.  A call is estimated, checked *)
(* against the caps, sent, and - if its answer can be used - recorded with *)
(* its actual cost.  Costs are in one smallest unit.                       *)
(***************************************************************************)
EXTENDS Integers

CONSTANTS
  RunCap,        \* max_usd_per_run
  CallerCap,     \* max_usd_<caller>, RunCap where it is None
  Cost,          \* what a call may be estimated at and may cost
  RoughCost,     \* the cost recorded when the answer carries no usage
  Capacity,      \* TokenBucket.capacity
  Rate,          \* tokens per tick
  MaxCalls,      \* bound on the calls of a run
  MaxTicks       \* bound on the clock

Caller == {"planner", "analyzer", "healer"}

ASSUME CapsAreCosts ==
  /\ RunCap \in Nat
  /\ CallerCap \in [Caller -> Nat]
  /\ Cost \subseteq Nat
  /\ RoughCost \in Nat
ASSUME BucketIsNatural == Capacity \in Nat /\ Rate \in Nat

VARIABLES
  client,        \* which of the three clients this run uses
  byCaller,      \* LlmBudget._by_caller, or the client's own _usage
  tokens,        \* TokenBucket._tokens
  calls,         \* how many calls were asked for
  ticks,         \* monotonic clock
  posts,         \* history: requests sent
  worst          \* history: by how much a recorded call exceeded its estimate

llVars == <<client, byCaller, tokens, calls, ticks, posts, worst>>

LlTypeOK ==
  /\ client \in {"provider", "planner", "explainer"}
  /\ byCaller \in [Caller -> Nat]
  /\ tokens \in 0..Capacity
  /\ calls \in Nat /\ ticks \in Nat /\ posts \in Nat
  /\ worst \in Nat

LlInit ==
  /\ client \in {"provider", "planner", "explainer"}
  /\ byCaller = [c \in Caller |-> 0]
  /\ tokens = Capacity
  /\ calls = 0 /\ ticks = 0 /\ posts = 0 /\ worst = 0

\* How a call may go on after the checks.
\*   noKey      the variable with the key is not set
\*   timeout    no answer in time
\*   status     an error status
\*   garbled    the body is not the JSON the adapter reads
\*   malformed  the text in it does not fit the schema asked for
\*   unmetered  usable, without a usage block
\*   good       usable, with its usage
Outcome == {"noKey", "timeout", "status", "garbled", "malformed", "unmetered", "good"}

\* LlmBudget.total
Total == byCaller["planner"] + byCaller["analyzer"] + byCaller["healer"]

WithinBudget_NoEstimate_Mutant(c, estimate) ==
  byCaller[c] <= CallerCap[c] /\ Total <= RunCap

\* LlmBudget.pre_check
WithinBudget(c, estimate) ==
  /\ byCaller[c] + estimate <= CallerCap[c]
  /\ Total + estimate <= RunCap

\* The hard stop and ensure_within_budget of the older clients.
WithinOwnCap(c, estimate) ==
  /\ byCaller[c] < RunCap
  /\ byCaller[c] + estimate <= RunCap

\* What a client records of an answer: the provider drops a malformed one
\* before budget.add and takes a missing usage for zero tokens; the older
\* clients record both.
RecordedCost(outcome, cost) ==
  CASE outcome = "good" -> cost
    [] outcome = "malformed" /\ client # "provider" -> cost
    [] outcome = "unmetered" /\ client # "provider" -> RoughCost
    [] OTHER -> 0

\* The part of a call from the request to the record.
Send(c, estimate, outcome, cost) ==
  /\ byCaller' = [byCaller EXCEPT ![c] = @ + RecordedCost(outcome, cost)]
  /\ posts' = posts + 1
  /\ worst' = LET excess == RecordedCost(outcome, cost) - estimate
              IN  IF excess > worst THEN excess ELSE worst

NotSent == UNCHANGED <<byCaller, posts, worst>>

Asked == calls < MaxCalls /\ calls' = calls + 1 /\ UNCHANGED <<client, ticks>>

\* HttpLlmProviderBase.complete: one token, the key, the budget, the request.
\* A token is gone even if the call is then refused.
Complete(c, estimate, outcome, cost) ==
  /\ client = "provider"
  /\ Asked
  /\ tokens' = IF tokens > 0 THEN tokens - 1 ELSE tokens
  /\ IF tokens > 0 /\ outcome # "noKey" /\ WithinBudget(c, estimate)
     THEN Send(c, estimate, outcome, cost)
     ELSE NotSent

\* propose_flows of the planner's client and refine of the analyzer's: the
\* stop at an exhausted budget comes before the key, the estimate after it.
ProposeOrRefine(estimate, outcome, cost) ==
  LET c == IF client = "planner" THEN "planner" ELSE "analyzer"
  IN  /\ client # "provider"
      /\ Asked
      /\ IF outcome # "noKey" /\ WithinOwnCap(c, estimate)
         THEN Send(c, estimate, outcome, cost)
         ELSE NotSent
      /\ UNCHANGED tokens

\* TokenBucket._refill, at the next look at the clock.
Refill ==
  /\ client = "provider" /\ ticks < MaxTicks
  /\ ticks' = ticks + 1
  /\ tokens' = IF tokens + Rate > Capacity THEN Capacity ELSE tokens + Rate
  /\ UNCHANGED <<client, byCaller, calls, posts, worst>>

LlNext ==
  \/ Refill
  \/ \E estimate, cost \in Cost, outcome \in Outcome :
       \/ ProposeOrRefine(estimate, outcome, cost)
       \/ \E c \in Caller : Complete(c, estimate, outcome, cost)

LlSpec == LlInit /\ [][LlNext]_llVars

-----------------------------------------------------------------------------
\* What is recorded stays within the cap of the run, and of each caller, up to
\* the largest error of one estimate: the callers' errors do not add up,
\* although each is checked before its own cost is known (pre_check, add,
\* ensure_within_budget, _record_usage).
RecordedWithinCap ==
  /\ client = "provider" => /\ Total <= RunCap + worst
                            /\ \A c \in Caller : byCaller[c] <= CallerCap[c] + worst
  /\ client # "provider" => \A c \in Caller : byCaller[c] <= RunCap + worst

\* Over any time since the start the provider is asked at most a full bucket
\* and what has been refilled, whatever calls are refused (try_consume).
RateHolds == client = "provider" => posts + tokens <= Capacity + Rate * ticks

\* What the calls of a run may cost is bounded, in money and in number.
SpendIsBounded == RecordedWithinCap /\ RateHolds
=============================================================================
