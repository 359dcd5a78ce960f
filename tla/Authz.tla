------------------------------- MODULE Authz -------------------------------
(***************************************************************************)
(* The Rego policy aigcm.proxy.authz the proxy embeds                      *)
(* (services/proxy/internal/policy/rego/authz.rego), as operators of a     *)
(* policy document and a request.                                          *)
(*                                                                         *)
(* A reference to a missing path of the document is undefined in Rego, and *)
(* a rule whose body is undefined does not hold: each partial object of    *)
(* the document is a function on the keys it has, and a rule asks for the  *)
(* key before it uses it.                                                  *)
(*                                                                         *)
(*   data.lists[t]       data.policies[t].allowed_models, a set of models  *)
(*   data.budgets[o][t]  [remaining, hard]                                 *)
(*   data.dlp[o]         data.org_policies[o].dlp_action                   *)
(*   data.limits[u]      data.user_policies[u].rate_limit_rpm              *)
(*   data.hours[u]       an enabled data.user_policies[u].time_restriction *)
(*   data.rpm[u]         data.rate_counters[u].rpm                         *)
(*                                                                         *)
(*   input               [org, team, user, model, cost, violation, hour]   *)
(***************************************************************************)
EXTENDS Integers

None == [x \in {} |-> x]

\* The document NewEvaluator gives the policies: rego.New gets two modules
\* and no store.
EmptyData == [lists |-> None, budgets |-> None, dlp |-> None,
              limits |-> None, hours |-> None, rpm |-> None]

Has(f, key) == key \in DOMAIN f

HasBudget(data, input) == /\ Has(data.budgets, input.org)
                          /\ Has(data.budgets[input.org], input.team)

-----------------------------------------------------------------------------

ModelAllowed(data, input) ==
    Has(data.lists, input.team) => input.model \in data.lists[input.team]

\* A hard budget of a team of that name in any organization counts.
HardBudget(data, team) ==
    \E o \in DOMAIN data.budgets : /\ Has(data.budgets[o], team)
                                   /\ data.budgets[o][team].hard

WithinBudget(data, input) ==
    \/ /\ HasBudget(data, input)
       /\ data.budgets[input.org][input.team].remaining > input.cost
    \/ ~HardBudget(data, input.team)

DlpBlocked(data, input) == /\ input.violation
                           /\ Has(data.dlp, input.org)
                           /\ data.dlp[input.org] = "block"

RateLimit(data, user) ==
    IF Has(data.limits, user) THEN data.limits[user] ELSE 1000

WithinRateLimit(data, input) ==
    Has(data.rpm, input.user) =>
        data.rpm[input.user] < RateLimit(data, input.user)

TimeRestricted(data, input) ==
    /\ Has(data.hours, input.user)
    /\ ~ /\ data.hours[input.user].start <= input.hour
         /\ input.hour <= data.hours[input.user].end

Allow(data, input) == /\ ModelAllowed(data, input)
                      /\ WithinBudget(data, input)
                      /\ ~DlpBlocked(data, input)
                      /\ WithinRateLimit(data, input)
                      /\ ~TimeRestricted(data, input)

\* deny_reasons[msg] with `if` is a partial object, whose values are true: the
\* reasons are its keys.  The rule for the budget formats the remaining amount:
\* where that is undefined, so is the reason.  There is no rule for the hours.
True == [type |-> "boolean"]

DenyReasons(data, input) ==
    [reason \in {r \in {"model", "budget", "dlp", "rate"} :
                    CASE r = "model"  -> ~ModelAllowed(data, input)
                      [] r = "budget" -> /\ ~WithinBudget(data, input)
                                         /\ HasBudget(data, input)
                      [] r = "dlp"    -> DlpBlocked(data, input)
                      [] r = "rate"   -> ~WithinRateLimit(data, input)}
       |-> True]

\* What the handler puts in its reply: of an object, the values that are strings.
ExtractReasons(object) ==
    {object[k] : k \in {k \in DOMAIN object : object[k].type = "string"}}

\* The rules' reasons agree with what they decide: an allowed request has no
\* reason for a denial, and a denied one has a reason unless its user is
\* outside the permitted hours or its team has a hard budget in another
\* organization only (the two cases authz.rego:94-113 has no reason for).  But
\* none of them is told: evaluator.go:98 says "deny_reasons returned to client
\* on block", and extractReasons (135-154) finds no string in the object.
ReasonsStayInTheRules(data, input) ==
    LET reasons == DenyReasons(data, input)
    IN  /\ Allow(data, input) => DOMAIN reasons = {}
        /\ /\ ~Allow(data, input)
           /\ ~TimeRestricted(data, input)
           /\ HasBudget(data, input) \/ ~HardBudget(data, input.team)
           => DOMAIN reasons # {}
        /\ ExtractReasons(reasons) = {}
=============================================================================
