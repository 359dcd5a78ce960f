------------------------------ MODULE MCCostEngine ------------------------------
(* Small instances of CostEngine.                                              *)
EXTENDS CostEngine, TLC

CONSTANTS acme, core, w1, w2

Event(team, cost, kind) == [org |-> acme, team |-> team, cost |-> cost, kind |-> kind]

(* A team's request, a free one without a team (an unknown model), a request   *)
(* usage_events refuses and a message that does not parse.                     *)
MCEvents == {Event(core, 2, "ok"), Event(NoTeam, 0, "ok"),
             Event(NoTeam, 1, "refused"), Event(NoTeam, 0, "garbled")}

Budget(id, scope, team) == [id |-> id, org |-> acme, scope |-> scope, team |-> team]

OrgBudget == Budget(1, "org", NoTeam)
TeamBudget == Budget(2, "team", core)

OrgFirst == {OrgBudget}
OrgAndTeam == {OrgBudget, TeamBudget}
OrgTwiceAndTeam == {OrgBudget, TeamBudget, Budget(3, "org", NoTeam)}

WorkerSymmetry == Permutations({w1, w2})
=================================================================================
