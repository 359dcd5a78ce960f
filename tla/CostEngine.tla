------------------------------- MODULE CostEngine -------------------------------
(* The cost engine: the consumers of the usage-events topic                    *)
(* (cmd/costengine/main.go) that record each request's cost, add it to the     *)
(* organization's budgets and check them (internal/budget/checker.go), and the *)
(* gateway's handlers that create and deactivate budgets (routes/budgets.ts).  *)
(* The three statements of a message are separate autocommit statements, so    *)
(* other workers, the gateway and the end of the month may come between them.  *)
EXTENDS ConsumerGroup, Sums

CONSTANTS Orgs,               \* the organizations
          Teams, NoTeam,      \* the teams, and no team
          Budgets,            \* the budgets the gateway may create
          FirstBudgets,       \* the ones it has created when the service starts
          MaxMonths,          \* bound: months that pass
          SpendCap            \* the largest spent_usd: DECIMAL(12,8)

(* An event: whether it parses and whether usage_events accepts its row (user, *)
(* organization, partition of its date, token range), and its computed cost.   *)
ASSUME EventsAssumption ==
    Events \subseteq [org : Orgs, team : Teams \cup {NoTeam}, cost : Nat,
                      kind : {"ok", "refused", "garbled"}]

(* A budget: scope "org" or "team" (the other scopes behave as a team's whose  *)
(* id no event has). Its limit and thresholds have no effect, see CheckBudgets.*)
ASSUME BudgetsAssumption ==
    /\ Budgets \subseteq [id : Nat, org : Orgs, scope : {"org", "team"},
                          team : Teams \cup {NoTeam}]
    /\ \A b \in Budgets : b.scope = "team" <=> b.team \in Teams
    /\ NoTeam \notin Teams
    /\ IsFiniteSet(Budgets) /\ FirstBudgets \subseteq Budgets
    /\ MaxMonths \in Nat \ {0} /\ SpendCap \in Nat

VARIABLES
    created,  \* the budgets with a row
    active,   \* those with is_active
    month,    \* the month of NOW()
    usage,    \* usage[m]: the rows of message m in usage_events
    spend,    \* spend[b][p]: budget_spend.spent_usd of b in month p; 0: no row
    missed,   \* history: missed[b]: recorded cost of b's organization not added to b
    failed,   \* history: messages with a failed statement, whose error is logged
    died      \* history: messages whose worker died

Messages == 1..MaxLog
Months == 1..MaxMonths

budgetVars == <<created, active, month>>
dataVars == <<usage, spend, missed>>
vars == <<groupVars, created, active, month, usage, spend, missed, failed, died>>

InProcess == {"insert", "update", "check", "done"}

EventOf(w) == log[pos[w]]

Init == /\ GroupInit
        /\ created = FirstBudgets /\ active = FirstBudgets
        /\ month = 1
        /\ usage = [m \in Messages |-> 0]
        /\ spend = [b \in Budgets |-> [p \in Months |-> 0]]
        /\ missed = [b \in Budgets |-> 0]
        /\ failed = {}
        /\ died = {}

---------------------------------------------------------------------------------
(* The gateway, the calendar, the producer and the consumer group.             *)

CreateBudget(b) ==
    /\ b \notin created
    /\ created' = created \cup {b}
    /\ active' = active \cup {b}
    /\ UNCHANGED <<groupVars, month, dataVars, failed, died>>

DeactivateBudget(b) ==
    /\ b \in active
    /\ active' = active \ {b}
    /\ UNCHANGED <<groupVars, created, month, dataVars, failed, died>>

NextMonth == /\ month < MaxMonths
             /\ month' = month + 1
             /\ UNCHANGED <<groupVars, created, active, dataVars, failed, died>>

Publish(e) == Produce(e) /\ UNCHANGED <<budgetVars, dataVars, failed, died>>

Assign(w) == Join(w) /\ UNCHANGED <<budgetVars, dataVars, failed, died>>

AutoCommit(w) == CommitOffset(w) /\ UNCHANGED <<budgetVars, dataVars, failed, died>>

Leave(w) == LeaveGroup(w) /\ UNCHANGED <<budgetVars, dataVars, failed, died>>

EndClaim(w) == CloseClaim(w) /\ UNCHANGED <<budgetVars, dataVars, failed, died>>

(* The budgets that miss the cost of w's message when only those of S get it.  *)
Missed(w, S) ==
    [b \in Budgets |->
        IF b.org = EventOf(w).org /\ b \notin S THEN missed[b] + EventOf(w).cost
                                                ELSE missed[b]]

(* The process dies; what it had recorded and not added stays out of the       *)
(* budgets, unless the message is delivered again.                             *)
Crash(w) ==
    /\ Die(w)
    /\ missed' = IF pc[w] = "update" THEN Missed(w, {}) ELSE missed
    /\ died' = IF pc[w] \in InProcess THEN died \cup {pos[w]} ELSE died
    /\ UNCHANGED <<budgetVars, usage, spend, failed>>

---------------------------------------------------------------------------------
(* ConsumeClaim and process.                                                   *)

SkipEvent(w) == /\ AtMessage(w)
                /\ EventOf(w).kind = "garbled"
                /\ MarkMessage(w)
                /\ UNCHANGED <<budgetVars, dataVars, failed, died>>

(* Mutation of TakeEvent: the message is marked before it is processed.        *)
TakeEventMarkFirst(w) ==
    /\ AtMessage(w)
    /\ EventOf(w).kind # "garbled"
    /\ marked' = [marked EXCEPT ![w] = pos[w] + 1]
    /\ pc' = [pc EXCEPT ![w] = "insert"]
    /\ UNCHANGED <<log, sessionVars, pos, budgetVars, dataVars, failed, died>>

TakeEvent(w) == /\ AtMessage(w)
                /\ EventOf(w).kind # "garbled"
                /\ GoTo(w, "insert")
                /\ UNCHANGED <<budgetVars, dataVars, failed, died>>

(* process has returned, after the check or early.                             *)
DoneEvent(w) == /\ pc[w] = "done"
                /\ MarkMessage(w)
                /\ UNCHANGED <<budgetVars, dataVars, failed, died>>

Fail(w) == failed' = failed \cup {pos[w]} /\ UNCHANGED died

(* INSERT INTO usage_events. ON CONFLICT DO NOTHING never applies: the id of a *)
(* row is generated, so a message delivered twice has two rows.                *)
InsertUsage(w) ==
    /\ pc[w] = "insert"
    /\ EventOf(w).kind = "ok"
    /\ usage' = [usage EXCEPT ![pos[w]] = @ + 1]
    /\ GoTo(w, "update")
    /\ UNCHANGED <<budgetVars, spend, missed, failed, died>>

(* Mutation of InsertFails: no return after the error.                         *)
InsertFailsGoesOn(w) ==
    /\ pc[w] = "insert"
    /\ Fail(w)
    /\ GoTo(w, "update")
    /\ UNCHANGED <<budgetVars, dataVars>>

(* The statement fails: process returns.                                       *)
InsertFails(w) ==
    /\ pc[w] = "insert"
    /\ Fail(w)
    /\ GoTo(w, "done")
    /\ UNCHANGED <<budgetVars, dataVars>>

InsertRefused(w) ==
    pc[w] = "insert" /\ EventOf(w).kind = "refused" /\ InsertFails(w)

(* The row is there but its acknowledgement is lost.                           *)
InsertUnacknowledged(w) ==
    /\ pc[w] = "insert"
    /\ EventOf(w).kind = "ok"
    /\ usage' = [usage EXCEPT ![pos[w]] = @ + 1]
    /\ missed' = Missed(w, {})
    /\ Fail(w)
    /\ GoTo(w, "done")
    /\ UNCHANGED <<budgetVars, spend>>

(* Mutation of Charged: an UPDATE, which needs the month's row to be there.    *)
ChargedWithRow(w) ==
    {b \in active : b.org = EventOf(w).org /\ b.scope = "org" /\ spend[b][month] > 0}

(* The budgets the upsert charges.                                             *)
Charged(w) == {b \in active : b.org = EventOf(w).org /\ b.scope = "org"}

(* Some charged row would leave DECIMAL(12,8): then none is charged.           *)
Overflows(w) == \E b \in Charged(w) : spend[b][month] + EventOf(w).cost > SpendCap

ChargeBudgets(w) ==
    /\ spend' = [b \in Budgets |-> IF b \in Charged(w)
                                   THEN [spend[b] EXCEPT ![month] = @ + EventOf(w).cost]
                                   ELSE spend[b]]
    /\ missed' = Missed(w, Charged(w))

(* The upsert of budget_spend.                                                 *)
UpdateSpend(w) ==
    /\ pc[w] = "update"
    /\ ~ Overflows(w)
    /\ ChargeBudgets(w)
    /\ GoTo(w, "check")
    /\ UNCHANGED <<budgetVars, usage, failed, died>>

(* The upsert fails; the error is logged and process goes on.                  *)
UpdateFails(w) ==
    /\ pc[w] = "update"
    /\ missed' = Missed(w, {})
    /\ Fail(w)
    /\ GoTo(w, "check")
    /\ UNCHANGED <<budgetVars, usage, spend>>

(* The upsert is done but its acknowledgement is lost: logged all the same.    *)
UpdateUnacknowledged(w) ==
    /\ pc[w] = "update"
    /\ ~ Overflows(w)
    /\ ChargeBudgets(w)
    /\ Fail(w)
    /\ GoTo(w, "check")
    /\ UNCHANGED <<budgetVars, usage>>

SpendOverflows(w) == pc[w] = "update" /\ Overflows(w) /\ UpdateFails(w)

(* Check reads the active monthly budgets and drops each of them, for no row   *)
(* scans: alert_thresholds is an INTEGER[], which the driver of go.mod returns *)
(* as bytes and database/sql does not scan into a *[]int64 (checker.go:64-75). *)
(* What it returns is therefore empty, publishBudgetAlert is never called and  *)
(* hard_limit is never seen.                                                   *)
CheckBudgets(w) ==
    /\ pc[w] = "check"
    /\ GoTo(w, "done")
    /\ UNCHANGED <<budgetVars, dataVars, failed, died>>

CheckFails(w) ==
    /\ pc[w] = "check"
    /\ Fail(w)
    /\ GoTo(w, "done")
    /\ UNCHANGED <<budgetVars, dataVars>>

---------------------------------------------------------------------------------
Handle(w) == \/ SkipEvent(w) \/ TakeEvent(w) \/ DoneEvent(w)
             \/ InsertUsage(w) \/ UpdateSpend(w) \/ CheckBudgets(w)
             \/ InsertRefused(w) \/ SpendOverflows(w)

Fault(w) == \/ Crash(w) \/ InsertFails(w) \/ InsertUnacknowledged(w)
            \/ UpdateFails(w) \/ UpdateUnacknowledged(w) \/ CheckFails(w)

Environment == \/ \E b \in Budgets : CreateBudget(b) \/ DeactivateBudget(b)
               \/ NextMonth
               \/ \E e \in Events : Publish(e)

Next == \/ Environment
        \/ \E w \in Workers : \/ Assign(w) \/ AutoCommit(w) \/ Leave(w)
                              \/ EndClaim(w) \/ Handle(w) \/ Fault(w)

Spec == Init /\ [][Next]_vars

---------------------------------------------------------------------------------
(* Correctness.                                                                *)

(* Every variable has its type.                                                *)
BudgetsOK == active \subseteq created /\ created \subseteq Budgets /\ month \in Months
DataOK    == /\ usage \in [Messages -> Nat]
             /\ spend \in [Budgets -> [Months -> Nat]]
             /\ missed \in [Budgets -> Nat]
HistoryOK == failed \cup died \subseteq 1..Len(log)

TypeOK == GroupOK(InProcess) /\ BudgetsOK /\ DataOK /\ HistoryOK

(* The cost recorded for an organization, what a budget has of it in all       *)
(* months, and what workers have recorded and are about to add.                *)
Billed(o) == Total([m \in {k \in 1..Len(log) : log[k].org = o} |-> usage[m] * log[m].cost])
Spent(b) == Total(spend[b])
InFlight(o) == Total([w \in {v \in Workers : pc[v] = "update" /\ EventOf(v).org = o} |->
                         EventOf(w).cost])

(* Every cost in usage_events is in a budget, about to be, or missed for a     *)
(* reason the code knows (inactive or later created budget, failed statement,  *)
(* dead worker), and a budget has no cost that usage_events has not: whatever  *)
(* workers interleave, redeliver or repeat (main.go:165-200).                  *)
EveryCostAccounted ==
    \A b \in Budgets : Billed(b.org) = Spent(b) + missed[b] + InFlight(b.org)

(* What the group has committed past is recorded in usage_events, unless a     *)
(* statement failed or its worker died, or it does not parse or was passed     *)
(* over at the group's start (main.go:138-183).                                *)
NoUnbilledCommit ==
    \A m \in 1..Len(log) :
        m < committed /\ log[m].kind = "ok" => usage[m] > 0 \/ m \in failed \/ m \in passed

(* A budget of an organization that was there before the first request and is  *)
(* still active has every recorded cost of the organization, or will get it    *)
(* from a worker about to charge it, however workers, new and deactivated      *)
(* budgets and the end of the month interleave: only a failed statement or a   *)
(* dead worker makes it miss one (main.go:165-200).                            *)
SpendCurrent ==
    \A b \in FirstBudgets \cap active :
        b.scope = "org" =>
            \/ Spent(b) + InFlight(b.org) = Billed(b.org)
            \/ \E m \in failed \cup died : log[m].org = b.org

(* openapi.yaml:65: "List of budgets with current spend". When no worker is at *)
(* a message and nothing failed, a team's budget has then what the team's      *)
(* recorded requests cost.                                                     *)
TeamSpendCurrent ==
    \A b \in FirstBudgets \cap active :
        /\ b.scope = "team"
        /\ failed \cup died = {}
        /\ \A w \in Workers : pc[w] \in {"idle", "out"}
        => Spent(b) = Total([m \in {k \in 1..Len(log) : log[k].team = b.team} |->
                                usage[m] * log[m].cost])
=================================================================================
