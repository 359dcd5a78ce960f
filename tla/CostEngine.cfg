SPECIFICATION Spec
CONSTANTS
  acme = acme
  core = core
  w1 = w1
  w2 = w2
  Workers = {w1, w2}
  Nobody = Nobody
  Orgs = {acme}
  Teams = {core}
  NoTeam = NoTeam
  Events <- MCEvents
  Budgets <- OrgTwiceAndTeam
  FirstBudgets <- OrgFirst
  MaxLog = 2
  MaxRebalances = 2
  MaxMonths = 2
  SpendCap = 5
SYMMETRY WorkerSymmetry
CHECK_DEADLOCK FALSE
INVARIANTS
  EveryCostAccounted
  NoUnbilledCommit
  SpendCurrent
