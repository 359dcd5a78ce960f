--------------------------- MODULE CostEngine_proofs ----------------------------
(* Proofs about CostEngine for every set of organizations, budgets, workers    *)
(* and events and every bound.                                                 *)
EXTENDS CostEngine, ConsumerGroup_proofs, FiniteSetTheorems

---------------------------------------------------------------------------------
(* The inductive invariant. TypeOK alone is not inductive: that a failed       *)
(* message is one of the topic needs that a handler's position is in it.       *)
IInv == TypeOK /\ InTopic /\ Len(log) <= MaxLog

LEMMA InitIInv == Init => IInv
<1> SUFFICES ASSUME Init PROVE IInv
  OBVIOUS
<1>1. GroupOK(InProcess) /\ InTopic /\ Len(log) <= MaxLog
  BY GroupInitOK, InitInTopic, BoundsAssumption DEF Init, GroupInit
<1>2. BudgetsOK /\ DataOK /\ HistoryOK
  BY BudgetsAssumption
  DEF Init, BudgetsOK, DataOK, HistoryOK, Months
<1>3. QED
  BY <1>1, <1>2 DEF IInv, TypeOK

(* The events of the topic have a cost, an organization and a kind.            *)
LEMMA EventType ==
    ASSUME IInv, NEW w \in Workers, pos[w] <= Len(log)
    PROVE  /\ pos[w] \in 1..Len(log) /\ pos[w] \in Messages
           /\ EventOf(w) \in Events /\ EventOf(w).cost \in Nat
<1>1. Len(log) \in Nat
  BY LenProperties DEF IInv, TypeOK, GroupOK
<1>2. pos[w] \in 1..Len(log) /\ pos[w] \in Messages
  BY <1>1, BoundsAssumption DEF IInv, TypeOK, GroupOK, Messages
<1>3. EventOf(w) \in Events
  BY <1>2 DEF IInv, TypeOK, GroupOK, EventOf
<1>4. QED
  BY <1>2, <1>3, EventsAssumption

LEMMA MissedType ==
    ASSUME IInv, NEW w \in Workers, pos[w] <= Len(log), NEW S
    PROVE  Missed(w, S) \in [Budgets -> Nat]
BY EventType DEF Missed, IInv, TypeOK, DataOK

(* The steps of the environment.                                               *)
LEMMA EnvironmentIInv == IInv /\ Environment => IInv'
<1> SUFFICES ASSUME IInv, Environment PROVE IInv'
  OBVIOUS
<1> USE DEF IInv
<1>1. ASSUME NEW b \in Budgets, CreateBudget(b) \/ DeactivateBudget(b) PROVE IInv'
  <2>1. BudgetsOK'
    BY <1>1 DEF CreateBudget, DeactivateBudget, TypeOK, BudgetsOK
  <2>2. UNCHANGED <<groupVars, dataVars, failed, died>>
    BY <1>1 DEF CreateBudget, DeactivateBudget
  <2>3. QED
    BY <2>1, <2>2
    DEF TypeOK, GroupOK, InTopic, DataOK, HistoryOK, groupVars, dataVars
<1>2. CASE NextMonth
  <2>1. BudgetsOK'
    BY <1>2, BudgetsAssumption DEF NextMonth, TypeOK, BudgetsOK, Months
  <2>2. UNCHANGED <<groupVars, dataVars, failed, died>>
    BY <1>2 DEF NextMonth
  <2>3. QED
    BY <2>1, <2>2
    DEF TypeOK, GroupOK, InTopic, DataOK, HistoryOK, groupVars, dataVars
<1>3. ASSUME NEW e \in Events, Publish(e) PROVE IInv'
  <2>1. GroupOK(InProcess) /\ Produce(e)
    BY <1>3 DEF TypeOK, Publish
  <2>2. Len(log) \in Nat /\ Len(log') = Len(log) + 1
    BY <2>1, ProduceAppends
  <2>3. GroupOK(InProcess)' /\ InTopic'
    BY <2>1, ProduceOK, ProduceInTopic
  <2>4. Len(log') <= MaxLog
    BY <2>1, <2>2, BoundsAssumption DEF Produce
  <2>5. (BudgetsOK /\ DataOK)'
    BY <1>3 DEF Publish, TypeOK, BudgetsOK, DataOK, budgetVars, dataVars
  <2>6. HistoryOK'
    BY <1>3, <2>2 DEF Publish, TypeOK, HistoryOK
  <2>7. QED
    BY <2>3, <2>4, <2>5, <2>6 DEF TypeOK
<1>4. QED
  BY <1>1, <1>2, <1>3 DEF Environment

(* What a worker's step does to the group, whatever it does to the data.       *)
LEMMA WorkerGroup ==
    ASSUME IInv, NEW w \in Workers,
           \/ Assign(w) \/ AutoCommit(w) \/ Leave(w) \/ EndClaim(w)
           \/ Handle(w) \/ Fault(w)
    PROVE  GroupOK(InProcess)' /\ InTopic' /\ UNCHANGED log
<1> USE DEF IInv
<1>1. GroupOK(InProcess)
  BY DEF TypeOK
<1>2. CASE \/ Assign(w) \/ AutoCommit(w) \/ Leave(w) \/ EndClaim(w) \/ Crash(w)
  <2>1. Join(w) \/ CommitOffset(w) \/ LeaveGroup(w) \/ CloseClaim(w) \/ Die(w)
    BY <1>2 DEF Assign, AutoCommit, Leave, EndClaim, Crash
  <2>2. UNCHANGED log
    BY <2>1 DEF Join, CommitOffset, LeaveGroup, CloseClaim, Die, sessionVars
  <2>3. QED
    BY <1>1, <2>1, <2>2, SessionOK, SessionInTopic
<1>3. CASE SkipEvent(w) \/ DoneEvent(w)
  <2>1. MarkMessage(w) /\ pos[w] <= Len(log)
    BY <1>3 DEF SkipEvent, DoneEvent, AtMessage, InTopic
  <2>2. UNCHANGED log
    BY <2>1 DEF MarkMessage
  <2>3. QED
    BY <1>1, <2>1, <2>2, MarkMessageOK, MarkInTopic
<1>4. ASSUME NEW label \in InProcess, GoTo(w, label), pos[w] <= Len(log)
      PROVE  GroupOK(InProcess)' /\ InTopic' /\ UNCHANGED log
  BY <1>1, <1>4, GoToOK, GoToInTopic DEF GoTo
<1>5. CASE \/ TakeEvent(w) \/ InsertUsage(w) \/ InsertFails(w)
           \/ InsertUnacknowledged(w) \/ UpdateSpend(w) \/ UpdateFails(w)
           \/ UpdateUnacknowledged(w) \/ CheckBudgets(w) \/ CheckFails(w)
  <2>1. pos[w] <= Len(log)
    BY <1>5
    DEF TakeEvent, AtMessage, InsertUsage, InsertFails, InsertUnacknowledged,
        UpdateSpend, UpdateFails, UpdateUnacknowledged, CheckBudgets, CheckFails,
        InTopic
  <2>2. \E label \in InProcess : GoTo(w, label)
    BY <1>5
    DEF TakeEvent, InsertUsage, InsertFails, InsertUnacknowledged, UpdateSpend,
        UpdateFails, UpdateUnacknowledged, CheckBudgets, CheckFails, InProcess
  <2>3. QED
    BY <1>4, <2>1, <2>2
<1>6. QED
  BY <1>2, <1>3, <1>5
  DEF Handle, Fault, InsertRefused, SpendOverflows

(* What it does to the data.                                                   *)
LEMMA WorkerData ==
    ASSUME IInv, NEW w \in Workers,
           \/ Assign(w) \/ AutoCommit(w) \/ Leave(w) \/ EndClaim(w)
           \/ Handle(w) \/ Fault(w)
    PROVE  BudgetsOK' /\ DataOK' /\ HistoryOK'
<1> USE DEF IInv
<1>1. UNCHANGED <<budgetVars, log>> /\ BudgetsOK'
  <2>1. UNCHANGED log
    BY WorkerGroup
  <2>2. UNCHANGED budgetVars
    BY DEF Assign, AutoCommit, Leave, EndClaim, Handle, Fault, SkipEvent, TakeEvent,
           DoneEvent, InsertUsage, InsertFails, InsertRefused, InsertUnacknowledged,
           UpdateSpend, UpdateFails, UpdateUnacknowledged, SpendOverflows,
           CheckBudgets, CheckFails, Crash
  <2>3. QED
    BY <2>1, <2>2 DEF budgetVars, BudgetsOK, TypeOK
<1>2. ASSUME UNCHANGED dataVars PROVE DataOK'
  BY <1>2 DEF dataVars, DataOK, TypeOK
<1>4. ASSUME UNCHANGED <<failed, died>> PROVE HistoryOK'
  BY <1>1, <1>4 DEF HistoryOK, TypeOK
<1>5. ASSUME pc[w] \in InProcess, Fail(w) PROVE HistoryOK'
  <2>1. pos[w] \in 1..Len(log)
    BY <1>5, EventType DEF InTopic, InProcess
  <2>2. QED
    BY <1>1, <1>5, <2>1 DEF Fail, HistoryOK, TypeOK
<1>6. CASE \/ Assign(w) \/ AutoCommit(w) \/ Leave(w) \/ EndClaim(w)
           \/ SkipEvent(w) \/ TakeEvent(w) \/ DoneEvent(w)
  <2>1. UNCHANGED <<dataVars, failed, died>>
    BY <1>6
    DEF Assign, AutoCommit, Leave, EndClaim, SkipEvent, TakeEvent, DoneEvent
  <2>2. QED
    BY <1>1, <1>2, <1>4, <2>1
<1>7. CASE Crash(w)
  <2>1. CASE pc[w] \in InProcess
    <3>1. pos[w] \in 1..Len(log)
      BY <2>1, EventType DEF InTopic, InProcess
    <3>2. HistoryOK'
      BY <1>1, <1>7, <2>1, <3>1 DEF Crash, HistoryOK, TypeOK
    <3>3. missed' \in [Budgets -> Nat]
      BY <1>7, <3>1, MissedType DEF Crash, TypeOK, DataOK
    <3>4. DataOK'
      BY <1>7, <3>3 DEF Crash, TypeOK, DataOK
    <3>5. QED
      BY <1>1, <3>2, <3>4
  <2>2. CASE pc[w] \notin InProcess
    <3>1. UNCHANGED <<dataVars, failed, died>>
      BY <1>7, <2>2 DEF Crash, InProcess, dataVars
    <3>2. QED
      BY <1>1, <1>2, <1>4, <3>1
  <2>3. QED
    BY <2>1, <2>2
<1>8. CASE InsertUsage(w) \/ InsertUnacknowledged(w)
  <2>1. pc[w] = "insert" /\ pos[w] <= Len(log)
    BY <1>8 DEF InsertUsage, InsertUnacknowledged, InTopic
  <2>2. usage' \in [Messages -> Nat]
    <3>1. pos[w] \in Messages /\ usage' = [usage EXCEPT ![pos[w]] = @ + 1]
      BY <1>8, <2>1, EventType DEF InsertUsage, InsertUnacknowledged
    <3>2. QED
      BY <3>1 DEF TypeOK, DataOK
  <2>3. missed' \in [Budgets -> Nat] /\ UNCHANGED spend
    BY <1>8, <2>1, MissedType DEF InsertUsage, InsertUnacknowledged, TypeOK, DataOK
  <2>4. HistoryOK'
    BY <1>4, <1>5, <1>8, <2>1 DEF InsertUsage, InsertUnacknowledged, InProcess
  <2>5. QED
    BY <1>1, <2>2, <2>3, <2>4 DEF TypeOK, DataOK
<1>9. CASE InsertFails(w) \/ CheckFails(w)
  <2>1. pc[w] \in InProcess /\ Fail(w) /\ UNCHANGED dataVars
    BY <1>9 DEF InsertFails, CheckFails, InProcess
  <2>2. QED
    BY <1>1, <1>2, <1>5, <2>1
<1>10. CASE UpdateSpend(w) \/ UpdateFails(w) \/ UpdateUnacknowledged(w)
  <2>1. pc[w] = "update" /\ pos[w] <= Len(log)
    BY <1>10 DEF UpdateSpend, UpdateFails, UpdateUnacknowledged, InTopic
  <2>2. missed' \in [Budgets -> Nat]
    BY <1>10, <2>1, MissedType
    DEF UpdateSpend, ChargeBudgets, UpdateFails, UpdateUnacknowledged
  <2>3. spend' \in [Budgets -> [Months -> Nat]]
    <3>1. ASSUME NEW b \in Budgets
          PROVE  [spend[b] EXCEPT ![month] = @ + EventOf(w).cost] \in [Months -> Nat]
      BY <2>1, EventType DEF TypeOK, DataOK, BudgetsOK
    <3>2. QED
      BY <1>10, <3>1 DEF UpdateSpend, ChargeBudgets, UpdateFails,
                         UpdateUnacknowledged, TypeOK, DataOK
  <2>4. UNCHANGED usage
    BY <1>10 DEF UpdateSpend, UpdateFails, UpdateUnacknowledged
  <2>5. HistoryOK'
    BY <1>4, <1>5, <1>10, <2>1 DEF UpdateSpend, UpdateFails, UpdateUnacknowledged,
                                   InProcess
  <2>6. QED
    BY <1>1, <2>2, <2>3, <2>4, <2>5 DEF TypeOK, DataOK
<1>11. CASE CheckBudgets(w)
  BY <1>1, <1>2, <1>4, <1>11 DEF CheckBudgets
<1>12. QED
  BY <1>6, <1>7, <1>8, <1>9, <1>10, <1>11
  DEF Handle, Fault, InsertRefused, SpendOverflows

LEMMA NextIInv == IInv /\ [Next]_vars => IInv'
<1>1. ASSUME IInv, UNCHANGED vars PROVE IInv'
  BY <1>1
  DEF vars, groupVars, IInv, TypeOK, GroupOK, InTopic, BudgetsOK, DataOK, HistoryOK
<1>2. ASSUME IInv, NEW w \in Workers,
             \/ Assign(w) \/ AutoCommit(w) \/ Leave(w) \/ EndClaim(w)
             \/ Handle(w) \/ Fault(w)
      PROVE  IInv'
  BY <1>2, WorkerGroup, WorkerData DEF IInv, TypeOK
<1>3. QED
  BY <1>1, <1>2, EnvironmentIInv DEF Next

(* The inductive invariant holds in every reachable state.                     *)
THEOREM Invariance == Spec => []IInv
BY InitIInv, NextIInv, PTL DEF Spec

(* Every variable of the cost engine has its type in every reachable state.    *)
THEOREM TypeCorrect == Spec => []TypeOK
<1>1. IInv => TypeOK
  BY DEF IInv
<1>2. QED
  BY <1>1, Invariance, PTL

---------------------------------------------------------------------------------
(* What the group has committed past is billed. NoUnbilledCommit speaks of the *)
(* committed position only; the strengthening says the same (Covered) of every *)
(* handler's position and marks, and of a message a handler has recorded.      *)
Settled(m) == log[m].kind = "ok" => usage[m] > 0 \/ m \in failed \/ m \in passed

SettledBelow ==
    /\ \A m \in 1..Len(log) : Covered(m) => Settled(m)
    /\ \A w \in Workers : pc[w] \in {"update", "check", "done"} => Settled(pos[w])

(* A step keeps the messages and what settles them.                            *)
LEMMA SettledStable ==
    ASSUME IInv, Next, NEW m \in 1..Len(log), Settled(m)
    PROVE  Settled(m)'
<1> USE DEF IInv
<1>1. CASE \E e \in Events : Publish(e)
  <2>1. PICK e \in Events : Publish(e)
    BY <1>1
  <2>2. log'[m] = log[m]
    BY <2>1, ProduceAppends DEF Publish, TypeOK
  <2>3. UNCHANGED <<usage, failed, passed>>
    BY <2>1 DEF Publish, Produce, dataVars, sessionVars
  <2>4. QED
    BY <2>2, <2>3 DEF Settled
<1>2. CASE NextMonth \/ \E b \in Budgets : CreateBudget(b) \/ DeactivateBudget(b)
  <2>1. UNCHANGED <<log, usage, failed, passed>>
    BY <1>2 DEF NextMonth, CreateBudget, DeactivateBudget, groupVars, dataVars
  <2>2. QED
    BY <2>1 DEF Settled
<1>3. ASSUME NEW w \in Workers,
             \/ Assign(w) \/ AutoCommit(w) \/ Leave(w) \/ EndClaim(w)
             \/ Handle(w) \/ Fault(w)
      PROVE  Settled(m)'
  <2>1. UNCHANGED log
    BY <1>3, WorkerGroup
  <2>2. failed \subseteq failed'
    BY <1>3
    DEF Assign, AutoCommit, Leave, EndClaim, Handle, Fault, SkipEvent, TakeEvent,
        DoneEvent, InsertUsage, InsertFails, InsertRefused, InsertUnacknowledged,
        UpdateSpend, UpdateFails, UpdateUnacknowledged, SpendOverflows,
        CheckBudgets, CheckFails, Crash, Fail
  <2>3. passed \subseteq passed'
    BY <1>3
    DEF Assign, Join, AutoCommit, CommitOffset, Leave, LeaveGroup, EndClaim,
        CloseClaim, Handle, Fault, SkipEvent, TakeEvent, DoneEvent, InsertUsage,
        InsertFails, InsertRefused, InsertUnacknowledged, UpdateSpend, UpdateFails,
        UpdateUnacknowledged, SpendOverflows, CheckBudgets, CheckFails, Crash, Die,
        GoTo, MarkMessage, sessionVars, groupVars
  <2>4. usage[m] > 0 => usage'[m] > 0
    <3>1. CASE InsertUsage(w) \/ InsertUnacknowledged(w)
      <4>1. usage' = [usage EXCEPT ![pos[w]] = @ + 1]
        BY <3>1 DEF InsertUsage, InsertUnacknowledged
      <4>2. m \in Messages
        BY LenProperties, BoundsAssumption DEF TypeOK, GroupOK, Messages
      <4>3. QED
        BY <4>1, <4>2 DEF TypeOK, DataOK
    <3>2. CASE ~ InsertUsage(w) /\ ~ InsertUnacknowledged(w)
      BY <1>3, <3>2
      DEF Assign, AutoCommit, Leave, EndClaim, Handle, Fault, SkipEvent, TakeEvent,
          DoneEvent, InsertFails, InsertRefused, UpdateSpend, UpdateFails,
          UpdateUnacknowledged, SpendOverflows, CheckBudgets, CheckFails, Crash,
          dataVars
    <3>3. QED
      BY <3>1, <3>2
  <2>5. QED
    BY <2>1, <2>2, <2>3, <2>4 DEF Settled
<1>4. QED
  BY <1>1, <1>2, <1>3 DEF Next, Environment

(* The insert, when it ends, settles its message.                              *)
LEMMA InsertSettles ==
    ASSUME IInv, NEW w \in Workers,
           InsertUsage(w) \/ InsertFails(w) \/ InsertUnacknowledged(w)
    PROVE  Settled(pos[w])' /\ pos' = pos
<1> USE DEF IInv
<1>1. pc[w] = "insert" /\ pos[w] <= Len(log) /\ pos' = pos
  BY DEF InsertUsage, InsertFails, InsertUnacknowledged, GoTo, InTopic
<1>2. CASE InsertUsage(w)
  <2>1. pos[w] \in Messages
    BY <1>1, EventType
  <2>2. usage'[pos[w]] > 0
    BY <1>2, <2>1 DEF InsertUsage, TypeOK, DataOK
  <2>3. QED
    BY <1>1, <2>2 DEF Settled
<1>3. CASE InsertFails(w) \/ InsertUnacknowledged(w)
  BY <1>1, <1>3 DEF InsertFails, InsertUnacknowledged, Fail, Settled
<1>4. QED
  BY <1>2, <1>3

(* How far one step can move what is covered.                                  *)
LEMMA CoverageStep ==
    ASSUME IInv, SettledBelow, Next, NEW m \in 1..Len(log), Covered(m)'
    PROVE  Covered(m) \/ Settled(m)'
<1> USE DEF IInv
<1>1. GroupOK(InProcess) /\ m \in Nat \ {0} /\ Len(log) \in Nat
  BY LenProperties DEF TypeOK, GroupOK
<1>2. ASSUME NEW w \in Workers, Assign(w) PROVE Covered(m) \/ Settled(m)'
  BY <1>1, <1>2, JoinCovers DEF Assign, Settled
<1>3. ASSUME NEW w \in Workers,
             AutoCommit(w) \/ Leave(w) \/ EndClaim(w) \/ Crash(w)
      PROVE  Covered(m)
  BY <1>1, <1>3, SessionCovers DEF AutoCommit, Leave, EndClaim, Crash
<1>4. ASSUME NEW w \in Workers, SkipEvent(w) PROVE Covered(m) \/ Settled(m)'
  <2>1. Covered(m) \/ m = pos[w]
    BY <1>1, <1>4, MarkCovers DEF SkipEvent
  <2>2. log' = log /\ log[pos[w]].kind # "ok"
    BY <1>4 DEF SkipEvent, MarkMessage, EventOf
  <2>3. QED
    BY <2>1, <2>2 DEF Settled
<1>5. ASSUME NEW w \in Workers, DoneEvent(w) PROVE Covered(m) \/ Settled(m)'
  <2>1. Covered(m) \/ m = pos[w]
    BY <1>1, <1>5, MarkCovers DEF DoneEvent
  <2>2. Settled(pos[w])
    BY <1>5 DEF DoneEvent, SettledBelow
  <2>3. QED
    BY <2>1, <2>2, SettledStable
<1>6. ASSUME UNCHANGED <<committed, pos, marked>> PROVE Covered(m)
  BY <1>6 DEF Covered
<1>7. ASSUME NEW w \in Workers,
             \/ TakeEvent(w) \/ InsertUsage(w) \/ InsertFails(w)
             \/ InsertUnacknowledged(w) \/ UpdateSpend(w) \/ UpdateFails(w)
             \/ UpdateUnacknowledged(w)
             \/ CheckBudgets(w) \/ CheckFails(w)
      PROVE  UNCHANGED <<committed, pos, marked>>
  BY <1>7
  DEF TakeEvent, InsertUsage, InsertFails, InsertUnacknowledged, UpdateSpend,
      UpdateFails, UpdateUnacknowledged, CheckBudgets, CheckFails, GoTo,
      groupVars, sessionVars
<1>8. CASE Environment
  BY <1>6, <1>8
  DEF Environment, CreateBudget, DeactivateBudget, NextMonth, Publish, Produce,
      groupVars, sessionVars
<1>9. QED
  BY <1>2, <1>3, <1>4, <1>5, <1>6, <1>7, <1>8
  DEF Next, Handle, Fault, InsertRefused, SpendOverflows

(* A handler past its insert has settled its message.                          *)
LEMMA RecordedStep ==
    ASSUME IInv, SettledBelow, Next, NEW w \in Workers,
           pc'[w] \in {"update", "check", "done"}
    PROVE  Settled(pos[w])'
<1> USE DEF IInv
<1>1. CASE InsertUsage(w) \/ InsertFails(w) \/ InsertUnacknowledged(w)
  BY <1>1, InsertSettles
<1>2. CASE pc[w] \in {"update", "check", "done"} /\ pos'[w] = pos[w]
  <2>1. pos[w] \in 1..Len(log)
    BY <1>2, EventType DEF InTopic
  <2>2. Settled(pos[w])
    BY <1>2 DEF SettledBelow
  <2>3. QED
    BY <1>2, <2>1, <2>2, SettledStable DEF Settled
<1>3. ASSUME NEW v \in Workers, GoTo(v, "update") \/ GoTo(v, "check") \/ GoTo(v, "done"),
             pc[v] \in {"update", "check", "done"} \/ v # w
      PROVE  pc[w] \in {"update", "check", "done"} /\ pos'[w] = pos[w]
  BY <1>3 DEF GoTo, TypeOK, GroupOK
<1>4. ASSUME NEW v \in Workers,
             \/ Join(v) \/ CommitOffset(v) \/ LeaveGroup(v) \/ CloseClaim(v) \/ Die(v)
             \/ MarkMessage(v) \/ GoTo(v, "insert")
      PROVE  pc[w] \in {"update", "check", "done"} /\ pos'[w] = pos[w]
  <2>1. v # w \/ pc' = pc
    BY <1>4
    DEF Join, CommitOffset, LeaveGroup, CloseClaim, Die, EndSession, MarkMessage,
        GoTo, TypeOK, GroupOK
  <2>2. pc'[w] = pc[w] /\ pos'[w] = pos[w]
    BY <1>4, <2>1
    DEF Join, CommitOffset, LeaveGroup, CloseClaim, Die, EndSession, MarkMessage,
        GoTo, TypeOK, GroupOK
  <2>3. QED
    BY <2>2
<1>5. ASSUME UNCHANGED <<pc, pos>>
      PROVE  pc[w] \in {"update", "check", "done"} /\ pos'[w] = pos[w]
  BY <1>5
<1>6. ASSUME NEW v \in Workers,
             \/ Assign(v) \/ AutoCommit(v) \/ Leave(v) \/ EndClaim(v) \/ Crash(v)
             \/ SkipEvent(v) \/ TakeEvent(v) \/ DoneEvent(v)
      PROVE  pc[w] \in {"update", "check", "done"} /\ pos'[w] = pos[w]
  BY <1>4, <1>6
  DEF Assign, AutoCommit, Leave, EndClaim, Crash, SkipEvent, TakeEvent, DoneEvent
<1>7. ASSUME NEW v \in Workers,
             \/ UpdateSpend(v) \/ UpdateFails(v) \/ UpdateUnacknowledged(v)
             \/ CheckBudgets(v) \/ CheckFails(v)
             \/ v # w /\ (InsertUsage(v) \/ InsertFails(v) \/ InsertUnacknowledged(v))
      PROVE  pc[w] \in {"update", "check", "done"} /\ pos'[w] = pos[w]
  BY <1>3, <1>7
  DEF UpdateSpend, UpdateFails, UpdateUnacknowledged, CheckBudgets, CheckFails,
      InsertUsage, InsertFails, InsertUnacknowledged
<1>8. ASSUME Environment PROVE UNCHANGED <<pc, pos>>
  BY <1>8
  DEF Environment, CreateBudget, DeactivateBudget, NextMonth, Publish, Produce,
      groupVars
<1>9. QED
  BY <1>1, <1>2, <1>5, <1>6, <1>7, <1>8
  DEF Next, Handle, Fault, InsertRefused, SpendOverflows

LEMMA NextSettledBelow == IInv /\ SettledBelow /\ [Next]_vars => SettledBelow'
<1>1. ASSUME SettledBelow, UNCHANGED vars PROVE SettledBelow'
  BY <1>1 DEF vars, groupVars, SettledBelow, Covered, Settled
<1>2. ASSUME IInv, SettledBelow, Next, NEW m \in 1..Len(log'), Covered(m)'
      PROVE  Settled(m)'
  <2>1. CASE m \in 1..Len(log)
    BY <1>2, <2>1, CoverageStep, SettledStable DEF SettledBelow
  <2>2. CASE m \notin 1..Len(log)
    <3>1. PICK e \in Events : Publish(e)
      <4>1. ASSUME ~ \E e \in Events : Publish(e) PROVE UNCHANGED log
        BY <1>2, <4>1, WorkerGroup
        DEF Next, Environment, CreateBudget, DeactivateBudget, NextMonth, groupVars
      <4>2. QED
        BY <2>2, <4>1
    <3>2. Len(log) \in Nat /\ Len(log') = Len(log) + 1
      BY <1>2, <3>1, ProduceAppends DEF IInv, TypeOK, Publish
    <3>3. m = Len(log) + 1
      BY <2>2, <3>2
    <3>4. /\ committed' <= m
          /\ \A w \in Workers : pos'[w] <= m /\ marked'[w] <= m
      BY <1>2, <3>1, <3>3 DEF Publish, Produce, IInv, InTopic, sessionVars
    <3>5. /\ committed' \in Nat
          /\ \A w \in Workers : pos'[w] \in Nat /\ marked'[w] \in Nat
      BY <1>2, <3>1 DEF Publish, Produce, IInv, TypeOK, GroupOK, sessionVars
    <3>6. QED
      BY <1>2, <3>2, <3>3, <3>4, <3>5 DEF Covered
  <2>3. QED
    BY <2>1, <2>2
<1>3. QED
  BY <1>1, <1>2, RecordedStep DEF SettledBelow

(* No crash, takeover or late offset commit leaves a request unbilled: what    *)
(* the group has committed past is in usage_events, known to have failed, or   *)
(* was passed over when the group started (main.go:138-183).                   *)
THEOREM NothingUnbilledSilently == Spec => []NoUnbilledCommit
<1>1. Init => SettledBelow
  BY DEF Init, GroupInit, SettledBelow
<1>2. SettledBelow => NoUnbilledCommit
  BY DEF SettledBelow, NoUnbilledCommit, Covered, Settled
<1>3. Spec => []SettledBelow
  BY <1>1, Invariance, NextSettledBelow, PTL DEF Spec
<1>4. QED
  BY <1>2, <1>3, PTL

---------------------------------------------------------------------------------
(* Every cost is accounted for. The invariant adds that a message that is not  *)
(* published yet has no row, so that publishing it bills nobody, and that      *)
(* finitely many workers are about to add.                                     *)
Unwritten == \A m \in Messages : m > Len(log) => usage[m] = 0
Updating == {v \in Workers : pc[v] = "update"}

AccountInv == Unwritten /\ IsFiniteSet(Updating) /\ EveryCostAccounted

(* The terms of the sums.                                                      *)
Of(o) == {m \in 1..Len(log) : log[m].org = o}
Bills(o) == [m \in Of(o) |-> usage[m] * log[m].cost]
Flying(o) == {v \in Workers : pc[v] = "update" /\ EventOf(v).org = o}
Flights(o) == [v \in Flying(o) |-> EventOf(v).cost]

(* What the cost of w's message is to an organization.                         *)
Share(w, o) == IF EventOf(w).org = o THEN EventOf(w).cost ELSE 0

(* A product of natural numbers is one, and grows by a factor.                 *)
LEMMA Products ==
    \A a, c \in Nat : a * c \in Nat /\ (a + 1) * c = a * c + c
  OBVIOUS

LEMMA BillType ==
    \A lg, us, m : /\ lg \in Seq(Events) /\ us \in [Messages -> Nat] /\ Len(lg) <= MaxLog
                  /\ m \in 1..Len(lg)
                  => us[m] * lg[m].cost \in Nat
<1> SUFFICES ASSUME NEW lg \in Seq(Events), NEW us \in [Messages -> Nat], Len(lg) <= MaxLog,
                    NEW m \in 1..Len(lg)
             PROVE  us[m] * lg[m].cost \in Nat
  OBVIOUS
<1>1. Len(lg) \in Nat /\ m \in Messages
  BY LenProperties, BoundsAssumption DEF Messages
<1>2. us[m] \in Nat /\ lg[m].cost \in Nat
  BY <1>1, ElementOfSeq, EventsAssumption
<1>3. QED
  BY <1>2, Products

LEMMA BillsType ==
    ASSUME IInv, NEW o
    PROVE  /\ IsFiniteSet(Of(o)) /\ Bills(o) \in [Of(o) -> Nat] /\ Billed(o) = Total(Bills(o))
           /\ Billed(o) \in Nat
<1>1. Len(log) \in Nat /\ log \in Seq(Events)
  BY LenProperties DEF IInv, TypeOK, GroupOK
<1>2. IsFiniteSet(Of(o))
  <2>1. IsFiniteSet(1..Len(log)) /\ Of(o) \subseteq 1..Len(log)
    BY <1>1, IntervalFinite DEF Of
  <2>2. QED
    BY <2>1, FS_Subset
<1>3. \A m \in Of(o) : usage[m] * log[m].cost \in Nat
  BY <1>1, BillType DEF Of, IInv, TypeOK, DataOK
<1>4. Bills(o) \in [Of(o) -> Nat]
  BY <1>3 DEF Bills
<1>5. Billed(o) = Total(Bills(o))
  BY DEF Billed, Bills, Of
<1>6. QED
  BY <1>2, <1>4, <1>5, TotalType

LEMMA FlightsType ==
    ASSUME IInv, IsFiniteSet(Updating), NEW o
    PROVE  /\ IsFiniteSet(Flying(o)) /\ Flights(o) \in [Flying(o) -> Nat]
           /\ InFlight(o) = Total(Flights(o)) /\ InFlight(o) \in Nat
<1>1. IsFiniteSet(Flying(o))
  <2>1. Flying(o) \subseteq Updating
    BY DEF Flying, Updating
  <2>2. QED
    BY <2>1, FS_Subset
<1>2. \A v \in Flying(o) : EventOf(v).cost \in Nat
  BY EventType DEF Flying, IInv, InTopic
<1>3. Flights(o) \in [Flying(o) -> Nat]
  BY <1>2 DEF Flights
<1>4. InFlight(o) = Total(Flights(o))
  BY DEF InFlight, Flights, Flying
<1>5. QED
  BY <1>1, <1>3, <1>4, TotalType

LEMMA SpentType ==
    ASSUME IInv, NEW b \in Budgets
    PROVE  IsFiniteSet(Months) /\ spend[b] \in [Months -> Nat] /\ Spent(b) \in Nat
<1>1. IsFiniteSet(Months) /\ spend[b] \in [Months -> Nat]
  BY IntervalFinite, BudgetsAssumption DEF Months, IInv, TypeOK, DataOK
<1>2. QED
  BY <1>1, TotalType DEF Spent


(* Publishing an event bills nobody: it has no row yet.                        *)
LEMMA BilledPublish ==
    ASSUME IInv, IInv', Unwritten, NEW e \in Events, Publish(e), NEW o
    PROVE  Billed(o)' = Billed(o)
<1> DEFINE n == Len(log) + 1
<1>1. /\ Len(log) \in Nat /\ Len(log') = n /\ usage' = usage
      /\ \A m \in 1..Len(log) : log'[m] = log[m]
  BY ProduceAppends DEF Publish, IInv, TypeOK, dataVars
<1>2. usage[n] = 0 /\ log'[n].cost \in Nat
  <2>1. n \in Messages
    BY <1>1, BoundsAssumption DEF IInv, Messages
  <2>2. log' \in Seq(Events) /\ n \in 1..Len(log')
    BY <1>1 DEF IInv, TypeOK, GroupOK
  <2>3. log'[n] \in Events
    BY <2>2, ElementOfSeq
  <2>4. QED
    BY <1>1, <2>1, <2>3, EventsAssumption DEF Unwritten
<1>3. /\ IsFiniteSet(Of(o)) /\ Bills(o) \in [Of(o) -> Nat] /\ Billed(o) = Total(Bills(o))
      /\ Billed(o) \in Nat
  BY BillsType
<1>4. Bills(o)' \in [Of(o)' -> Nat] /\ Billed(o)' = Total(Bills(o)')
  <2>1. \A m \in Of(o)' : usage'[m] * log'[m].cost \in Nat
    BY BillType DEF Of, IInv, TypeOK, DataOK, GroupOK
  <2>2. Bills(o)' \in [Of(o)' -> Nat]
    BY <2>1 DEF Bills
  <2>3. Billed(o)' = Total(Bills(o)')
    BY DEF Billed, Bills, Of
  <2>4. QED
    BY <2>2, <2>3
<1>5. \A m \in Of(o) : m \in Of(o)' /\ Bills(o)'[m] = Bills(o)[m] /\ m # n
  BY <1>1 DEF Of, Bills
<1>6. CASE log'[n].org = o
  <2>1. Of(o)' = Of(o) \cup {n} /\ n \notin Of(o)
    BY <1>1, <1>5, <1>6 DEF Of
  <2>2. Bills(o)'[n] = 0
    <3>1. Bills(o)'[n] = usage[n] * log'[n].cost
      BY <1>1, <2>1 DEF Bills
    <3>2. QED
      BY <1>2, <3>1
  <2>3. Grows(Of(o), Bills(o), n, 0, Bills(o)')
    BY <1>3, <1>4, <1>5, <2>1, <2>2 DEF Grows
  <2>4. QED
    BY <1>3, <1>4, <2>3, TotalStep
<1>7. CASE log'[n].org # o
  <2>1. Of(o)' = Of(o)
    BY <1>1, <1>5, <1>7 DEF Of
  <2>2. Bills(o)' = Bills(o)
    BY <1>1, <1>5, <2>1 DEF Bills
  <2>3. QED
    BY <1>3, <1>4, <2>2
<1>8. QED
  BY <1>6, <1>7

(* A row of w's message bills its organization its cost.                       *)
LEMMA BilledInsert ==
    ASSUME IInv, IInv', NEW w \in Workers, NEW o, pos[w] <= Len(log), log' = log,
           usage' = [usage EXCEPT ![pos[w]] = @ + 1]
    PROVE  Billed(o)' = Billed(o) + Share(w, o)
<1>1. /\ pos[w] \in 1..Len(log) /\ pos[w] \in Messages /\ EventOf(w) = log[pos[w]]
      /\ EventOf(w).cost \in Nat /\ usage \in [Messages -> Nat]
  BY EventType DEF IInv, TypeOK, DataOK, EventOf
<1>2. /\ IsFiniteSet(Of(o)) /\ Bills(o) \in [Of(o) -> Nat] /\ Billed(o) = Total(Bills(o))
      /\ Billed(o) \in Nat
  BY BillsType
<1>3. Bills(o)' \in [Of(o)' -> Nat] /\ Billed(o)' = Total(Bills(o)')
  <2>1. \A m \in Of(o)' : usage'[m] * log'[m].cost \in Nat
    BY BillType DEF Of, IInv, TypeOK, DataOK, GroupOK
  <2>2. Bills(o)' \in [Of(o)' -> Nat]
    BY <2>1 DEF Bills
  <2>3. Billed(o)' = Total(Bills(o)')
    BY DEF Billed, Bills, Of
  <2>4. QED
    BY <2>2, <2>3
<1>4. Of(o)' = Of(o)
  BY DEF Of
<1>5. \A m \in Of(o) \ {pos[w]} : Bills(o)'[m] = Bills(o)[m]
  BY <1>4 DEF Bills
<1>6. CASE EventOf(w).org = o
  <2>1. pos[w] \in Of(o)
    BY <1>1, <1>6 DEF Of
  <2>2. /\ Bills(o)[pos[w]] = usage[pos[w]] * EventOf(w).cost
        /\ Bills(o)'[pos[w]] = (usage[pos[w]] + 1) * EventOf(w).cost
    BY <1>1, <1>4, <2>1 DEF Bills
  <2>3. usage[pos[w]] \in Nat
    BY <1>1
  <2>4. Bills(o)'[pos[w]] = Bills(o)[pos[w]] + EventOf(w).cost
    BY <1>1, <2>2, <2>3, Products
  <2>5. Grows(Of(o), Bills(o), pos[w], EventOf(w).cost, Bills(o)')
    <3>1. Of(o) \cup {pos[w]} = Of(o)
      BY <2>1
    <3>2. QED
      BY <1>2, <1>3, <1>4, <1>5, <2>1, <2>4, <3>1 DEF Grows
  <2>6. QED
    BY <1>1, <1>2, <1>3, <1>6, <2>5, TotalStep DEF Share
<1>7. CASE EventOf(w).org # o
  <2>1. pos[w] \notin Of(o)
    BY <1>1, <1>7 DEF Of
  <2>2. Bills(o)' = Bills(o)
    BY <1>4, <1>5, <2>1 DEF Bills
  <2>3. QED
    BY <1>2, <1>3, <1>7, <2>2 DEF Share
<1>8. QED
  BY <1>6, <1>7

LEMMA BilledStays ==
    ASSUME NEW o, log' = log, usage' = usage PROVE Billed(o)' = Billed(o)
  BY DEF Billed

(* Every worker but w stays where it is.                                       *)
OthersStay(w) == \A v \in Workers \ {w} : pc'[v] = pc[v] /\ pos'[v] = pos[v]

LEMMA FlightStays ==
    ASSUME NEW w \in Workers, NEW o, log' = log, OthersStay(w),
           pc[w] # "update", pc'[w] # "update"
    PROVE  Updating' = Updating /\ InFlight(o)' = InFlight(o)
<1>1. Updating' = Updating /\ Flying(o)' = Flying(o)
  BY DEF OthersStay, Updating, Flying, EventOf
<1>2. \A v \in Flying(o) : EventOf(v)' = EventOf(v)
  BY DEF OthersStay, Flying, EventOf
<1>3. Flights(o)' = Flights(o)
  BY <1>1, <1>2 DEF Flights
<1>4. InFlight(o) = Total(Flights(o)) /\ InFlight(o)' = Total(Flights(o)')
  BY DEF InFlight, Flights, Flying
<1>5. QED
  BY <1>1, <1>3, <1>4

(* A worker about to add its message's cost counts it for the organization.    *)
LEMMA FlightEnters ==
    ASSUME IInv, IInv', IsFiniteSet(Updating), NEW w \in Workers, log' = log, OthersStay(w),
           pos[w] <= Len(log), pos' = pos, pc[w] # "update", pc'[w] = "update"
    PROVE  /\ IsFiniteSet(Updating')
           /\ \A o : InFlight(o)' = InFlight(o) + Share(w, o)
<1>1. Updating' = Updating \cup {w}
  BY DEF OthersStay, Updating
<1>2. IsFiniteSet(Updating')
  BY <1>1, FS_AddElement
<1>3. ASSUME NEW o PROVE InFlight(o)' = InFlight(o) + Share(w, o)
  <2>1. /\ IsFiniteSet(Flying(o)) /\ Flights(o) \in [Flying(o) -> Nat]
        /\ InFlight(o) = Total(Flights(o)) /\ InFlight(o) \in Nat
    BY FlightsType
  <2>2. InFlight(o)' = Total(Flights(o)')
    BY DEF InFlight, Flights, Flying
  <2>3. EventOf(w).cost \in Nat /\ w \notin Flying(o)
    BY EventType DEF Flying
  <2>4. \A v \in Flying(o) : v \in Flying(o)' /\ Flights(o)'[v] = Flights(o)[v]
    BY DEF OthersStay, Flying, Flights, EventOf
  <2>5. Flights(o)' \in [Flying(o)' -> Nat]
    <3>1. \A v \in Flying(o)' : EventOf(v)' = EventOf(v) /\ (v = w \/ v \in Flying(o))
      BY DEF OthersStay, Flying, EventOf
    <3>2. \A v \in Flying(o)' : EventOf(v).cost \in Nat
      BY <2>3, <3>1, EventType DEF Flying, IInv, InTopic
    <3>3. QED
      BY <3>1, <3>2 DEF Flights
  <2>6. CASE EventOf(w).org = o
    <3>1. Flying(o)' = Flying(o) \cup {w} /\ Flights(o)'[w] = EventOf(w).cost
      BY <2>6 DEF OthersStay, Flying, Flights, EventOf
    <3>2. Grows(Flying(o), Flights(o), w, EventOf(w).cost, Flights(o)')
      BY <2>1, <2>3, <2>4, <2>5, <3>1 DEF Grows
    <3>3. QED
      BY <2>1, <2>2, <2>3, <2>6, <3>2, TotalStep DEF Share
  <2>7. CASE EventOf(w).org # o
    <3>1. Flying(o)' = Flying(o)
      BY <2>7 DEF OthersStay, Flying, EventOf
    <3>2. Flights(o)' = Flights(o)
      BY <2>4, <3>1 DEF Flights
    <3>3. QED
      BY <2>1, <2>2, <2>7, <3>2 DEF Share
  <2>8. QED
    BY <2>6, <2>7
<1>4. QED
  BY <1>2, <1>3

(* A worker that has added it, or will not, counts no longer.                  *)
LEMMA FlightLeaves ==
    ASSUME IInv, IInv', IsFiniteSet(Updating), NEW w \in Workers, log' = log, OthersStay(w),
           pc[w] = "update", pc'[w] # "update"
    PROVE  /\ IsFiniteSet(Updating')
           /\ \A o : InFlight(o) = InFlight(o)' + Share(w, o)
<1>1. Updating' \subseteq Updating
  BY DEF OthersStay, Updating
<1>2. IsFiniteSet(Updating')
  BY <1>1, FS_Subset
<1>3. ASSUME NEW o PROVE InFlight(o) = InFlight(o)' + Share(w, o)
  <2>1. /\ IsFiniteSet(Flying(o)) /\ Flights(o) \in [Flying(o) -> Nat]
        /\ InFlight(o) = Total(Flights(o)) /\ InFlight(o) \in Nat
    BY FlightsType
  <2>2. /\ IsFiniteSet(Flying(o)') /\ Flights(o)' \in [Flying(o)' -> Nat]
        /\ InFlight(o)' = Total(Flights(o)') /\ InFlight(o)' \in Nat
    <3>1. /\ \A v \in Flying(o)' : EventOf(v)' = EventOf(v) /\ v \in Flying(o)
          /\ \A v \in Flying(o) : EventOf(v).cost \in Nat
      BY EventType DEF OthersStay, Flying, EventOf, IInv, InTopic
    <3>2. Flights(o)' \in [Flying(o)' -> Nat]
      BY <3>1 DEF Flights
    <3>3. IsFiniteSet(Flying(o)')
      BY <2>1, <3>1, FS_Subset
    <3>4. InFlight(o)' = Total(Flights(o)')
      BY DEF InFlight, Flights, Flying
    <3>5. QED
      BY <3>2, <3>3, <3>4, TotalType
  <2>3. EventOf(w).cost \in Nat /\ w \notin Flying(o)'
    BY EventType DEF Flying, IInv, InTopic
  <2>4. \A v \in Flying(o)' : v \in Flying(o) /\ Flights(o)'[v] = Flights(o)[v]
    BY DEF OthersStay, Flying, Flights, EventOf
  <2>5. CASE EventOf(w).org = o
    <3>1. Flying(o) = Flying(o)' \cup {w} /\ Flights(o)[w] = EventOf(w).cost
      BY <2>5 DEF OthersStay, Flying, Flights, EventOf
    <3>2. Grows(Flying(o)', Flights(o)', w, EventOf(w).cost, Flights(o))
      BY <2>1, <2>2, <2>3, <2>4, <3>1 DEF Grows
    <3>3. QED
      BY <2>1, <2>2, <2>3, <2>5, <3>2, TotalStep DEF Share
  <2>6. CASE EventOf(w).org # o
    <3>1. Flying(o)' = Flying(o)
      BY <2>6 DEF OthersStay, Flying, EventOf
    <3>2. Flights(o)' = Flights(o)
      BY <2>4, <3>1 DEF Flights
    <3>3. QED
      BY <2>1, <2>2, <2>6, <3>2 DEF Share
  <2>7. QED
    BY <2>5, <2>6
<1>4. QED
  BY <1>2, <1>3

(* What a budget is charged, its spend grows by.                               *)
LEMMA SpentGrows ==
    ASSUME IInv, IInv', NEW b \in Budgets, NEW k \in Nat,
           spend'[b] = [spend[b] EXCEPT ![month] = @ + k]
    PROVE  Spent(b)' = Spent(b) + k
<1>1. month \in Months /\ IsFiniteSet(Months) /\ spend[b] \in [Months -> Nat]
  BY SpentType DEF IInv, TypeOK, BudgetsOK
<1>2. spend'[b] \in [Months -> Nat] /\ Months \cup {month} = Months
  BY <1>1
<1>3. Grows(Months, spend[b], month, k, spend'[b])
  BY <1>1, <1>2 DEF Grows
<1>4. QED
  BY <1>3, TotalStep DEF Spent


(* What missed the cost of w's message.                                        *)
LEMMA MissedAdds ==
    ASSUME IInv, NEW w \in Workers, pos[w] <= Len(log), NEW S, missed' = Missed(w, S),
           NEW b \in Budgets
    PROVE  missed'[b] = missed[b] + (IF b \in S THEN 0 ELSE Share(w, b.org))
<1>1. missed[b] \in Nat /\ EventOf(w).cost \in Nat
  BY EventType DEF IInv, TypeOK, DataOK
<1>2. QED
  BY <1>1 DEF Missed, Share

LEMMA InitAccountInv == ASSUME Init PROVE AccountInv
<1>1. Unwritten
  BY DEF Init, Unwritten
<1>2. Updating = {} /\ IsFiniteSet(Updating)
  BY FS_EmptySet DEF Init, GroupInit, Updating
<1>3. ASSUME NEW b \in Budgets PROVE Billed(b.org) = Spent(b) + missed[b] + InFlight(b.org)
  <2>1. Of(b.org) = {} /\ Flying(b.org) = {}
    BY <1>2 DEF Init, GroupInit, Of, Flying, Updating
  <2>2. Billed(b.org) = Total(Bills(b.org)) /\ InFlight(b.org) = Total(Flights(b.org))
    BY DEF Billed, Bills, Of, InFlight, Flights, Flying
  <2>3. Billed(b.org) = 0 /\ InFlight(b.org) = 0
    BY <2>1, <2>2, TotalZero DEF Bills, Flights
  <2>4. Spent(b) = 0 /\ missed[b] = 0
    <3>1. \A p \in DOMAIN spend[b] : spend[b][p] = 0
      BY DEF Init
    <3>2. QED
      BY <3>1, TotalZero DEF Spent, Init
  <2>5. QED
    BY <2>3, <2>4
<1>4. QED
  BY <1>1, <1>2, <1>3 DEF AccountInv, EveryCostAccounted

LEMMA EnvironmentAccountInv ==
    ASSUME IInv, IInv', AccountInv, Environment PROVE AccountInv'
<1>1. UNCHANGED <<pc, pos, usage, spend, missed>> /\ Updating' = Updating
  BY DEF Environment, CreateBudget, DeactivateBudget, NextMonth, Publish, Produce,
         groupVars, dataVars, Updating
<1>2. log' = log \/ \E e \in Events : Publish(e)
  BY DEF Environment, CreateBudget, DeactivateBudget, NextMonth, groupVars
<1>3. ASSUME NEW o PROVE Billed(o)' = Billed(o)
  BY <1>1, <1>2, BilledPublish, BilledStays DEF AccountInv
<1>4. Len(log) \in Nat /\ Len(log') >= Len(log) /\ \A m \in 1..Len(log) : log'[m] = log[m]
  <2>1. Len(log) \in Nat
    BY LenProperties DEF IInv, TypeOK, GroupOK
  <2>2. ASSUME NEW e \in Events, Publish(e)
        PROVE  Len(log') = Len(log) + 1 /\ \A m \in 1..Len(log) : log'[m] = log[m]
    BY <2>2, ProduceAppends DEF Publish, IInv, TypeOK
  <2>3. QED
    BY <1>2, <2>1, <2>2
<1>5. Unwritten'
  BY <1>1, <1>4, BoundsAssumption DEF AccountInv, Unwritten, Messages
<1>6. ASSUME NEW o PROVE InFlight(o)' = InFlight(o)
  <2>1. \A v \in Updating : EventOf(v)' = EventOf(v)
    <3>1. \A v \in Updating : pos[v] \in 1..Len(log)
      BY EventType DEF Updating, IInv, InTopic
    <3>2. QED
      BY <1>1, <1>4, <3>1 DEF EventOf
  <2>2. Flying(o)' = Flying(o)
    BY <1>1, <2>1 DEF Flying, Updating
  <2>3. Flights(o)' = Flights(o)
    BY <2>1, <2>2 DEF Flights, Flying, Updating
  <2>4. InFlight(o) = Total(Flights(o)) /\ InFlight(o)' = Total(Flights(o)')
    BY DEF InFlight, Flights, Flying
  <2>5. QED
    BY <2>3, <2>4
<1>7. EveryCostAccounted'
  BY <1>1, <1>3, <1>6 DEF AccountInv, EveryCostAccounted, Spent
<1>8. QED
  BY <1>1, <1>5, <1>7 DEF AccountInv

(* A step that records no cost and adds none.                                  *)
LEMMA AccountQuiet ==
    ASSUME IInv, IInv', AccountInv, NEW w \in Workers,
           \/ Assign(w) \/ AutoCommit(w) \/ Leave(w) \/ EndClaim(w)
           \/ SkipEvent(w) \/ TakeEvent(w) \/ DoneEvent(w) \/ InsertFails(w)
           \/ CheckBudgets(w) \/ CheckFails(w)
           \/ (Crash(w) /\ pc[w] # "update")
    PROVE  AccountInv'
<1> USE DEF sessionVars, groupVars, budgetVars, dataVars
<1>1. UNCHANGED <<log, usage, spend, missed>>
  BY DEF Assign, Join, AutoCommit, CommitOffset, Leave, LeaveGroup, EndClaim, CloseClaim,
         SkipEvent, MarkMessage, TakeEvent, DoneEvent, InsertFails, CheckBudgets,
         CheckFails, Crash, Die, GoTo
<1>2. pc \in [Workers -> InProcess \cup {"out", "idle"}] /\ pos \in [Workers -> Nat \ {0}]
  BY DEF IInv, TypeOK, GroupOK
<1>3. OthersStay(w)
  BY <1>2
  DEF OthersStay, Assign, Join, AutoCommit, CommitOffset, Leave, LeaveGroup,
      EndClaim, CloseClaim, EndSession, SkipEvent, MarkMessage, TakeEvent,
      DoneEvent, InsertFails, CheckBudgets, CheckFails, Crash, Die, GoTo
<1>4. CASE AutoCommit(w)
  <2>1. UNCHANGED <<pc, pos>>
    BY <1>4 DEF AutoCommit, CommitOffset
  <2>2. \A o : Billed(o)' = Billed(o) /\ InFlight(o)' = InFlight(o)
    BY <1>1, <2>1 DEF Billed, InFlight, EventOf
  <2>3. QED
    BY <1>1, <2>1, <2>2 DEF AccountInv, EveryCostAccounted, Unwritten, Updating,
                            Spent
<1>5. CASE ~ AutoCommit(w)
  <2>1. pc[w] # "update" /\ pc'[w] # "update"
    BY <1>2, <1>5
    DEF Assign, Join, Leave, LeaveGroup, EndClaim, CloseClaim, EndSession,
        SkipEvent, AtMessage, MarkMessage, TakeEvent, DoneEvent, InsertFails,
        CheckBudgets, CheckFails, Crash, Die, GoTo
  <2>2. \A o : Billed(o)' = Billed(o) /\ InFlight(o)' = InFlight(o)
    BY <1>1, <1>3, <2>1, BilledStays, FlightStays
  <2>3. Updating' = Updating
    BY <1>1, <1>3, <2>1, FlightStays
  <2>4. QED
    BY <1>1, <2>2, <2>3 DEF AccountInv, EveryCostAccounted, Unwritten, Spent
<1>6. QED
  BY <1>4, <1>5

(* The cost of a row is about to be added, or missed if w does not learn of    *)
(* the row.                                                                    *)
LEMMA AccountInsert ==
    ASSUME IInv, IInv', AccountInv, NEW w \in Workers,
           InsertUsage(w) \/ InsertUnacknowledged(w)
    PROVE  AccountInv'
<1>1. /\ pc[w] = "insert" /\ pos[w] <= Len(log) /\ UNCHANGED <<log, pos, spend>>
      /\ usage' = [usage EXCEPT ![pos[w]] = @ + 1]
  BY DEF InsertUsage, InsertUnacknowledged, GoTo, IInv, InTopic
<1>2. pc \in [Workers -> InProcess \cup {"out", "idle"}] /\ usage \in [Messages -> Nat]
  BY DEF IInv, TypeOK, GroupOK, DataOK
<1>3. OthersStay(w)
  BY <1>2 DEF OthersStay, InsertUsage, InsertUnacknowledged, GoTo
<1>4. \A o : Billed(o)' = Billed(o) + Share(w, o)
  BY <1>1, BilledInsert
<1>5. Unwritten'
  <2>1. Len(log) \in Nat /\ pos[w] \in Messages
    BY <1>1, EventType, LenProperties DEF IInv, TypeOK, GroupOK
  <2>2. QED
    BY <1>1, <1>2, <2>1 DEF AccountInv, Unwritten, Messages
<1>6. ASSUME NEW b \in Budgets
      PROVE  /\ Billed(b.org) = Spent(b) + missed[b] + InFlight(b.org)
             /\ Spent(b)' = Spent(b) /\ Spent(b) \in Nat /\ missed[b] \in Nat
             /\ InFlight(b.org) \in Nat /\ Share(w, b.org) \in Nat
  <2>1. Spent(b) \in Nat /\ InFlight(b.org) \in Nat /\ missed[b] \in Nat
    BY SpentType, FlightsType DEF AccountInv, IInv, TypeOK, DataOK
  <2>2. Share(w, b.org) \in Nat
    BY <1>1, EventType DEF Share
  <2>3. QED
    BY <1>1, <2>1, <2>2 DEF AccountInv, EveryCostAccounted, Spent
<1>7. CASE InsertUsage(w)
  <2>1. pc'[w] = "update" /\ missed' = missed
    BY <1>2, <1>7 DEF InsertUsage, GoTo
  <2>2. IsFiniteSet(Updating') /\ \A o : InFlight(o)' = InFlight(o) + Share(w, o)
    BY <1>1, <1>3, <2>1, FlightEnters DEF AccountInv
  <2>3. ASSUME NEW b \in Budgets
        PROVE  Billed(b.org)' = Spent(b)' + missed'[b] + InFlight(b.org)'
    BY <1>4, <1>6, <2>1, <2>2
  <2>4. QED
    BY <1>5, <2>2, <2>3 DEF AccountInv, EveryCostAccounted
<1>8. CASE InsertUnacknowledged(w)
  <2>1. pc'[w] = "done" /\ missed' = Missed(w, {})
    BY <1>2, <1>8 DEF InsertUnacknowledged, GoTo
  <2>2. Updating' = Updating /\ \A o : InFlight(o)' = InFlight(o)
    BY <1>1, <1>3, <2>1, FlightStays
  <2>3. ASSUME NEW b \in Budgets
        PROVE  Billed(b.org)' = Spent(b)' + missed'[b] + InFlight(b.org)'
    <3>1. missed'[b] = missed[b] + Share(w, b.org)
      BY <1>1, <2>1, MissedAdds
    <3>2. QED
      BY <1>4, <1>6, <2>2, <3>1
  <2>4. QED
    BY <1>5, <2>2, <2>3 DEF AccountInv, EveryCostAccounted
<1>9. QED
  BY <1>7, <1>8

(* What w was about to add is added or missed.                                 *)
LEMMA AccountUpdate ==
    ASSUME IInv, IInv', AccountInv, NEW w \in Workers,
           \/ UpdateSpend(w) \/ UpdateFails(w) \/ UpdateUnacknowledged(w)
           \/ (Crash(w) /\ pc[w] = "update")
    PROVE  AccountInv'
<1>1. pc[w] = "update" /\ pos[w] <= Len(log) /\ UNCHANGED <<log, usage>>
  BY DEF UpdateSpend, UpdateFails, UpdateUnacknowledged, Crash, Die, GoTo, IInv, InTopic
<1>2. /\ pc \in [Workers -> InProcess \cup {"out", "idle"}] /\ pos \in [Workers -> Nat \ {0}]
      /\ spend \in [Budgets -> [Months -> Nat]]
  BY DEF IInv, TypeOK, GroupOK, DataOK
<1>3. OthersStay(w) /\ pc'[w] # "update"
  BY <1>2 DEF OthersStay, UpdateSpend, UpdateFails, UpdateUnacknowledged, Crash,
              Die, EndSession, GoTo
<1>4. IsFiniteSet(Updating') /\ \A o : InFlight(o) = InFlight(o)' + Share(w, o)
  BY <1>1, <1>3, FlightLeaves DEF AccountInv
<1>5. \A o : Billed(o)' = Billed(o)
  BY <1>1, BilledStays
<1>6. Unwritten'
  BY <1>1 DEF AccountInv, Unwritten
<1>7. ASSUME NEW b \in Budgets
      PROVE  Spent(b)' + missed'[b] = Spent(b) + missed[b] + Share(w, b.org)
  <2>1. Spent(b) \in Nat /\ missed[b] \in Nat /\ Share(w, b.org) \in Nat
    BY <1>1, SpentType, EventType DEF Share, IInv, TypeOK, DataOK
  <2>2. CASE ChargeBudgets(w)
    <3>1. missed'[b] = missed[b] + (IF b \in Charged(w) THEN 0 ELSE Share(w, b.org))
      BY <1>1, <2>2, MissedAdds DEF ChargeBudgets
    <3>2. CASE b \in Charged(w)
      <4>1. spend'[b] = [spend[b] EXCEPT ![month] = @ + Share(w, b.org)]
        BY <2>2, <3>2 DEF ChargeBudgets, Charged, Share
      <4>2. Spent(b)' = Spent(b) + Share(w, b.org)
        BY <2>1, <4>1, SpentGrows
      <4>3. QED
        BY <2>1, <3>1, <3>2, <4>2
    <3>3. CASE b \notin Charged(w)
      <4>1. spend'[b] = spend[b]
        BY <2>2, <3>3 DEF ChargeBudgets
      <4>2. Spent(b)' = Spent(b)
        BY <4>1 DEF Spent
      <4>3. QED
        BY <2>1, <3>1, <3>3, <4>2
    <3>4. QED
      BY <3>2, <3>3
  <2>3. CASE UpdateFails(w) \/ Crash(w)
    <3>1. spend' = spend /\ missed' = Missed(w, {})
      BY <1>1, <2>3 DEF UpdateFails, UpdateUnacknowledged, Crash
    <3>2. Spent(b)' = Spent(b) /\ missed'[b] = missed[b] + Share(w, b.org)
      BY <1>1, <3>1, MissedAdds DEF Spent
    <3>3. QED
      BY <2>1, <3>2
  <2>4. QED
    BY <2>2, <2>3 DEF UpdateSpend, UpdateUnacknowledged
<1>8. ASSUME NEW b \in Budgets
      PROVE  Billed(b.org)' = Spent(b)' + missed'[b] + InFlight(b.org)'
  <2>1. Billed(b.org) = Spent(b) + missed[b] + InFlight(b.org)
    BY DEF AccountInv, EveryCostAccounted
  <2>2. Spent(b) \in Nat /\ missed[b] \in Nat /\ Share(w, b.org) \in Nat
    BY <1>1, SpentType, EventType DEF Share, IInv, TypeOK, DataOK
  <2>3. InFlight(b.org)' \in Nat
    <3>1. /\ \A v \in Flying(b.org)' : EventOf(v)' = EventOf(v) /\ v \in Flying(b.org)
          /\ \A v \in Flying(b.org) : EventOf(v).cost \in Nat
      BY <1>1, <1>3, EventType DEF OthersStay, Flying, EventOf, IInv, InTopic
    <3>2. Flights(b.org)' \in [Flying(b.org)' -> Nat]
      BY <3>1 DEF Flights
    <3>3. Flying(b.org)' \subseteq Updating'
      BY DEF Flying, Updating
    <3>4. IsFiniteSet(Flying(b.org)')
      BY <1>4, <3>3, FS_Subset
    <3>5. InFlight(b.org)' = Total(Flights(b.org)')
      BY DEF InFlight, Flights, Flying
    <3>6. QED
      BY <3>2, <3>4, <3>5, TotalType
  <2>4. QED
    BY <1>4, <1>5, <1>7, <2>1, <2>2, <2>3
<1>9. QED
  BY <1>4, <1>6, <1>8 DEF AccountInv, EveryCostAccounted

(* The accounts hold in every reachable state.                                 *)
THEOREM AccountInvariance == Spec => []AccountInv
<1>1. Init => AccountInv
  BY InitAccountInv
<1>2. IInv /\ IInv' /\ AccountInv /\ [Next]_vars => AccountInv'
  <2> SUFFICES ASSUME IInv, IInv', AccountInv, Next \/ UNCHANGED vars PROVE AccountInv'
    OBVIOUS
  <2>1. CASE Environment
    BY <2>1, EnvironmentAccountInv
  <2>2. ASSUME NEW w \in Workers,
               \/ Assign(w) \/ AutoCommit(w) \/ Leave(w) \/ EndClaim(w) \/ Handle(w) \/ Fault(w)
        PROVE  AccountInv'
    BY <2>2, AccountQuiet, AccountInsert, AccountUpdate
    DEF Handle, Fault, InsertRefused, SpendOverflows
  <2>3. CASE UNCHANGED vars
    <3>1. UNCHANGED <<log, pc, pos, usage, spend, missed>>
      BY <2>3 DEF vars, groupVars
    <3>2. \A o : Billed(o)' = Billed(o) /\ InFlight(o)' = InFlight(o)
      BY <3>1 DEF Billed, InFlight, EventOf
    <3>3. QED
      BY <3>1, <3>2 DEF AccountInv, EveryCostAccounted, Unwritten, Updating, Spent
  <2>4. QED
    BY <2>1, <2>2, <2>3 DEF Next
<1>3. QED
  BY <1>1, <1>2, Invariance, PTL DEF Spec

(* Every cost in usage_events is in a budget, about to be, or missed for a     *)
(* reason the code knows, and a budget has no cost that usage_events has not   *)
(* (main.go:165-200), however many workers, events, months and budgets there   *)
(* are and however they interleave, redeliver, fail and die.                   *)
THEOREM CostsAccounted == Spec => []EveryCostAccounted
<1>1. AccountInv => EveryCostAccounted
  BY DEF AccountInv
<1>2. QED
  BY <1>1, AccountInvariance, PTL

---------------------------------------------------------------------------------
(* Budgets of an organization that were there from the start miss nothing      *)
(* without a failure. CostsAccounted says what is recorded is charged or       *)
(* missed; the invariant here is why a cost was missed.                        *)
Unlucky(o) == \E m \in failed \cup died : log[m].org = o

NothingMissed ==
    /\ FirstBudgets \subseteq created
    /\ \A b \in FirstBudgets \cap active :
          b.scope = "org" => missed[b] = 0 \/ Unlucky(b.org)

(* A message that went wrong stays one.                                        *)
LEMMA UnluckyStays ==
    ASSUME IInv, Next, NEW o, Unlucky(o) PROVE Unlucky(o)'
<1> USE DEF IInv
<1>1. PICK m \in failed \cup died : log[m].org = o
  BY DEF Unlucky
<1>2. m \in 1..Len(log)
  BY <1>1 DEF TypeOK, HistoryOK
<1>3. CASE Environment
  <2>1. UNCHANGED <<failed, died>>
    BY <1>3 DEF Environment, CreateBudget, DeactivateBudget, NextMonth, Publish
  <2>2. log' = log \/ \E e \in Events : Publish(e)
    BY <1>3 DEF Environment, CreateBudget, DeactivateBudget, NextMonth, groupVars
  <2>3. log'[m] = log[m]
    BY <1>2, <2>2, ProduceAppends DEF Publish, TypeOK
  <2>4. QED
    BY <1>1, <2>1, <2>3 DEF Unlucky
<1>4. ASSUME NEW w \in Workers,
             \/ Assign(w) \/ AutoCommit(w) \/ Leave(w) \/ EndClaim(w)
             \/ Handle(w) \/ Fault(w)
      PROVE  Unlucky(o)'
  <2>1. log' = log
    BY <1>4, WorkerGroup
  <2>2. failed \subseteq failed' /\ died \subseteq died'
    BY <1>4
    DEF Assign, AutoCommit, Leave, EndClaim, Handle, Fault, SkipEvent, TakeEvent,
        DoneEvent, InsertUsage, InsertFails, InsertRefused, InsertUnacknowledged,
        UpdateSpend, UpdateFails, UpdateUnacknowledged, SpendOverflows,
        CheckBudgets, CheckFails, Crash, Fail
  <2>3. QED
    BY <1>1, <2>1, <2>2 DEF Unlucky
<1>5. QED
  BY <1>3, <1>4 DEF Next

(* The upsert charges every active budget of the organization; whoever leaves  *)
(* a cost out has failed or died.                                              *)
LEMMA NothingMissedStep ==
    ASSUME IInv, NothingMissed, Next, NEW b \in FirstBudgets \cap active, b.scope = "org"
    PROVE  missed'[b] = 0 \/ Unlucky(b.org)'
<1> USE DEF IInv
<1>1. b \in Budgets /\ (missed[b] = 0 \/ Unlucky(b.org))
  BY BudgetsAssumption DEF NothingMissed
<1>2. CASE Unlucky(b.org)
  BY <1>2, UnluckyStays
<1>3. CASE missed[b] = 0 /\ missed' = missed
  BY <1>3
<1>4. ASSUME NEW w \in Workers, missed[b] = 0, pos[w] <= Len(log), log' = log,
             missed' = Missed(w, {}), pos[w] \in failed' \cup died'
      PROVE  missed'[b] = 0 \/ Unlucky(b.org)'
  <2>1. CASE EventOf(w).org = b.org
    BY <1>4, <2>1 DEF Unlucky, EventOf
  <2>2. CASE EventOf(w).org # b.org
    BY <1>1, <1>4, <2>2 DEF Missed
  <2>3. QED
    BY <2>1, <2>2
<1>5. ASSUME NEW w \in Workers, missed[b] = 0, ChargeBudgets(w) PROVE missed'[b] = 0
  BY <1>1, <1>5 DEF ChargeBudgets, Charged, Missed
<1>6. ASSUME NEW w \in Workers, missed[b] = 0,
             InsertUnacknowledged(w) \/ UpdateFails(w) \/ (Crash(w) /\ pc[w] = "update")
      PROVE  missed'[b] = 0 \/ Unlucky(b.org)'
  <2>1. pos[w] <= Len(log) /\ log' = log
    BY <1>6 DEF InsertUnacknowledged, UpdateFails, Crash, GoTo, Die, InTopic
  <2>2. missed' = Missed(w, {}) /\ pos[w] \in failed' \cup died'
    BY <1>6 DEF InsertUnacknowledged, UpdateFails, Crash, Fail, InProcess
  <2>3. QED
    BY <1>4, <1>6, <2>1, <2>2
<1>7. ASSUME NEW w \in Workers,
             \/ Assign(w) \/ AutoCommit(w) \/ Leave(w) \/ EndClaim(w)
             \/ SkipEvent(w) \/ TakeEvent(w) \/ DoneEvent(w) \/ InsertUsage(w)
             \/ InsertFails(w) \/ CheckBudgets(w) \/ CheckFails(w)
             \/ (Crash(w) /\ pc[w] # "update")
      PROVE  missed' = missed
  BY <1>7
  DEF Assign, AutoCommit, Leave, EndClaim, SkipEvent, TakeEvent, DoneEvent,
      InsertUsage, InsertFails, CheckBudgets, CheckFails, Crash, dataVars
<1>8. CASE Environment
  BY <1>1, <1>2, <1>3, <1>8
  DEF Environment, CreateBudget, DeactivateBudget, NextMonth, Publish, dataVars
<1>9. ASSUME NEW w \in Workers,
             \/ Assign(w) \/ AutoCommit(w) \/ Leave(w) \/ EndClaim(w)
             \/ Handle(w) \/ Fault(w)
      PROVE  missed'[b] = 0 \/ Unlucky(b.org)'
  <2>1. CASE UpdateSpend(w) \/ UpdateUnacknowledged(w)
    BY <1>1, <1>2, <1>5, <2>1 DEF UpdateSpend, UpdateUnacknowledged
  <2>2. CASE InsertUnacknowledged(w) \/ UpdateFails(w) \/ (Crash(w) /\ pc[w] = "update")
    BY <1>1, <1>2, <1>6, <2>2
  <2>3. CASE \/ Assign(w) \/ AutoCommit(w) \/ Leave(w) \/ EndClaim(w)
             \/ SkipEvent(w) \/ TakeEvent(w) \/ DoneEvent(w) \/ InsertUsage(w)
             \/ InsertFails(w) \/ CheckBudgets(w) \/ CheckFails(w)
             \/ (Crash(w) /\ pc[w] # "update")
    BY <1>1, <1>2, <1>3, <1>7, <2>3
  <2>4. QED
    BY <1>9, <2>1, <2>2, <2>3 DEF Handle, Fault, InsertRefused, SpendOverflows
<1>10. QED
  BY <1>8, <1>9 DEF Next

(* An organization's budget that was there before the first request and is     *)
(* still active has, with what workers are about to charge, the recorded costs *)
(* of the organization, unless one of its messages failed (main.go:165-200).   *)
THEOREM SpendIsCurrent == Spec => []SpendCurrent
<1>1. Init => NothingMissed
  BY BudgetsAssumption DEF Init, NothingMissed
<1>2. IInv /\ NothingMissed /\ [Next]_vars => NothingMissed'
  <2> SUFFICES ASSUME IInv, NothingMissed, Next \/ UNCHANGED vars PROVE NothingMissed'
    OBVIOUS
  <2>1. CASE Next
    <3>1. /\ created \subseteq created'
          /\ \A b \in active' : b \in active \/ b \notin created
      BY <2>1
      DEF Next, Environment, CreateBudget, DeactivateBudget, NextMonth, Publish,
          Assign, AutoCommit, Leave, EndClaim, Handle, Fault, SkipEvent, TakeEvent,
          DoneEvent, InsertUsage, InsertFails, InsertRefused, InsertUnacknowledged,
          UpdateSpend, UpdateFails, UpdateUnacknowledged, SpendOverflows,
          CheckBudgets, CheckFails, Crash, budgetVars
    <3>2. QED
      BY <2>1, <3>1, NothingMissedStep DEF NothingMissed
  <2>2. CASE UNCHANGED vars
    BY <2>2 DEF vars, groupVars, NothingMissed, Unlucky
  <2>3. QED
    BY <2>1, <2>2
<1>3. IInv /\ AccountInv /\ NothingMissed => SpendCurrent
  <2> SUFFICES ASSUME IInv, AccountInv, NothingMissed,
                      NEW b \in FirstBudgets \cap active, b.scope = "org", ~ Unlucky(b.org)
               PROVE  Spent(b) + InFlight(b.org) = Billed(b.org)
    BY DEF SpendCurrent, Unlucky
  <2>1. b \in Budgets /\ missed[b] = 0
    BY BudgetsAssumption DEF NothingMissed
  <2>2. Billed(b.org) = Spent(b) + missed[b] + InFlight(b.org)
    BY <2>1 DEF AccountInv, EveryCostAccounted
  <2>3. Spent(b) \in Nat /\ InFlight(b.org) \in Nat
    BY <2>1, SpentType, FlightsType DEF AccountInv
  <2>4. QED
    BY <2>1, <2>2, <2>3
<1>4. Spec => []NothingMissed
  BY <1>1, <1>2, Invariance, PTL DEF Spec
<1>5. QED
  BY <1>3, <1>4, AccountInvariance, Invariance, PTL
=================================================================================
