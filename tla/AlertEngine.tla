------------------------------ MODULE AlertEngine -------------------------------
(* The alert engine (internal/evaluator/evaluator.go): the consumers of the    *)
(* alert-events topic that mail budget alerts, ask the ML service about        *)
(* anomalies and store alerts; and the gateway's routes (routes/alerts.ts)     *)
(* over which a dashboard lists the stored alerts page by page and marks them  *)
(* read while more of them are stored.                                         *)
EXTENDS ConsumerGroup, FiniteSets

CONSTANTS Orgs,     \* the organizations
          Viewer,   \* the one whose dashboard is looked at
          Filters,  \* the filters a listing may be asked for
          MaxAnomalies,  \* bound: anomalies the ML service finds
          MaxAcks        \* bound: acknowledgements

(* An event: the organization and whether it is a budget alert for which a     *)
(* rule matches, any other alert, or does not parse.                           *)
ASSUME EventsAssumption ==
    /\ Events \subseteq [org : Orgs, kind : {"budget", "other", "garbled"}]
    /\ Viewer \in Orgs
    /\ MaxAnomalies \in Nat /\ MaxAcks \in Nat

Kinds == {"event", "anomaly"}

(* The query of GET /alerts: severity and type, which an alert keeps, here its *)
(* kind; and is_read, which an acknowledgement changes. (is_read=false asks    *)
(* for the read ones: z.coerce.boolean of a non-empty text is true. Only an    *)
(* empty is_read= asks for the unread.)                                        *)
Filter == [kinds : SUBSET Kinds, read : {"any", "read", "unread"}]

NoFilter == [kinds |-> Kinds, read |-> "any"]

ASSUME FiltersAssumption == Filters \subseteq Filter

VARIABLES
    mails,      \* mails[m]: the mails sent for message m
    rows,       \* the table alert_events
    lost,       \* history: <<"mail" or "row", m>>: the step failed for m and was logged
    acks,       \* acknowledgements so far
    list        \* the dashboard's walk through GET /alerts

Alert == [copy : 1..MaxRebalances, msg : 1..MaxLog, what : Kinds,
          at : 1..(2 * MaxLog + 1), read : BOOLEAN]

dashboardVars == <<acks, list>>
vars == <<groupVars, mails, rows, lost, acks, list>>

InProcess == {"anomaly", "persist"}

EventOf(w) == log[pos[w]]

NoList == [at |-> "closed", filter |-> NoFilter, offset |-> 0, due |-> {}]

Init == /\ GroupInit
        /\ mails = [m \in 1..MaxLog |-> 0]
        /\ rows = {}
        /\ lost = {}
        /\ acks = 0
        /\ list = NoList

---------------------------------------------------------------------------------
(* The producer and the consumer group.                                        *)

Publish(e) == Produce(e) /\ UNCHANGED <<mails, rows, lost, dashboardVars>>
Assign(w) == Join(w) /\ UNCHANGED <<mails, rows, lost, dashboardVars>>
AutoCommit(w) == CommitOffset(w) /\ UNCHANGED <<mails, rows, lost, dashboardVars>>
Leave(w) == LeaveGroup(w) /\ UNCHANGED <<mails, rows, lost, dashboardVars>>
EndClaim(w) == CloseClaim(w) /\ UNCHANGED <<mails, rows, lost, dashboardVars>>
Crash(w) == Die(w) /\ UNCHANGED <<mails, rows, lost, dashboardVars>>

Group == \/ \E e \in Events : Publish(e)
         \/ \E w \in Workers : \/ Assign(w) \/ AutoCommit(w) \/ Leave(w)
                               \/ EndClaim(w) \/ Crash(w)

---------------------------------------------------------------------------------
(* ConsumeClaim and processEvent.                                              *)

TakeEvent(w) == AtMessage(w) /\ EventOf(w).kind # "garbled"

SkipEvent(w) == /\ AtMessage(w)
                /\ EventOf(w).kind = "garbled"
                /\ MarkMessage(w)
                /\ UNCHANGED <<mails, rows, lost, dashboardVars>>

(* Mutation of SendMail: the message is marked before it is processed.         *)
SendMailMarkFirst(w) ==
    /\ TakeEvent(w)
    /\ mails' = IF EventOf(w).kind = "budget" THEN [mails EXCEPT ![pos[w]] = @ + 1] ELSE mails
    /\ marked' = [marked EXCEPT ![w] = pos[w] + 1]
    /\ pc' = [pc EXCEPT ![w] = "anomaly"]
    /\ UNCHANGED <<log, sessionVars, pos, rows, lost, dashboardVars>>

(* handleBudgetAlert: the look-up of the address, the rule's mail.             *)
SendMail(w) ==
    /\ TakeEvent(w)
    /\ mails' = IF EventOf(w).kind = "budget" THEN [mails EXCEPT ![pos[w]] = @ + 1] ELSE mails
    /\ GoTo(w, "anomaly")
    /\ UNCHANGED <<rows, lost, dashboardVars>>

(* The look-up or the mail server fails: processEvent goes on.                 *)
MailFails(w) ==
    /\ TakeEvent(w) /\ EventOf(w).kind = "budget"
    /\ lost' = lost \cup {<<"mail", pos[w]>>}
    /\ GoTo(w, "anomaly")
    /\ UNCHANGED <<mails, rows, dashboardVars>>

(* INSERT with a generated id, so ON CONFLICT DO NOTHING never applies. The    *)
(* creation time is the event's own, of all copies of it; an anomaly's is now. *)
Copies(m, what) == {x \in rows : x.msg = m /\ x.what = what}

Insert(w, what) ==
    rows' = rows \cup {[msg |-> pos[w], what |-> what, copy |-> Cardinality(Copies(pos[w], what)) + 1,
                        at |-> IF what = "event" THEN 2 * pos[w] ELSE 2 * Len(log) + 1,
                        read |-> FALSE]}

(* checkAndEmitAnomaly: without an answer that is "high" or "critical", or     *)
(* without the ML service, nothing; else a second alert, stored or not.        *)
CheckAnomaly(w) ==
    /\ pc[w] = "anomaly"
    /\ \/ /\ Cardinality({x \in rows : x.what = "anomaly"}) < MaxAnomalies
          /\ Insert(w, "anomaly")
       \/ UNCHANGED rows
    /\ GoTo(w, "persist")
    /\ UNCHANGED <<mails, lost, dashboardVars>>

(* persistAlert, and the mark: ConsumeClaim marks the message when             *)
(* processEvent has returned.                                                  *)
PersistAlert(w) ==
    /\ pc[w] = "persist"
    /\ Insert(w, "event")
    /\ MarkMessage(w)
    /\ UNCHANGED <<mails, lost, dashboardVars>>

(* Mutation of PersistFails: the insert is tried again.                        *)
PersistRetries(w) ==
    /\ pc[w] = "persist"
    /\ Insert(w, "event") \/ UNCHANGED rows
    /\ UNCHANGED <<groupVars, mails, lost, dashboardVars>>

(* The insert fails, or its answer is lost: the error is logged, no more.      *)
PersistFails(w) ==
    /\ pc[w] = "persist"
    /\ Insert(w, "event") \/ UNCHANGED rows
    /\ lost' = lost \cup {<<"row", pos[w]>>}
    /\ MarkMessage(w)
    /\ UNCHANGED <<mails, dashboardVars>>

Handle(w) == \/ SkipEvent(w) \/ SendMail(w) \/ MailFails(w) \/ CheckAnomaly(w)
             \/ PersistAlert(w) \/ PersistFails(w)

---------------------------------------------------------------------------------
(* The gateway: GET /alerts, page by page, and the acknowledgements.           *)

Owned(x) == log[x.msg].org = Viewer

(* The conditions of the query, those of the listing that is open.             *)
Matches(x, filter) ==
    /\ Owned(x)
    /\ x.what \in filter.kinds
    /\ filter.read = "any" \/ x.read = (filter.read = "read")

Where(x) == Matches(x, list.filter)

Listed == {x \in rows : Where(x)}

(* Mutation of Newer: the unread ones first.                                   *)
NewerUnreadFirst(x, y) ==
    \/ ~x.read /\ y.read
    \/ x.read = y.read /\ (x.at > y.at \/ (x.at = y.at /\ x.msg > y.msg))

Newer(x, y) == x.at > y.at \/ (x.at = y.at /\ x.msg > y.msg)

(* ORDER BY created_at DESC LIMIT 1 OFFSET k: copies of one event are in any   *)
(* order.                                                                      *)
Page(k) == {x \in Listed : /\ Cardinality({y \in Listed : Newer(y, x)}) <= k
                           /\ k < Cardinality({y \in Listed : ~Newer(x, y)})}

Alerts(S) == {<<x.msg, x.what>> : x \in S}

OpenList(filter) ==
    /\ list.at = "closed"
    /\ list' = [at |-> "open", filter |-> filter, offset |-> 0,
                due |-> Alerts({x \in rows : Matches(x, filter)})]
    /\ UNCHANGED <<groupVars, mails, rows, lost, acks>>

(* One GET: the client goes on until a page is empty. (The total that comes    *)
(* with a page is counted by a query before it: a client that stops there may  *)
(* miss an alert when one was stored between the two.)                         *)
NextPage ==
    /\ list.at = "open"
    /\ IF Page(list.offset) = {}
          THEN list' = [list EXCEPT !.at = "end", !.offset = 0]
          ELSE \E x \in Page(list.offset) :
                 list' = [list EXCEPT !.offset = @ + 1, !.due = @ \ Alerts({x})]
    /\ UNCHANGED <<groupVars, mails, rows, lost, acks>>

CloseList == /\ list.at = "end"
             /\ list' = NoList
             /\ UNCHANGED <<groupVars, mails, rows, lost, acks>>

MarkRead(S) == /\ acks < MaxAcks
               /\ acks' = acks + 1
               /\ rows' = (rows \ S) \cup {[x EXCEPT !.read = TRUE] : x \in S}
               /\ UNCHANGED <<groupVars, mails, lost, list>>

Acknowledge(x) == Owned(x) /\ ~x.read /\ MarkRead({x})

(* POST /alerts/acknowledge-all, of every severity or of one.                  *)
AcknowledgeAll(what) == LET S == {x \in rows : Owned(x) /\ ~x.read /\ x.what \in what}
                        IN  S # {} /\ MarkRead(S)

Dashboard == \/ \E filter \in Filters : OpenList(filter)
             \/ NextPage \/ CloseList
             \/ \E x \in rows : Acknowledge(x)
             \/ \E what \in {Kinds, {"event"}, {"anomaly"}} : AcknowledgeAll(what)

Next == Group \/ (\E w \in Workers : Handle(w)) \/ Dashboard

Spec == Init /\ [][Next]_vars

---------------------------------------------------------------------------------
TypeOK == /\ GroupOK(InProcess)
          /\ mails \in [1..MaxLog -> 0..MaxRebalances]
          /\ rows \subseteq Alert
          /\ lost \subseteq {"mail", "row"} \X (1..MaxLog)
          /\ acks \in 0..MaxAcks
          /\ list \in [at : {"closed", "open", "end"}, filter : Filter, offset : Nat,
                       due : SUBSET ((1..MaxLog) \X Kinds)]

(* What the group has committed past reached the people it is for: every alert *)
(* is stored for the dashboard and every budget alert was mailed, unless the   *)
(* failure of just that step was logged (evaluator.go:91-164), the message     *)
(* does not parse or was passed over at the group's start.                     *)
NoAlertLost ==
    \A m \in 1..Len(log) :
        m < committed /\ log[m].kind # "garbled" /\ m \notin passed =>
            /\ Copies(m, "event") # {} \/ <<"row", m>> \in lost
            /\ log[m].kind = "budget" => mails[m] > 0 \/ <<"mail", m>> \in lost

(* An alert is stored, and mailed, at most once per assignment of the          *)
(* partition: nothing but a redelivery repeats one, though the insert's        *)
(* conflict clause cannot keep a copy out (evaluator.go:154-163).              *)
OneCopyPerDelivery ==
    \A m \in 1..Len(log) :
        /\ Cardinality(Copies(m, "event")) <= rebalances
        /\ mails[m] <= rebalances

(* A dashboard that pages until nothing comes has then seen every alert there  *)
(* was when it began, whatever was stored, delivered again or acknowledged in  *)
(* between: the offsets may show one twice and let none slip through. A list   *)
(* of unread alerts is the exception, see the next (alerts.ts:14-53).          *)
PagingMissesNothing ==
    list.at = "end" /\ list.filter.read # "unread" => list.due = {}

(* The same of unread alerts alone. An acknowledgement takes an alert out of   *)
(* the list, the ones after it move up, and one moves past the next offset.    *)
UnreadPagingMissesNothing == list.at = "end" => list.due = {}
=================================================================================
