------------------------------ MODULE ConsumerGroup -----------------------------
(* The way every Go service of the platform reads Kafka: a sarama consumer     *)
(* group whose handler takes the messages of a claim one by one and marks each *)
(* when it is done (audit-service, cost-engine, alert-engine and               *)
(* analytics-processor). The services' modules extend this one with what they  *)
(* do to a message.                                                            *)
(*                                                                             *)
(* The proxy keys messages by organization, so one organization's events are   *)
(* in one partition: the model is one partition and the organizations in it.   *)
(* A worker is a replica's handler goroutine for the partition. The partition  *)
(* has at most one owner, but a worker that lost it (expired session) goes on  *)
(* with the message at hand and the ones it has buffered, so two workers may   *)
(* handle messages at the same time, even the same message.                    *)
EXTENDS Integers, Sequences

CONSTANTS Workers,        \* the consumers
          Nobody,         \* no worker
          Events,         \* the kinds of published messages
          MaxLog,         \* bound: messages published to the partition
          MaxRebalances   \* bound: times the partition is (re)assigned

ASSUME NobodyAssumption == Nobody \notin Workers
ASSUME BoundsAssumption == MaxLog \in Nat /\ MaxRebalances \in Nat

VARIABLES
    log,         \* the partition: a sequence of Events
    committed,   \* the group's committed position, the next message to read; 0: none
    owner,       \* the worker the partition is assigned to
    rebalances,  \* times it was assigned
    pc,          \* pc[w]: where w's handler is: "out", "idle" or in a message
    pos,         \* pos[w]: the message w handles, or will handle next
    marked,      \* marked[w]: the position w's session has marked; 0: none
    passed       \* history: messages passed over by a start at the newest offset

sessionVars == <<committed, owner, rebalances, passed>>
groupVars == <<log, committed, owner, rebalances, pc, pos, marked, passed>>

GroupInit == /\ log = << >>
             /\ committed = 0
             /\ owner = Nobody
             /\ rebalances = 0
             /\ pc = [w \in Workers |-> "out"]
             /\ pos = [w \in Workers |-> 1]
             /\ marked = [w \in Workers |-> 0]
             /\ passed = {}

Produce(e) ==
    /\ Len(log) < MaxLog
    /\ log' = Append(log, e)
    /\ UNCHANGED <<sessionVars, pc, pos, marked>>

(* Mutation of Join: "no committed position" is taken for a position.          *)
JoinAtCommitted(w) ==
    /\ rebalances < MaxRebalances
    /\ pc[w] = "out"
    /\ rebalances' = rebalances + 1
    /\ owner' = w
    /\ pc' = [pc EXCEPT ![w] = "idle"]
    /\ pos' = [pos EXCEPT ![w] = committed]
    /\ marked' = [marked EXCEPT ![w] = 0]
    /\ UNCHANGED <<log, committed, passed>>

(* The group assigns the partition to w, which may take it from a worker that  *)
(* is still busy. Reading starts at the committed position, or behind the      *)
(* newest message when nothing was ever committed (Offsets.Initial).           *)
Join(w) ==
    /\ rebalances < MaxRebalances
    /\ pc[w] = "out"
    /\ rebalances' = rebalances + 1
    /\ owner' = w
    /\ pc' = [pc EXCEPT ![w] = "idle"]
    /\ pos' = [pos EXCEPT ![w] = IF committed = 0 THEN Len(log) + 1 ELSE committed]
    /\ marked' = [marked EXCEPT ![w] = 0]
    /\ passed' = IF committed = 0 THEN passed \cup 1..Len(log) ELSE passed
    /\ UNCHANGED <<log, committed>>

(* The session's periodic offset commit; the broker refuses one of a worker    *)
(* that no longer owns the partition.                                          *)
CommitOffset(w) ==
    /\ owner = w
    /\ marked[w] > committed
    /\ committed' = marked[w]
    /\ UNCHANGED <<log, owner, rebalances, pc, pos, marked, passed>>

(* w's claim is over: what it read and marked without a commit is forgotten.   *)
EndSession(w) == /\ pc' = [pc EXCEPT ![w] = "out"]
                 /\ pos' = [pos EXCEPT ![w] = 1]
                 /\ marked' = [marked EXCEPT ![w] = 0]

(* Shutdown between two messages: the session commits its marks and leaves.    *)
LeaveGroup(w) ==
    /\ owner = w
    /\ pc[w] = "idle"
    /\ rebalances < MaxRebalances
    /\ owner' = Nobody
    /\ committed' = IF marked[w] > committed THEN marked[w] ELSE committed
    /\ EndSession(w)
    /\ UNCHANGED <<log, rebalances, passed>>

(* A worker that lost the partition sees its message channel closed.           *)
CloseClaim(w) ==
    /\ owner # w
    /\ pc[w] = "idle"
    /\ EndSession(w)
    /\ UNCHANGED <<log, sessionVars>>

(* The process dies: its marks are lost.                                       *)
Die(w) ==
    /\ rebalances < MaxRebalances
    /\ pc[w] # "out"
    /\ owner' = IF owner = w THEN Nobody ELSE owner
    /\ EndSession(w)
    /\ UNCHANGED <<log, committed, rebalances, passed>>

---------------------------------------------------------------------------------
(* The loop of ConsumeClaim.                                                   *)

AtMessage(w) == pc[w] = "idle" /\ pos[w] <= Len(log)

GoTo(w, label) == /\ pc' = [pc EXCEPT ![w] = label]
                  /\ UNCHANGED <<log, sessionVars, pos, marked>>

(* sess.MarkMessage of the message at hand, and on to the next.                *)
MarkMessage(w) ==
    /\ marked' = [marked EXCEPT ![w] = pos[w] + 1]
    /\ pos' = [pos EXCEPT ![w] = pos[w] + 1]
    /\ pc' = [pc EXCEPT ![w] = "idle"]
    /\ UNCHANGED <<log, sessionVars>>

(* The variables of the group have their types; Labels are the places in a     *)
(* message a handler can be.                                                   *)
GroupOK(Labels) ==
    /\ log \in Seq(Events)
    /\ committed \in Nat /\ rebalances \in Nat
    /\ owner \in Workers \cup {Nobody}
    /\ pc \in [Workers -> Labels \cup {"out", "idle"}]
    /\ pos \in [Workers -> Nat \ {0}]
    /\ marked \in [Workers -> Nat]
    /\ passed \subseteq 1..Len(log)
=================================================================================
