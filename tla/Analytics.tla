------------------------------- MODULE Analytics --------------------------------
(* The analytics processor (internal/consumer/consumer.go, writer, aggregator) *)
(* with its ClickHouse tables (schemas/usage_events_analytics.sql), and the    *)
(* gateway's usage queries on them (routes/usage.ts). A message is marked when *)
(* it enters the in-memory batch, which one handler keeps for all the claims   *)
(* of its session; a batch becomes rows, and a materialized row per day and    *)
(* per hour, when it is flushed.                                               *)
EXTENDS ConsumerGroup, Sums

CONSTANTS BatchSize,      \* flushed at this size
          MaxClock,       \* bound: half hours that pass
          Window,         \* half hours a backfill looks back: 24 hours
          MaxBackfills,   \* bound: starts of a processor that backfill
          MaxRaces        \* bound: races with the session's claims of other partitions

(* An event parses or not, and its row is accepted by the batch or not.        *)
ASSUME EventsAssumption ==
    /\ Events \subseteq {"ok", "refused", "garbled"}
    /\ BatchSize \in Nat \ {0} /\ MaxClock \in Nat \ {0} /\ Window \in Nat
    /\ MaxBackfills \in Nat /\ MaxRaces \in Nat

VARIABLES
    clock,      \* the time, in half hours
    stamp,      \* stamp[m]: the time of message m
    batch,      \* batch[w]: the messages in w's batch
    raw,        \* raw[m]: the rows of message m in usage_events_analytics
    daily,      \* daily[d]: the rows of daily_cost_summary of day d, as request counts
    hourly,     \* hourly[h]: the rows of usage_hourly_agg of hour h, in insertion order
    backfills,  \* backfills so far
    races,      \* races so far
    lost        \* history: messages lost to a crash, a failed insert or a race

Messages == 1..MaxLog
Hour(t) == (t + 1) \div 2
Hours == 1..Hour(MaxClock)

tableVars == <<raw, daily, hourly>>
timeVars == <<clock, stamp, backfills>>
lossVars == <<races, lost>>
vars == <<groupVars, batch, tableVars, timeVars, lossVars>>

EventOf(w) == log[pos[w]]

Init == /\ GroupInit
        /\ clock = 1
        /\ stamp = [m \in Messages |-> 1]
        /\ batch = [w \in Workers |-> {}]
        /\ raw = [m \in Messages |-> 0]
        /\ daily = << >>
        /\ hourly = [h \in Hours |-> << >>]
        /\ backfills = 0
        /\ races = 0
        /\ lost = {}

Publish(e) == /\ Produce(e)
              /\ stamp' = [stamp EXCEPT ![Len(log) + 1] = clock]
              /\ UNCHANGED <<batch, tableVars, clock, backfills, lossVars>>

Tick == /\ clock < MaxClock
        /\ clock' = clock + 1
        /\ UNCHANGED <<groupVars, batch, tableVars, stamp, backfills, lossVars>>

---------------------------------------------------------------------------------
(* The tables.                                                                 *)

(* The messages of hour h in B.                                                *)
InHour(B, h) == {m \in B : Hour(stamp[m]) = h}

RowsOf(B) == Total([m \in B |-> raw[m]])

AppendCount(s, n) == IF n = 0 THEN s ELSE Append(s, n)

(* Write: one block; its rows, and one row for each materialized view's key. A *)
(* row the driver refuses is logged, and leaves no block to send.              *)
InsertBlock(B) ==
    /\ \A m \in B : log[m] # "refused"
    /\ raw' = [m \in Messages |-> IF m \in B THEN raw[m] + 1 ELSE raw[m]]
    /\ daily' = AppendCount(daily, Cardinality(B))
    /\ hourly' = [h \in Hours |-> AppendCount(hourly[h], Cardinality(InHour(B, h)))]

(* Mutation of MergeDaily: the engine keeps the last row, as the other one.    *)
MergeDailyReplacing == /\ Len(daily) > 1
                       /\ daily' = <<daily[Len(daily)]>>
                       /\ UNCHANGED <<groupVars, batch, raw, hourly, timeVars, lossVars>>

(* SummingMergeTree: parts are merged at any time, rows of a key are added up. *)
MergeDaily == /\ Len(daily) > 1
              /\ daily' = <<Total(daily)>>
              /\ UNCHANGED <<groupVars, batch, raw, hourly, timeVars, lossVars>>

(* ReplacingMergeTree, at any time and in the aggregator's OPTIMIZE: the last  *)
(* row of a key stays.                                                         *)
MergeHourly == \E h \in Hours :
    /\ Len(hourly[h]) > 1
    /\ hourly' = [hourly EXCEPT ![h] = <<@[Len(@)]>>]
    /\ UNCHANGED <<groupVars, batch, raw, daily, timeVars, lossVars>>

(* BackfillLastNHours at a start: a row for each hour with rows in the window, *)
(* which starts anywhere in its first hour.                                    *)
Backfill ==
    /\ backfills < MaxBackfills
    /\ backfills' = backfills + 1
    /\ hourly' = [h \in Hours |->
                    AppendCount(hourly[h],
                        RowsOf({m \in InHour(1..Len(log), h) : stamp[m] + Window >= clock}))]
    /\ UNCHANGED <<groupVars, batch, raw, daily, clock, stamp, lossVars>>

---------------------------------------------------------------------------------
(* The handler and its session.                                                *)

Unchanged == UNCHANGED <<tableVars, timeVars, lossVars>>

(* Setup begins with an empty batch.                                           *)
Assign(w) == Join(w) /\ UNCHANGED batch /\ Unchanged
AutoCommit(w) == CommitOffset(w) /\ UNCHANGED batch /\ Unchanged

(* Mutation of SessionEnds: without Cleanup's flush.                           *)
SessionEndsAnyhow(w) == /\ LeaveGroup(w) \/ CloseClaim(w)
                        /\ batch' = [batch EXCEPT ![w] = {}]
                        /\ Unchanged

(* Cleanup flushes the batch (Flush) before the session commits its marks and  *)
(* ends, by a shutdown or because the partition was taken away.                *)
SessionEnds(w) == /\ batch[w] = {}
                  /\ LeaveGroup(w) \/ CloseClaim(w)
                  /\ UNCHANGED batch /\ Unchanged

(* The process dies, and its batch with it.                                    *)
Crash(w) == /\ Die(w)
            /\ lost' = lost \cup batch[w]
            /\ batch' = [batch EXCEPT ![w] = {}]
            /\ UNCHANGED <<tableVars, timeVars, races>>

SkipEvent(w) == /\ AtMessage(w)
                /\ EventOf(w) = "garbled"
                /\ MarkMessage(w)
                /\ UNCHANGED batch /\ Unchanged

(* A message is marked as soon as it is in the batch; a full batch is flushed  *)
(* before the next.                                                            *)
TakeEvent(w) ==
    /\ AtMessage(w)
    /\ EventOf(w) # "garbled"
    /\ Cardinality(batch[w]) < BatchSize
    /\ batch' = [batch EXCEPT ![w] = @ \cup {pos[w]}]
    /\ MarkMessage(w)
    /\ Unchanged

(* Another claim appends at the same time, or empties the slice: the message   *)
(* is marked and in no batch.                                                  *)
RacedTake(w) ==
    /\ AtMessage(w)
    /\ EventOf(w) # "garbled"
    /\ races < MaxRaces
    /\ races' = races + 1
    /\ lost' = lost \cup {pos[w]}
    /\ MarkMessage(w)
    /\ UNCHANGED <<batch, tableVars, timeVars>>

(* flush, of a full batch, by the ticker or by Cleanup.                        *)
Flush(w) == /\ batch[w] # {}
            /\ InsertBlock(batch[w])
            /\ batch' = [batch EXCEPT ![w] = {}]
            /\ UNCHANGED <<groupVars, timeVars, lossVars>>

(* Another claim's append puts back the slice that was just written, or not.   *)
RacedFlush(w) == /\ batch[w] # {}
                 /\ races < MaxRaces
                 /\ races' = races + 1
                 /\ InsertBlock(batch[w]) \/ UNCHANGED tableVars
                 /\ UNCHANGED <<groupVars, batch, timeVars, lost>>

(* The insert fails, for one refused row or altogether, or its answer is lost: *)
(* the batch is emptied all the same.                                          *)
FlushFails(w) == /\ batch[w] # {}
                 /\ InsertBlock(batch[w]) \/ UNCHANGED tableVars
                 /\ lost' = lost \cup batch[w]
                 /\ batch' = [batch EXCEPT ![w] = {}]
                 /\ UNCHANGED <<groupVars, timeVars, races>>

Consume(w) == \/ Assign(w) \/ AutoCommit(w) \/ SessionEnds(w) \/ Crash(w)
              \/ SkipEvent(w) \/ TakeEvent(w) \/ RacedTake(w)
              \/ Flush(w) \/ RacedFlush(w) \/ FlushFails(w)

Next == \/ \E e \in Events : Publish(e)
        \/ Tick
        \/ \E w \in Workers : Consume(w)
        \/ MergeDaily \/ MergeHourly \/ Backfill

Spec == Init /\ [][Next]_vars

---------------------------------------------------------------------------------
TypeOK == /\ GroupOK({})
          /\ clock \in 1..MaxClock /\ stamp \in [Messages -> 1..MaxClock]
          /\ batch \in [Workers -> SUBSET Messages]
          /\ raw \in [Messages -> Nat]
          /\ daily \in Seq(Nat \ {0})
          /\ hourly \in [Hours -> Seq(Nat \ {0})]
          /\ backfills \in 0..MaxBackfills /\ races \in 0..MaxRaces
          /\ lost \subseteq Messages

(* What the group has committed past is in ClickHouse or in a live batch,      *)
(* unless a crash, a failed insert or a race took it, it was refused or passed *)
(* over at the group's start; and only a redelivery or a race repeats a row    *)
(* (consumer.go:90-146).                                                       *)
EveryRowAccounted ==
    \A m \in 1..Len(log) :
        /\ m < committed /\ log[m] = "ok" =>
              raw[m] > 0 \/ m \in lost \cup passed \/ \E w \in Workers : m \in batch[w]
        /\ raw[m] <= rebalances + races

(* What GET /usage answers: the sum over the rows of daily_cost_summary.       *)
UsageOf == Total(daily)

(* The rows of the dashboard's tables tell no more than there is: the daily    *)
(* sums are exact however the parts are merged, and no hour the ML service     *)
(* trains on is above its rows, though the view and a backfill both write it   *)
(* (usage_events_analytics.sql:30-86, hourly.go:67-98, usage.ts:50-70).        *)
TablesAgree ==
    /\ UsageOf = RowsOf(1..Len(log))
    /\ \A h \in Hours : \A i \in 1..Len(hourly[h]) :
          hourly[h][i] <= RowsOf(InHour(1..Len(log), h))

(* hourly.go:5: "this aggregator backfills any gaps on startup": the row it    *)
(* puts in the place of an hour's others is that of all the hour's events.     *)
BackfillFillsGaps ==
    [][\A h \in Hours : backfills' > backfills /\ hourly'[h] # hourly[h] =>
          hourly'[h][Len(hourly'[h])] = RowsOf(InHour(1..Len(log), h))]_vars
=================================================================================
