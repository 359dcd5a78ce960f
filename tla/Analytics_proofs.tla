---------------------------- MODULE Analytics_proofs ----------------------------
(* Proofs about Analytics for every set of workers and events, every size of   *)
(* the batch and every bound.                                                  *)
EXTENDS Analytics, ConsumerGroup_proofs

---------------------------------------------------------------------------------
(* The inductive invariant.                                                    *)

(* A batch holds messages its handler is past, and a handler that is out none. *)
Held == \A w \in Workers :
            /\ \A m \in batch[w] : m <= Len(log) /\ m < pos[w] /\ log[m] # "garbled"
            /\ pc[w] = "out" => batch[w] = {}

(* Every position is a promise: what is behind it is in ClickHouse, in a live  *)
(* batch, or known to be lost.                                                 *)
Accounted(m) == raw[m] > 0 \/ m \in lost \cup passed \/ \E w \in Workers : m \in batch[w]

Promised == \A m \in 1..Len(log) : Covered(m) /\ log[m] = "ok" => Accounted(m)

(* The handlers that may still write a row of message m. Each assignment lets  *)
(* one more come to it, and only a race lets one write it twice.               *)
Ahead(m) == {w \in Workers : pc[w] # "out" /\ (m \in batch[w] \/ pos[w] <= m)}

Counted ==
    /\ IsFiniteSet({w \in Workers : pc[w] # "out"})
    /\ \A m \in Messages : raw[m] + Cardinality(Ahead(m)) <= rebalances + races

(* The tables: what was not published has no row, and the materialized rows    *)
(* tell of the rows there are.                                                 *)
Tabled == /\ \A m \in Messages : m > Len(log) => raw[m] = 0
          /\ TablesAgree

IInv == TypeOK /\ InTopic /\ Len(log) <= MaxLog /\ Held /\ Promised /\ Counted /\ Tabled

---------------------------------------------------------------------------------
(* The topic, and the types of what is counted.                                *)

LEMMA TopicFacts ==
    ASSUME IInv
    PROVE  /\ Len(log) \in Nat /\ MaxLog \in Nat /\ Len(log) <= MaxLog
           /\ Messages = 1..MaxLog /\ \A m \in 1..Len(log) : m \in Messages
           /\ GroupOK({}) /\ InTopic
           /\ rebalances \in Nat /\ races \in Nat
           /\ raw \in [Messages -> Nat] /\ lost \subseteq Messages
           /\ \A w \in Workers : batch[w] \subseteq 1..Len(log)
<1>1. Len(log) \in Nat /\ MaxLog \in Nat /\ Len(log) <= MaxLog /\ Messages = 1..MaxLog
  BY LenProperties, BoundsAssumption DEF IInv, TypeOK, GroupOK, Messages
<1>2. GroupOK({}) /\ InTopic /\ rebalances \in Nat
  BY DEF IInv, TypeOK, GroupOK
<1>3. races \in Nat /\ raw \in [Messages -> Nat] /\ lost \subseteq Messages
  BY EventsAssumption DEF IInv, TypeOK
<1>4. ASSUME NEW w \in Workers PROVE batch[w] \subseteq 1..Len(log)
  BY <1>1 DEF IInv, TypeOK, Held
<1>5. QED
  BY <1>1, <1>2, <1>3, <1>4

LEMMA AheadFinite ==
    ASSUME Counted, NEW m
    PROVE  IsFiniteSet(Ahead(m)) /\ Cardinality(Ahead(m)) \in Nat
<1>1. Ahead(m) \subseteq {w \in Workers : pc[w] # "out"}
  BY DEF Ahead
<1>2. QED
  BY <1>1, FS_Subset, FS_CardinalityType DEF Counted

(* A step that is no assignment lets no handler come to a message again; one   *)
(* that writes a row of a message has left it behind, or was raced.            *)
LEMMA CountedFrame ==
    ASSUME Counted, raw \in [Messages -> Nat], raw' \in [Messages -> Nat],
           rebalances + races \in Nat, (rebalances + races)' \in Nat,
           (rebalances + races)' >= rebalances + races,
           \A w \in Workers : pc[w] = "out" => pc'[w] = "out",
           \A m \in Messages :
              /\ Ahead(m)' \subseteq Ahead(m)
              /\ \/ raw'[m] = raw[m]
                 \/ /\ raw'[m] = raw[m] + 1
                    /\ Ahead(m)' # Ahead(m) \/ (rebalances + races)' > rebalances + races
    PROVE  Counted'
<1>1. IsFiniteSet({w \in Workers : pc[w] # "out"})'
  <2>1. {w \in Workers : pc[w] # "out"}' \subseteq {w \in Workers : pc[w] # "out"}
    OBVIOUS
  <2>2. QED
    BY <2>1, FS_Subset DEF Counted
<1>2. ASSUME NEW m \in Messages
      PROVE  (raw[m] + Cardinality(Ahead(m)) <= rebalances + races)'
  <2>1. /\ IsFiniteSet(Ahead(m)) /\ Cardinality(Ahead(m)) \in Nat
        /\ raw[m] \in Nat /\ raw[m] + Cardinality(Ahead(m)) <= rebalances + races
    BY AheadFinite DEF Counted
  <2>2. Ahead(m)' \subseteq Ahead(m)
    OBVIOUS
  <2>3. /\ IsFiniteSet(Ahead(m)') /\ Cardinality(Ahead(m)') <= Cardinality(Ahead(m))
        /\ Ahead(m)' # Ahead(m) => Cardinality(Ahead(m)') # Cardinality(Ahead(m))
    BY <2>1, <2>2, FS_Subset
  <2>4. Cardinality(Ahead(m)') \in Nat
    BY <2>3, FS_CardinalityType
  <2>5. CASE raw'[m] = raw[m]
    BY <2>1, <2>3, <2>4, <2>5
  <2>6. CASE raw'[m] = raw[m] + 1 /\ Ahead(m)' # Ahead(m)
    BY <2>1, <2>3, <2>4, <2>6
  <2>7. CASE raw'[m] = raw[m] + 1 /\ (rebalances + races)' > rebalances + races
    BY <2>1, <2>3, <2>4, <2>7
  <2>8. QED
    BY <2>5, <2>6, <2>7
<1>3. QED
  BY <1>1, <1>2 DEF Counted

(* A step that leaves the group and the batches alone.                         *)
LEMMA QuietAhead ==
    ASSUME UNCHANGED <<groupVars, batch>>
    PROVE  /\ \A m : Ahead(m)' = Ahead(m) /\ (Covered(m)' <=> Covered(m))
           /\ UNCHANGED <<log, rebalances, pc, pos, passed, batch>>
           /\ Held => Held'
BY DEF groupVars, Ahead, Covered, Held

---------------------------------------------------------------------------------
(* The tables.                                                                 *)

Counts == Seq(Nat \ {0})

LEMMA AppendedTotal ==
    \A s \in Counts, n \in Nat :
        /\ AppendCount(s, n) \in Counts
        /\ Total(AppendCount(s, n)) = Total(s) + n
        /\ Total(s) \in Nat
<1> SUFFICES ASSUME NEW s \in Counts, NEW n \in Nat
             PROVE  /\ AppendCount(s, n) \in Counts
                    /\ Total(AppendCount(s, n)) = Total(s) + n
                    /\ Total(s) \in Nat
  OBVIOUS
<1> DEFINE S == 1..Len(s)
           a == Append(s, n)
<1>1. Len(s) \in Nat /\ s \in [S -> Nat]
  BY LenProperties, ElementOfSeq DEF Counts
<1>2. IsFiniteSet(S)
  BY <1>1, IntervalFinite
<1>3. Total(s) \in Nat
  BY <1>1, <1>2, TotalType
<1>4. CASE n = 0
  BY <1>3, <1>4 DEF AppendCount
<1>5. CASE n # 0
  <2>1. /\ a \in Counts /\ Len(a) = Len(s) + 1 /\ a[Len(s) + 1] = n
        /\ \A i \in S : a[i] = s[i]
    BY <1>5, AppendProperties DEF Counts
  <2>2. S \cup {Len(s) + 1} = 1..(Len(s) + 1)
    BY <1>1
  <2>3. a \in [S \cup {Len(s) + 1} -> Nat]
    <3>1. a \in Seq(Nat)
      BY <1>1, AppendProperties DEF Counts
    <3>2. a \in [1..(Len(s) + 1) -> Nat]
      BY <2>1, <3>1, LenProperties
    <3>3. QED
      BY <2>2, <3>2
  <2>4. Len(s) + 1 \notin S
    BY <1>1
  <2>5. Grows(S, s, Len(s) + 1, n, a)
    BY <1>1, <1>2, <2>1, <2>3, <2>4 DEF Grows
  <2>6. Total(a) = Total(s) + n
    BY <2>5, TotalStep
  <2>7. QED
    BY <1>3, <1>5, <2>1, <2>6 DEF AppendCount
<1>6. QED
  BY <1>4, <1>5

LEMMA AppendedBelow ==
    \A s \in Counts, n \in Nat, k \in Nat :
        n <= k /\ (\A i \in 1..Len(s) : s[i] <= k)
        => \A i \in 1..Len(AppendCount(s, n)) : AppendCount(s, n)[i] <= k
<1> SUFFICES ASSUME NEW s \in Counts, NEW n \in Nat, NEW k \in Nat,
                    n <= k, \A i \in 1..Len(s) : s[i] <= k,
                    NEW i \in 1..Len(AppendCount(s, n))
             PROVE  AppendCount(s, n)[i] <= k
  OBVIOUS
<1>1. CASE n = 0
  BY <1>1 DEF AppendCount
<1>2. CASE n # 0
  <2>1. Len(s) \in Nat
    BY LenProperties DEF Counts
  <2>2. /\ Len(Append(s, n)) = Len(s) + 1 /\ Append(s, n)[Len(s) + 1] = n
        /\ \A j \in 1..Len(s) : Append(s, n)[j] = s[j]
    BY <1>2, AppendProperties DEF Counts
  <2>3. i \in 1..Len(s) \/ i = Len(s) + 1
    BY <1>2, <2>1, <2>2 DEF AppendCount
  <2>4. QED
    BY <1>2, <2>2, <2>3 DEF AppendCount
<1>3. QED
  BY <1>1, <1>2

(* The sum of one count is that count; of counts there are it is not 0.        *)
LEMMA OneCount ==
    \A n \in Nat \ {0} : <<n>> \in Counts /\ Len(<<n>>) = 1 /\ Total(<<n>>) = n
<1> SUFFICES ASSUME NEW n \in Nat \ {0}
             PROVE  <<n>> \in Counts /\ Len(<<n>>) = 1 /\ Total(<<n>>) = n
  OBVIOUS
<1>1. << >> \in Counts /\ Total(<< >>) = 0
  <2>1. \A x \in DOMAIN << >> : << >>[x] = 0
    OBVIOUS
  <2>2. Total(<< >>) = 0
    BY <2>1, TotalZero
  <2>3. QED
    BY <2>2, EmptySeq DEF Counts
<1>2. AppendCount(<< >>, n) = <<n>>
  BY DEF AppendCount
<1>3. Total(<<n>>) = 0 + n
  BY <1>1, <1>2, AppendedTotal
<1>4. <<n>> \in Counts /\ Len(<<n>>) = 1
  BY DEF Counts
<1>5. QED
  BY <1>3, <1>4

LEMMA CountsPositive ==
    \A s \in Counts : Len(s) > 0 => Total(s) \in Nat \ {0} /\ s[Len(s)] \in Nat \ {0}
<1> SUFFICES ASSUME NEW s \in Counts, Len(s) > 0
             PROVE  Total(s) \in Nat \ {0} /\ s[Len(s)] \in Nat \ {0}
  OBVIOUS
<1>1. Len(s) \in Nat /\ s \in [1..Len(s) -> Nat] /\ s[Len(s)] \in Nat \ {0}
  BY LenProperties, ElementOfSeq DEF Counts
<1>2. IsFiniteSet(1..Len(s))
  BY <1>1, IntervalFinite
<1>3. Cardinality({Len(s)}) <= Total(s)
  <2>1. {Len(s)} \subseteq 1..Len(s) /\ \A x \in {Len(s)} : s[x] > 0
    BY <1>1
  <2>2. QED
    BY <1>1, <1>2, <2>1, TotalCovers
<1>4. Cardinality({Len(s)}) = 1
  BY FS_Singleton
<1>5. Total(s) \in Nat
  BY <1>1, <1>2, TotalType
<1>6. QED
  BY <1>1, <1>3, <1>4, <1>5

(* The rows of the messages of a part of the topic.                            *)
LEMMA RowsCounted ==
    \A n \in Nat : \A B, r, f :
        /\ n <= MaxLog /\ B \subseteq 1..n
        /\ r \in [Messages -> Nat] /\ f = [m \in B |-> r[m]]
        => IsFiniteSet(B) /\ f \in [B -> Nat] /\ Total(f) \in Nat
<1> SUFFICES ASSUME NEW n \in Nat, NEW B, NEW r, NEW f, n <= MaxLog, B \subseteq 1..n,
                    r \in [Messages -> Nat], f = [m \in B |-> r[m]]
             PROVE  IsFiniteSet(B) /\ f \in [B -> Nat] /\ Total(f) \in Nat
  OBVIOUS
<1>1. IsFiniteSet(B)
  BY IntervalFinite, FS_Subset
<1>2. B \subseteq Messages
  BY BoundsAssumption DEF Messages
<1>3. f \in [B -> Nat]
  BY <1>2
<1>4. QED
  BY <1>1, <1>3, TotalType

(* More rows of more messages count for more.                                  *)
LEMMA RowsGrow ==
    \A n \in Nat : \A B, C, r, q, f, g :
        /\ n <= MaxLog /\ B \subseteq C /\ C \subseteq 1..n
        /\ r \in [Messages -> Nat] /\ q \in [Messages -> Nat] /\ \A m \in B : r[m] <= q[m]
        /\ f = [m \in B |-> r[m]] /\ g = [m \in C |-> q[m]]
        => Total(f) <= Total(g)
<1> TAKE n \in Nat
<1> TAKE B, C, r, q, f, g
<1> HAVE /\ n <= MaxLog /\ B \subseteq C /\ C \subseteq 1..n
         /\ r \in [Messages -> Nat] /\ q \in [Messages -> Nat] /\ \A m \in B : r[m] <= q[m]
         /\ f = [m \in B |-> r[m]] /\ g = [m \in C |-> q[m]]
<1>1. IsFiniteSet(C) /\ g \in [C -> Nat]
  BY RowsCounted
<1>2. f \in [B -> Nat]
  <2>1. B \subseteq 1..n
    OBVIOUS
  <2>2. QED
    BY <2>1, RowsCounted
<1>3. \A x \in B : f[x] <= g[x]
  OBVIOUS
<1>4. QED
  BY <1>1, <1>2, <1>3, TotalMonotone

LEMMA TableTypes ==
    ASSUME IInv
    PROVE  /\ daily \in Counts /\ hourly \in [Hours -> Counts]
           /\ \A m \in Messages : m > Len(log) => raw[m] = 0
           /\ Total(daily) = Total([m \in 1..Len(log) |-> raw[m]])
           /\ \A h \in Hours : \A i \in 1..Len(hourly[h]) :
                 hourly[h][i] <= Total([m \in InHour(1..Len(log), h) |-> raw[m]])
BY DEF IInv, TypeOK, Counts, Tabled, TablesAgree, UsageOf, RowsOf

(* What the invariant says of the tables after a step, without the operators.  *)
LEMMA TabledAfter ==
    ASSUME \A m \in Messages : m > Len(log') => raw'[m] = 0,
           Total(daily') = Total([m \in 1..Len(log') |-> raw'[m]]),
           \A h \in Hours : \A i \in 1..Len(hourly'[h]) :
              hourly'[h][i] <= Total([m \in InHour(1..Len(log), h)' |-> raw'[m]])
    PROVE  Tabled'
BY DEF Tabled, TablesAgree, UsageOf, RowsOf

(* A block adds its rows to all three tables.                                  *)
LEMMA InsertTabled ==
    ASSUME IInv, NEW B, B \subseteq 1..Len(log), InsertBlock(B), UNCHANGED <<log, stamp>>
    PROVE  /\ Tabled' /\ raw' \in [Messages -> Nat]
           /\ daily' \in Counts /\ hourly' \in [Hours -> Counts]
           /\ \A m \in Messages :
                 raw'[m] = IF m \in B THEN raw[m] + 1 ELSE raw[m]
<1> DEFINE n == Len(log)
           K == B
           F == [m \in 1..n |-> raw[m]]
           G == [m \in 1..n |-> raw'[m]]
<1>1. /\ n \in Nat /\ n <= MaxLog /\ \A m \in 1..n : m \in Messages
      /\ raw \in [Messages -> Nat]
  BY TopicFacts
<1>2. /\ raw' = [m \in Messages |-> IF m \in B THEN raw[m] + 1 ELSE raw[m]]
      /\ daily' = AppendCount(daily, Cardinality(K))
      /\ hourly' = [h \in Hours |-> AppendCount(hourly[h], Cardinality(InHour(B, h)))]
  BY DEF InsertBlock
<1>3. /\ raw' \in [Messages -> Nat]
      /\ \A m \in Messages : raw'[m] = IF m \in B THEN raw[m] + 1 ELSE raw[m]
  BY <1>1, <1>2
<1>4. /\ daily \in Counts /\ hourly \in [Hours -> Counts]
      /\ \A m \in Messages : m > n => raw[m] = 0
      /\ Total(daily) = Total(F)
      /\ \A h \in Hours : \A i \in 1..Len(hourly[h]) :
            hourly[h][i] <= Total([m \in InHour(1..n, h) |-> raw[m]])
  BY TableTypes
<1>5. Raises(1..n, F, K, G)
  <2>1. K \subseteq 1..n /\ IsFiniteSet(1..n)
    BY <1>1, IntervalFinite
  <2>2. F \in [1..n -> Nat] /\ G \in [1..n -> Nat]
    BY <1>1, <1>3
  <2>3. \A m \in 1..n : G[m] = IF m \in K THEN F[m] + 1 ELSE F[m]
    BY <1>1, <1>3
  <2>4. QED
    BY <2>1, <2>2, <2>3 DEF Raises
<1> HIDE DEF F, G
<1>6. IsFiniteSet(K) /\ Cardinality(K) \in Nat /\ Total(G) = Total(F) + Cardinality(K)
  BY <1>5, TotalRaised, FS_CardinalityType
<1>7. daily' \in Counts /\ Total(daily') = Total(daily) + Cardinality(K)
  BY <1>2, <1>4, <1>6, AppendedTotal
<1>8. ASSUME NEW h \in Hours
      PROVE  /\ hourly'[h] \in Counts
             /\ \A i \in 1..Len(hourly'[h]) :
                   hourly'[h][i] <= Total([m \in InHour(1..n, h) |-> raw'[m]])
  <2> DEFINE S == InHour(1..n, h)
             f == [m \in S |-> raw[m]]
             g == [m \in S |-> raw'[m]]
             A == InHour(B, h)
  <2>1. A \subseteq S /\ S \subseteq 1..n /\ A \subseteq K
    BY DEF InHour
  <2>2. IsFiniteSet(S) /\ g \in [S -> Nat] /\ Total(g) \in Nat
    <3>1. n \in Nat /\ n <= MaxLog /\ S \subseteq 1..n /\ raw' \in [Messages -> Nat]
      BY <1>1, <1>3, <2>1
    <3> HIDE DEF n, S
    <3>2. QED
      BY <3>1, RowsCounted
  <2>3. \A m \in A : g[m] > 0
    BY <1>1, <1>3, <2>1
  <2>4. Total(f) <= Total(g)
    <3>1. /\ n \in Nat /\ n <= MaxLog /\ S \subseteq 1..n
          /\ raw \in [Messages -> Nat] /\ raw' \in [Messages -> Nat]
          /\ \A m \in S : raw[m] <= raw'[m]
      BY <1>1, <1>3, <2>1
    <3> HIDE DEF n, S
    <3>2. QED
      BY <3>1, RowsGrow
  <2>5. Total(f) \in Nat
    <3>1. n \in Nat /\ n <= MaxLog /\ S \subseteq 1..n /\ raw \in [Messages -> Nat]
      BY <1>1, <2>1
    <3> HIDE DEF n, S
    <3>2. QED
      BY <3>1, RowsCounted
  <2>6. \A i \in 1..Len(hourly[h]) : hourly[h][i] <= Total(f)
    BY <1>4
  <2>7. hourly[h] \in Counts /\ hourly'[h] = AppendCount(hourly[h], Cardinality(A))
    BY <1>2, <1>4
  <2> HIDE DEF S, f, g, A
  <2>8. Cardinality(A) <= Total(g)
    BY <2>1, <2>2, <2>3, TotalCovers
  <2>9. Cardinality(A) \in Nat
    BY <1>6, <2>1, FS_Subset, FS_CardinalityType
  <2>10. \A i \in 1..Len(hourly[h]) : hourly[h][i] <= Total(g)
    <3>1. \A i \in 1..Len(hourly[h]) : hourly[h][i] \in Nat
      BY <2>7, ElementOfSeq DEF Counts
    <3>2. QED
      BY <2>2, <2>4, <2>5, <2>6, <3>1
  <2>11. hourly'[h] \in Counts
    BY <2>7, <2>9, AppendedTotal
  <2>12. \A i \in 1..Len(hourly'[h]) : hourly'[h][i] <= Total(g)
    BY <2>2, <2>7, <2>8, <2>9, <2>10, AppendedBelow
  <2>13. QED
    BY <2>11, <2>12 DEF g, S
<1>9. hourly' \in [Hours -> Counts]
  <2>1. hourly' = [h \in Hours |-> hourly'[h]]
    BY <1>2
  <2>2. QED
    BY <1>8, <2>1
<1>10. ASSUME NEW m \in Messages, m > n PROVE raw'[m] = 0
  <2>1. m \notin B
    BY <1>1, <1>10 DEF Messages
  <2>2. QED
    BY <1>3, <1>4, <1>10, <2>1
<1>11. Total(daily') = Total(G)
  BY <1>4, <1>6, <1>7
<1>12. \A h \in Hours : InHour(1..n, h)' = InHour(1..n, h)
  BY DEF InHour
<1>13. Tabled'
  BY <1>8, <1>10, <1>11, <1>12, TabledAfter DEF G
<1>14. QED
  BY <1>3, <1>7, <1>9, <1>13

(* A step after which the rows and the topic are as they were keeps the        *)
(* tables' facts if the sum of the daily rows stays and no hourly row grows    *)
(* beyond what there is.                                                       *)
LEMMA MergedTabled ==
    ASSUME IInv, UNCHANGED <<log, stamp, raw>>, Total(daily') = Total(daily),
           \A h \in Hours : \A i \in 1..Len(hourly'[h]) :
              hourly'[h][i] <= Total([m \in InHour(1..Len(log), h) |-> raw[m]])
    PROVE  Tabled'
<1>1. \A h \in Hours : InHour(1..Len(log), h)' = InHour(1..Len(log), h)
  BY DEF InHour
<1>2. Total(daily') = Total([m \in 1..Len(log') |-> raw'[m]])
  BY TableTypes
<1>3. \A m \in Messages : m > Len(log') => raw'[m] = 0
  BY TableTypes
<1>4. \A h \in Hours : \A i \in 1..Len(hourly'[h]) :
         hourly'[h][i] <= Total([m \in InHour(1..Len(log), h)' |-> raw'[m]])
  BY <1>1
<1>5. QED
  BY <1>2, <1>3, <1>4, TabledAfter

(* Merging the daily parts adds their rows up.                                 *)
LEMMA DailyTabled ==
    ASSUME IInv, MergeDaily
    PROVE  Tabled' /\ daily' \in Counts
<1>1. /\ Len(daily) > 1 /\ daily' = <<Total(daily)>>
      /\ UNCHANGED <<log, stamp, raw, hourly>>
  BY DEF MergeDaily, groupVars, timeVars
<1>2. daily \in Counts
  BY TableTypes
<1>3. Total(daily) \in Nat \ {0}
  BY <1>1, <1>2, CountsPositive
<1>4. daily' \in Counts /\ Total(daily') = Total(daily)
  BY <1>1, <1>3, OneCount
<1>5. \A h \in Hours : \A i \in 1..Len(hourly'[h]) :
         hourly'[h][i] <= Total([m \in InHour(1..Len(log), h) |-> raw[m]])
  BY <1>1, TableTypes
<1>6. QED
  BY <1>1, <1>4, <1>5, MergedTabled

(* Merging the hourly parts keeps one of their rows.                           *)
LEMMA HourlyTabled ==
    ASSUME IInv, MergeHourly
    PROVE  Tabled' /\ hourly' \in [Hours -> Counts]
<1>1. PICK k \in Hours : /\ Len(hourly[k]) > 1
                         /\ hourly' = [hourly EXCEPT ![k] = <<@[Len(@)]>>]
                         /\ UNCHANGED <<log, stamp, raw, daily>>
  BY DEF MergeHourly, groupVars, timeVars
<1>2. hourly \in [Hours -> Counts]
  BY TableTypes
<1>3. LET s == hourly[k] IN
      /\ s \in Counts /\ Len(s) \in Nat
      /\ <<s[Len(s)]>> \in Counts /\ Len(<<s[Len(s)]>>) = 1
      /\ <<s[Len(s)]>>[1] = s[Len(s)] /\ Len(s) \in 1..Len(s)
  <2>1. hourly[k] \in Counts /\ Len(hourly[k]) \in Nat
    BY <1>2, LenProperties DEF Counts
  <2>2. hourly[k][Len(hourly[k])] \in Nat \ {0}
    BY <1>1, <2>1, CountsPositive
  <2>3. QED
    BY <1>1, <2>1, <2>2, OneCount
<1>4. hourly' \in [Hours -> Counts] /\ hourly'[k] = <<hourly[k][Len(hourly[k])]>>
      /\ \A h \in Hours \ {k} : hourly'[h] = hourly[h]
  BY <1>1, <1>2, <1>3
<1>5. ASSUME NEW h \in Hours, NEW i \in 1..Len(hourly'[h])
      PROVE  hourly'[h][i] <= Total([m \in InHour(1..Len(log), h) |-> raw[m]])
  <2>1. CASE h = k
    <3> DEFINE last == hourly[k][Len(hourly[k])]
    <3>1. Len(<<last>>) = 1 /\ <<last>>[1] = last /\ Len(hourly[k]) \in 1..Len(hourly[k])
      BY <1>3
    <3>2. hourly'[h] = <<last>>
      BY <1>4, <2>1
    <3>3. last <= Total([m \in InHour(1..Len(log), h) |-> raw[m]])
      BY <2>1, <3>1, TableTypes
    <3> HIDE DEF last
    <3>4. i = 1
      BY <1>5, <3>1, <3>2
    <3>5. QED
      BY <3>1, <3>2, <3>3, <3>4
  <2>2. CASE h # k
    BY <1>4, <1>5, <2>2, TableTypes
  <2>3. QED
    BY <2>1, <2>2
<1>6. QED
  BY <1>1, <1>4, <1>5, MergedTabled

(* A backfill writes no more than the rows of the hour.                        *)
LEMMA BackfillTabled ==
    ASSUME IInv, Backfill
    PROVE  Tabled' /\ hourly' \in [Hours -> Counts]
<1> DEFINE S(h) == InHour(1..Len(log), h)
           B(h) == {m \in InHour(1..Len(log), h) : stamp[m] + Window >= clock}
           all(h) == [m \in S(h) |-> raw[m]]
           part(h) == [m \in B(h) |-> raw[m]]
<1>1. /\ hourly' = [h \in Hours |-> AppendCount(hourly[h], Total(part(h)))]
      /\ UNCHANGED <<log, stamp, raw, daily>>
  BY DEF Backfill, groupVars, RowsOf
<1>2. hourly \in [Hours -> Counts]
  BY TableTypes
<1>3. /\ Len(log) \in Nat /\ Len(log) <= MaxLog /\ raw \in [Messages -> Nat]
      /\ \A m \in 1..Len(log) : m \in Messages
  BY TopicFacts
<1>4. ASSUME NEW h \in Hours
      PROVE  /\ hourly'[h] \in Counts
             /\ \A i \in 1..Len(hourly'[h]) : hourly'[h][i] <= Total(all(h))
  <2>1. B(h) \subseteq S(h) /\ S(h) \subseteq 1..Len(log)
    BY DEF InHour
  <2>2. /\ hourly[h] \in Counts /\ hourly'[h] = AppendCount(hourly[h], Total(part(h)))
        /\ \A i \in 1..Len(hourly[h]) : hourly[h][i] <= Total(all(h))
    BY <1>1, <1>2, TableTypes
  <2>3. all(h) = [m \in S(h) |-> raw[m]] /\ part(h) = [m \in B(h) |-> raw[m]]
    OBVIOUS
  <2>4. \A m \in B(h) : raw[m] <= raw[m]
    BY <1>3, <2>1
  <2> HIDE DEF S, B, all, part
  <2>5. Total(all(h)) \in Nat
    BY <1>3, <2>1, <2>3, RowsCounted
  <2>6. Total(part(h)) \in Nat
    <3>1. B(h) \subseteq 1..Len(log)
      BY <2>1
    <3>2. QED
      BY <1>3, <2>3, <3>1, RowsCounted
  <2>7. Total(part(h)) <= Total(all(h))
    BY <1>3, <2>1, <2>3, <2>4, RowsGrow
  <2>8. QED
    BY <2>2, <2>5, <2>6, <2>7, AppendedTotal, AppendedBelow
<1>5. hourly' \in [Hours -> Counts]
  <2>1. hourly' = [h \in Hours |-> hourly'[h]]
    BY <1>1
  <2>2. QED
    BY <1>4, <2>1
<1>6. QED
  BY <1>1, <1>4, <1>5, MergedTabled

(* A published message has no row yet.                                         *)
LEMMA PublishTabled ==
    ASSUME IInv, NEW e \in Events, Publish(e)
    PROVE  Tabled'
<1> DEFINE n == Len(log)
           F == [m \in 1..n |-> raw[m]]
           G == [m \in 1..(n + 1) |-> raw[m]]
<1>1. /\ n \in Nat /\ n + 1 <= MaxLog /\ Len(log') = n + 1 /\ raw \in [Messages -> Nat]
      /\ n + 1 \in Messages /\ \A m \in 1..n : log'[m] = log[m] /\ m \in Messages
  <2>1. GroupOK({}) /\ Produce(e) /\ n < MaxLog
    BY TopicFacts DEF Publish, Produce
  <2>2. QED
    BY <2>1, TopicFacts, ProduceAppends
<1>2. /\ UNCHANGED <<raw, daily, hourly>>
      /\ stamp' = [stamp EXCEPT ![n + 1] = clock] /\ stamp \in [Messages -> 1..MaxClock]
  BY DEF Publish, tableVars, IInv, TypeOK
<1>3. \A m \in 1..n : stamp'[m] = stamp[m]
  BY <1>1, <1>2
<1>4. raw[n + 1] = 0
  BY <1>1, TableTypes
<1>5. Grows(1..n, F, n + 1, 0, G)
  <2>1. (1..n) \cup {n + 1} = 1..(n + 1) /\ n + 1 \notin 1..n
    BY <1>1
  <2>2. IsFiniteSet(1..n) /\ F \in [1..n -> Nat] /\ G \in [1..(n + 1) -> Nat]
    BY <1>1, <2>1, IntervalFinite
  <2>3. G[n + 1] = 0 /\ \A y \in (1..n) \ {n + 1} : G[y] = F[y]
    BY <1>1, <1>4
  <2>4. QED
    BY <2>1, <2>2, <2>3 DEF Grows
<1> HIDE DEF F, G
<1>6. Total(G) = Total(F) + 0 /\ Total(F) \in Nat
  <2>1. IsFiniteSet(1..n) /\ F \in [1..n -> Nat]
    BY <1>5 DEF Grows
  <2>2. QED
    BY <1>5, <2>1, TotalStep, TotalType
<1>7. Total(daily') = Total(G)
  BY <1>2, <1>6, TableTypes DEF F
<1>8. ASSUME NEW h \in Hours, NEW i \in 1..Len(hourly'[h])
      PROVE  hourly'[h][i] <= Total([m \in InHour(1..n, h)' |-> raw'[m]])
  <2> DEFINE S == InHour(1..n, h)
             T == InHour(1..n, h)'
             f == [m \in S |-> raw[m]]
             g == [m \in T |-> raw'[m]]
  <2>1. S \subseteq T /\ T \subseteq 1..(n + 1) /\ S \subseteq 1..n
    BY <1>1, <1>3 DEF InHour, Hour
  <2>2. /\ n + 1 \in Nat /\ n + 1 <= MaxLog /\ S \subseteq T /\ T \subseteq 1..(n + 1)
        /\ raw \in [Messages -> Nat] /\ raw' \in [Messages -> Nat]
        /\ \A m \in S : raw[m] <= raw'[m]
        /\ f = [m \in S |-> raw[m]] /\ g = [m \in T |-> raw'[m]]
    BY <1>1, <1>2, <2>1
  <2>3. S \subseteq 1..(n + 1)
    BY <2>2
  <2>4. hourly[h][i] <= Total(f) /\ hourly'[h][i] = hourly[h][i] /\ i \in 1..Len(hourly[h])
    BY <1>2, <1>8, TableTypes
  <2>5. hourly[h][i] \in Nat
    BY <2>4, TableTypes, ElementOfSeq DEF Counts
  <2> HIDE DEF S, T, f, g
  <2>6. Total(f) <= Total(g)
    BY <2>2, RowsGrow
  <2>7. Total(f) \in Nat /\ Total(g) \in Nat
    BY <2>2, <2>3, RowsCounted
  <2>8. QED
    BY <2>4, <2>5, <2>6, <2>7 DEF g, T
<1>9. \A m \in Messages : m > n + 1 => raw'[m] = 0
  BY <1>1, <1>2, TableTypes DEF Messages
<1>10. QED
  BY <1>1, <1>2, <1>7, <1>8, <1>9, TabledAfter DEF G

(* A step that leaves the tables, the topic and the times alone.               *)
LEMMA StillTabled ==
    ASSUME IInv, UNCHANGED <<log, tableVars, stamp>>
    PROVE  Tabled'
<1>1. UNCHANGED <<log, stamp, raw, daily, hourly>>
  BY DEF tableVars
<1>2. \A h \in Hours : \A i \in 1..Len(hourly'[h]) :
         hourly'[h][i] <= Total([m \in InHour(1..Len(log), h) |-> raw[m]])
  BY <1>1, TableTypes
<1>3. QED
  BY <1>1, <1>2, MergedTabled

---------------------------------------------------------------------------------
(* The steps.                                                                  *)

LEMMA InitIInv == Init => IInv
<1> SUFFICES ASSUME Init PROVE IInv
  OBVIOUS
<1>1. GroupOK({}) /\ InTopic
  BY GroupInitOK, InitInTopic DEF Init
<1>2. /\ log = << >> /\ rebalances = 0 /\ races = 0
      /\ \A w \in Workers : pc[w] = "out" /\ batch[w] = {}
      /\ raw = [m \in Messages |-> 0]
      /\ daily = << >> /\ hourly = [h \in Hours |-> << >>]
  BY DEF Init, GroupInit
<1>3. Len(log) = 0
  BY <1>2
<1>4. << >> \in Counts /\ Len(<< >>) = 0
  BY EmptySeq DEF Counts
<1>5. TypeOK
  <2>1. clock \in 1..MaxClock /\ stamp \in [Messages -> 1..MaxClock]
    BY EventsAssumption DEF Init
  <2>2. batch \in [Workers -> SUBSET Messages] /\ raw \in [Messages -> Nat] /\ lost \subseteq Messages
    BY DEF Init
  <2>3. daily \in Seq(Nat \ {0}) /\ hourly \in [Hours -> Seq(Nat \ {0})]
    BY <1>2, <1>4 DEF Counts
  <2>4. backfills \in 0..MaxBackfills /\ races \in 0..MaxRaces
    BY EventsAssumption DEF Init
  <2>5. QED
    BY <1>1, <2>1, <2>2, <2>3, <2>4 DEF TypeOK
<1>6. Held /\ Promised
  BY <1>2, <1>3 DEF Held, Promised
<1>7. Counted
  <2>1. \A m : Ahead(m) = {}
    BY <1>2 DEF Ahead
  <2>2. {w \in Workers : pc[w] # "out"} = {}
    BY <1>2
  <2>3. IsFiniteSet({w \in Workers : pc[w] # "out"}) /\ Cardinality({}) = 0
    BY <2>2, FS_EmptySet
  <2>4. ASSUME NEW m \in Messages PROVE raw[m] + Cardinality(Ahead(m)) <= rebalances + races
    <3>1. raw[m] = 0 /\ Cardinality(Ahead(m)) = 0
      BY <1>2, <2>1, <2>3
    <3>2. QED
      BY <1>2, <3>1
  <2>5. QED
    BY <2>3, <2>4 DEF Counted
<1>8. Tabled
  <2>1. \A f : DOMAIN f = {} => Total(f) = 0
    BY TotalZero
  <2>2. Total(daily) = 0 /\ Total([m \in 1..Len(log) |-> raw[m]]) = 0
    <3>1. DOMAIN daily = {} /\ DOMAIN [m \in 1..Len(log) |-> raw[m]] = {}
      BY <1>2, <1>3
    <3>2. QED
      BY <2>1, <3>1
  <2>3. \A h \in Hours : 1..Len(hourly[h]) = {}
    BY <1>2, <1>4
  <2>4. QED
    BY <1>2, <2>2, <2>3 DEF Tabled, TablesAgree, UsageOf, RowsOf
<1>9. Len(log) <= MaxLog
  BY <1>3, BoundsAssumption
<1>10. QED
  BY <1>1, <1>5, <1>6, <1>7, <1>8, <1>9 DEF IInv

(* What does not concern the group, the batches and the rows of the messages.  *)
LEMMA QuietFrame ==
    ASSUME IInv, UNCHANGED <<groupVars, batch, raw, lossVars>>
    PROVE  /\ (GroupOK({}) /\ InTopic /\ Len(log) <= MaxLog /\ Held /\ Promised /\ Counted)'
           /\ batch' \in [Workers -> SUBSET Messages] /\ raw' \in [Messages -> Nat]
           /\ races' \in 0..MaxRaces /\ lost' \subseteq Messages
<1>1. UNCHANGED <<log, committed, owner, rebalances, pc, pos, marked, passed>>
  BY DEF groupVars
<1>2. UNCHANGED <<batch, raw, races, lost>>
  BY DEF lossVars
<1>3. (GroupOK({}) /\ InTopic /\ Len(log) <= MaxLog)'
  BY <1>1 DEF IInv, TypeOK, GroupOK, InTopic
<1>4. Held'
  BY QuietAhead DEF IInv
<1>5. Promised'
  BY <1>1, <1>2 DEF IInv, Promised, Covered, Accounted
<1>6. Counted'
  BY <1>1, <1>2 DEF IInv, Counted, Ahead
<1>7. QED
  BY <1>2, <1>3, <1>4, <1>5, <1>6 DEF IInv, TypeOK

LEMMA TablesIInv ==
    ASSUME IInv, Tick \/ MergeDaily \/ MergeHourly \/ Backfill \/ UNCHANGED vars
    PROVE  IInv'
<1>1. UNCHANGED <<groupVars, batch, raw, lossVars>>
  BY DEF Tick, MergeDaily, MergeHourly, Backfill, vars, tableVars
<1>2. /\ (GroupOK({}) /\ InTopic /\ Len(log) <= MaxLog /\ Held /\ Promised /\ Counted)'
      /\ batch' \in [Workers -> SUBSET Messages] /\ raw' \in [Messages -> Nat]
      /\ races' \in 0..MaxRaces /\ lost' \subseteq Messages
  BY <1>1, QuietFrame
<1>3. /\ clock \in 1..MaxClock /\ stamp \in [Messages -> 1..MaxClock]
      /\ daily \in Counts /\ hourly \in [Hours -> Counts]
      /\ backfills \in 0..MaxBackfills
      /\ MaxClock \in Nat /\ MaxBackfills \in Nat
  BY EventsAssumption DEF IInv, TypeOK, Counts
<1>4. clock' \in 1..MaxClock /\ stamp' \in [Messages -> 1..MaxClock]
  BY <1>3 DEF Tick, MergeDaily, MergeHourly, Backfill, vars, timeVars
<1>5. backfills' \in 0..MaxBackfills
  BY <1>3 DEF Tick, MergeDaily, MergeHourly, Backfill, vars, timeVars
<1>6. Tabled' /\ daily' \in Counts /\ hourly' \in [Hours -> Counts]
  <2>1. CASE Tick \/ UNCHANGED vars
    <3>1. UNCHANGED <<log, tableVars, stamp>>
      BY <2>1 DEF Tick, vars, groupVars, timeVars
    <3>2. UNCHANGED <<daily, hourly>>
      BY <3>1 DEF tableVars
    <3>3. QED
      BY <1>3, <3>1, <3>2, StillTabled
  <2>2. CASE MergeDaily
    BY <1>3, <2>2, DailyTabled DEF MergeDaily
  <2>3. CASE MergeHourly
    BY <1>3, <2>3, HourlyTabled DEF MergeHourly
  <2>4. CASE Backfill
    BY <1>3, <2>4, BackfillTabled DEF Backfill
  <2>5. QED
    BY <2>1, <2>2, <2>3, <2>4
<1>7. TypeOK'
  BY <1>2, <1>4, <1>5, <1>6 DEF TypeOK, Counts
<1>8. QED
  BY <1>2, <1>6, <1>7 DEF IInv

(* A message that is published is behind no position and in no batch.          *)
LEMMA PublishIInv ==
    ASSUME IInv, NEW e \in Events, Publish(e)
    PROVE  IInv'
<1>1. /\ Produce(e) /\ UNCHANGED <<batch, raw, daily, hourly, clock, backfills, races, lost>>
      /\ stamp' = [stamp EXCEPT ![Len(log) + 1] = clock]
  BY DEF Publish, tableVars, lossVars
<1>2. /\ UNCHANGED <<committed, owner, rebalances, pc, pos, marked, passed>>
      /\ Len(log) < MaxLog
  BY <1>1 DEF Produce, sessionVars
<1>3. /\ Len(log) \in Nat /\ Len(log') = Len(log) + 1 /\ MaxLog \in Nat
      /\ \A m \in 1..Len(log) : log'[m] = log[m]
  BY <1>1, TopicFacts, ProduceAppends
<1>4. GroupOK({})' /\ InTopic'
  BY <1>1, TopicFacts, ProduceOK, ProduceInTopic
<1>5. TypeOK'
  <2>1. stamp' \in [Messages -> 1..MaxClock]
    BY <1>1 DEF IInv, TypeOK
  <2>2. QED
    BY <1>1, <1>4, <2>1 DEF IInv, TypeOK
<1>6. Held'
  <2>1. ASSUME NEW w \in Workers, NEW m \in batch[w]
        PROVE  m <= Len(log') /\ m < pos[w] /\ log'[m] # "garbled"
    <3>1. m \in 1..Len(log) /\ m < pos[w] /\ log[m] # "garbled"
      BY TopicFacts DEF IInv, Held
    <3>2. QED
      BY <1>3, <3>1
  <2>2. QED
    BY <1>1, <1>2, <2>1 DEF IInv, Held
<1>7. Promised'
  <2>1. ASSUME NEW m \in 1..Len(log'), Covered(m)', log'[m] = "ok"
        PROVE  Accounted(m)'
    <3>1. Covered(m)
      BY <1>2, <2>1 DEF Covered
    <3>2. m \in 1..Len(log)
      <4>1. m # Len(log) + 1
        BY <1>3, <3>1 DEF IInv, InTopic, TypeOK, GroupOK, Covered
      <4>2. QED
        BY <1>3, <4>1
    <3>3. Accounted(m)
      BY <1>3, <2>1, <3>1, <3>2 DEF IInv, Promised
    <3>4. QED
      BY <1>1, <1>2, <3>3 DEF Accounted
  <2>2. QED
    BY <2>1 DEF Promised
<1>8. Counted'
  BY <1>1, <1>2 DEF IInv, Counted, Ahead
<1>9. Tabled' /\ Len(log') <= MaxLog
  BY <1>2, <1>3, PublishTabled
<1>10. QED
  BY <1>4, <1>5, <1>6, <1>7, <1>8, <1>9 DEF IInv

(* The session's steps but the assignment: no position is gained, and of the   *)
(* batch a crash alone takes something, which is then lost.                    *)
LEMMA SessionIInv ==
    ASSUME IInv, NEW w \in Workers, AutoCommit(w) \/ SessionEnds(w) \/ Crash(w)
    PROVE  IInv'
<1>1. /\ CommitOffset(w) \/ LeaveGroup(w) \/ CloseClaim(w) \/ Die(w)
      /\ UNCHANGED <<log, passed, rebalances, tableVars, timeVars, races>>
  BY DEF AutoCommit, SessionEnds, Crash, CommitOffset, LeaveGroup, CloseClaim, Die,
         Unchanged, lossVars, sessionVars
<1>2. GroupOK({})' /\ InTopic'
  BY <1>1, TopicFacts, SessionOK, SessionInTopic
<1>3. /\ \A v \in Workers \ {w} : batch'[v] = batch[v]
      /\ batch' \in [Workers -> SUBSET Messages]
      /\ batch'[w] \subseteq batch[w] /\ batch[w] \subseteq batch'[w] \cup lost'
      /\ lost \subseteq lost' /\ lost' \subseteq Messages
  BY DEF AutoCommit, SessionEnds, Crash, Unchanged, lossVars, IInv, TypeOK
<1>4. /\ \A v \in Workers \ {w} : pc'[v] = pc[v] /\ pos'[v] = pos[v]
      /\ \/ pc'[w] = pc[w] /\ pos'[w] = pos[w] /\ batch' = batch
         \/ pc'[w] = "out" /\ batch'[w] = {}
  <2>1. pc \in [Workers -> {"out", "idle"}] /\ pos \in [Workers -> Nat \ {0}]
        /\ batch \in [Workers -> SUBSET Messages]
    BY DEF IInv, TypeOK, GroupOK
  <2>2. CASE AutoCommit(w)
    BY <2>1, <2>2 DEF AutoCommit, CommitOffset
  <2>3. CASE SessionEnds(w) \/ Crash(w)
    BY <2>1, <2>3 DEF SessionEnds, Crash, LeaveGroup, CloseClaim, Die, EndSession
  <2>4. QED
    BY <2>2, <2>3
<1>5. TypeOK'
  BY <1>1, <1>2, <1>3 DEF IInv, TypeOK, tableVars, timeVars
<1>6. Held'
  BY <1>1, <1>3, <1>4 DEF IInv, Held
<1>7. Promised'
  <2>1. ASSUME NEW m \in 1..Len(log), Covered(m)', log[m] = "ok" PROVE Accounted(m)'
    <3>1. m \in Nat \ {0} /\ GroupOK({})
      BY TopicFacts
    <3>2. Covered(m)
      BY <1>1, <2>1, <3>1, SessionCovers
    <3>3. Accounted(m)
      BY <2>1, <3>2 DEF IInv, Promised
    <3>4. CASE m \in batch[w]
      BY <1>3, <3>4 DEF Accounted
    <3>5. CASE m \notin batch[w]
      BY <1>1, <1>3, <3>3, <3>5 DEF Accounted, tableVars
    <3>6. QED
      BY <3>4, <3>5
  <2>2. QED
    BY <1>1, <2>1 DEF Promised
<1>8. Counted'
  <2>1. \A v \in Workers : pc[v] = "out" => pc'[v] = "out"
    BY <1>4
  <2>2. \A m \in Messages : Ahead(m)' \subseteq Ahead(m)
    BY <1>3, <1>4 DEF Ahead
  <2>3. raw' = raw /\ rebalances' = rebalances /\ races' = races
    BY <1>1 DEF tableVars
  <2>4. rebalances + races \in Nat /\ raw \in [Messages -> Nat] /\ Counted
    BY TopicFacts DEF IInv
  <2>5. QED
    BY <2>1, <2>2, <2>3, <2>4, CountedFrame
<1>9. Tabled' /\ Len(log') <= MaxLog
  BY <1>1, StillTabled DEF timeVars, IInv
<1>10. QED
  BY <1>2, <1>5, <1>6, <1>7, <1>8, <1>9 DEF IInv

(* An assignment adds one handler that comes to the messages not behind it,    *)
(* and starts behind what is accounted for, or adds it to passed.              *)
LEMMA AssignIInv ==
    ASSUME IInv, NEW w \in Workers, Assign(w)
    PROVE  IInv'
<1>1. /\ Join(w)
      /\ UNCHANGED <<log, batch, raw, daily, hourly, clock, stamp, backfills, races, lost>>
  BY DEF Assign, Join, Unchanged, tableVars, timeVars, lossVars
<1>2. GroupOK({})' /\ InTopic'
  BY <1>1, TopicFacts, SessionOK, SessionInTopic
<1>3. /\ pc[w] = "out" /\ pc'[w] = "idle" /\ batch[w] = {}
      /\ \A v \in Workers \ {w} : pc'[v] = pc[v] /\ pos'[v] = pos[v]
      /\ rebalances' = rebalances + 1 /\ passed \subseteq passed'
  BY <1>1 DEF Join, IInv, TypeOK, GroupOK, Held
<1>4. TypeOK'
  BY <1>1, <1>2 DEF IInv, TypeOK
<1>5. Held'
  BY <1>1, <1>3 DEF IInv, Held
<1>6. Promised'
  <2>1. ASSUME NEW m \in 1..Len(log), Covered(m)', log[m] = "ok" PROVE Accounted(m)'
    <3>1. Covered(m) \/ m \in passed'
      BY <1>1, <2>1, TopicFacts, JoinCovers
    <3>2. CASE Covered(m)
      <4>1. Accounted(m)
        BY <2>1, <3>2 DEF IInv, Promised
      <4>2. QED
        BY <1>1, <1>3, <4>1 DEF Accounted
    <3>3. QED
      BY <3>1, <3>2 DEF Accounted
  <2>2. QED
    BY <1>1, <2>1 DEF Promised
<1>7. Counted'
  <2>1. IsFiniteSet({v \in Workers : pc[v] # "out"}')
    <3>1. {v \in Workers : pc[v] # "out"}' \subseteq {v \in Workers : pc[v] # "out"} \cup {w}
      BY <1>3
    <3>2. IsFiniteSet({v \in Workers : pc[v] # "out"} \cup {w})
      BY FS_AddElement DEF IInv, Counted
    <3>3. QED
      BY <3>1, <3>2, FS_Subset
  <2>2. ASSUME NEW m \in Messages
        PROVE  (raw[m] + Cardinality(Ahead(m)) <= rebalances + races)'
    <3>1. /\ IsFiniteSet(Ahead(m)) /\ Cardinality(Ahead(m)) \in Nat
          /\ raw[m] \in Nat /\ raw[m] + Cardinality(Ahead(m)) <= rebalances + races
          /\ rebalances \in Nat /\ races \in Nat
      BY AheadFinite, TopicFacts DEF IInv, Counted
    <3>2. Ahead(m)' \subseteq Ahead(m) \cup {w}
      BY <1>1, <1>3 DEF Ahead
    <3>3. IsFiniteSet(Ahead(m) \cup {w}) /\ Cardinality(Ahead(m) \cup {w}) <= Cardinality(Ahead(m)) + 1
          /\ Cardinality(Ahead(m) \cup {w}) \in Nat
      <4>1. /\ IsFiniteSet(Ahead(m) \cup {w})
            /\ Cardinality(Ahead(m) \cup {w})
                  = IF w \in Ahead(m) THEN Cardinality(Ahead(m)) ELSE Cardinality(Ahead(m)) + 1
        BY <3>1, FS_AddElement
      <4>2. QED
        BY <3>1, <4>1
    <3>4. Cardinality(Ahead(m)') <= Cardinality(Ahead(m) \cup {w}) /\ Cardinality(Ahead(m)') \in Nat
      BY <3>2, <3>3, FS_Subset, FS_CardinalityType
    <3>5. QED
      BY <1>1, <1>3, <3>1, <3>3, <3>4
  <2>3. QED
    BY <2>1, <2>2 DEF Counted
<1>8. Tabled' /\ Len(log') <= MaxLog
  BY <1>1, StillTabled DEF tableVars, IInv
<1>9. QED
  BY <1>2, <1>4, <1>5, <1>6, <1>7, <1>8 DEF IInv

(* A marked message was garbled, is in the batch or was lost to a race.        *)
LEMMA MarkIInv ==
    ASSUME IInv, NEW w \in Workers, SkipEvent(w) \/ TakeEvent(w) \/ RacedTake(w)
    PROVE  IInv'
<1>1. /\ MarkMessage(w) /\ AtMessage(w)
      /\ UNCHANGED <<log, committed, owner, rebalances, passed, tableVars, timeVars>>
  BY DEF SkipEvent, TakeEvent, RacedTake, MarkMessage, sessionVars, Unchanged
<1>2. /\ GroupOK({}) /\ pos[w] \in 1..Len(log) /\ pos[w] \in Messages
      /\ pc[w] = "idle" /\ pc'[w] = "idle" /\ pos'[w] = pos[w] + 1
      /\ \A v \in Workers \ {w} : pc'[v] = pc[v] /\ pos'[v] = pos[v]
  <2>1. GroupOK({}) /\ \A m \in 1..Len(log) : m \in Messages
    BY TopicFacts
  <2>2. pos[w] \in 1..Len(log)
    BY <1>1, TopicFacts DEF AtMessage, GroupOK
  <2>3. QED
    BY <1>1, <2>1, <2>2 DEF MarkMessage, AtMessage, GroupOK
<1>3. GroupOK({})' /\ InTopic'
  BY <1>1, <1>2, MarkMessageOK, MarkInTopic DEF IInv
<1>4. /\ batch' \in [Workers -> SUBSET Messages]
      /\ \A v \in Workers \ {w} : batch'[v] = batch[v]
      /\ batch[w] \subseteq batch'[w] /\ batch'[w] \subseteq batch[w] \cup {pos[w]}
      /\ pos[w] \in batch'[w] \ batch[w] => log[pos[w]] # "garbled"
      /\ lost \subseteq lost' /\ lost' \subseteq Messages
      /\ races \in Nat /\ races' \in 0..MaxRaces /\ races' >= races
      /\ log[pos[w]] = "ok" => pos[w] \in batch'[w] \/ pos[w] \in lost'
  <2>1. /\ batch \in [Workers -> SUBSET Messages] /\ lost \subseteq Messages
        /\ races \in 0..MaxRaces /\ MaxRaces \in Nat
    BY EventsAssumption DEF IInv, TypeOK
  <2>2. CASE SkipEvent(w)
    BY <2>1, <2>2 DEF SkipEvent, EventOf, Unchanged, lossVars
  <2>3. CASE TakeEvent(w)
    BY <1>2, <2>1, <2>3 DEF TakeEvent, EventOf, Unchanged, lossVars
  <2>4. CASE RacedTake(w)
    BY <1>2, <2>1, <2>4 DEF RacedTake, EventOf
  <2>5. QED
    BY <2>2, <2>3, <2>4
<1>5. TypeOK'
  BY <1>1, <1>3, <1>4 DEF IInv, TypeOK, tableVars, timeVars
<1>6. Held'
  <2>1. ASSUME NEW v \in Workers, NEW m \in batch'[v]
        PROVE  m <= Len(log) /\ m < pos'[v] /\ log[m] # "garbled"
    <3>1. CASE m \in batch[v]
      <4>1. m <= Len(log) /\ m < pos[v] /\ log[m] # "garbled" /\ m \in 1..Len(log)
        BY <3>1, TopicFacts DEF IInv, Held
      <4>2. pos[v] <= pos'[v] /\ pos[v] \in Nat /\ pos'[v] \in Nat
        <5>1. pos[v] \in Nat /\ pos[w] \in Nat
          BY <1>2 DEF GroupOK
        <5>2. QED
          BY <1>2, <5>1
      <4>3. QED
        BY <4>1, <4>2, TopicFacts
    <3>2. CASE m \notin batch[v]
      <4>1. v = w /\ m = pos[w] /\ log[m] # "garbled"
        BY <1>4, <2>1, <3>2
      <4>2. QED
        BY <1>2, <4>1, TopicFacts
    <3>3. QED
      BY <3>1, <3>2
  <2>2. \A v \in Workers : pc'[v] = "out" => batch'[v] = {}
    BY <1>2, <1>4 DEF IInv, Held
  <2>3. QED
    BY <1>1, <2>1, <2>2 DEF Held
<1>7. Promised'
  <2>1. ASSUME NEW m \in 1..Len(log), Covered(m)', log[m] = "ok" PROVE Accounted(m)'
    <3>1. m \in Nat \ {0}
      OBVIOUS
    <3>2. Covered(m) \/ m = pos[w]
      BY <1>1, <1>2, <2>1, <3>1, MarkCovers
    <3>3. CASE Covered(m)
      <4>1. Accounted(m)
        BY <2>1, <3>3 DEF IInv, Promised
      <4>2. raw' = raw /\ passed' = passed
        BY <1>1 DEF tableVars
      <4>3. \A v \in Workers : batch[v] \subseteq batch'[v]
        BY <1>4
      <4>4. QED
        BY <1>4, <4>1, <4>2, <4>3 DEF Accounted
    <3>4. CASE m = pos[w]
      BY <1>4, <2>1, <3>4 DEF Accounted
    <3>5. QED
      BY <3>2, <3>3, <3>4
  <2>2. QED
    BY <1>1, <2>1 DEF Promised
<1>8. Counted'
  <2>1. \A v \in Workers : pc[v] = "out" => pc'[v] = "out"
    BY <1>2
  <2>2. ASSUME NEW m \in Messages, NEW v \in Ahead(m)' PROVE v \in Ahead(m)
    <3>1. m \in Nat /\ pos[w] \in Nat
      BY <1>2, TopicFacts
    <3>2. QED
      BY <1>2, <1>4, <2>2, <3>1 DEF Ahead
  <2>3. raw' = raw /\ rebalances' = rebalances /\ rebalances \in Nat
    BY <1>1, TopicFacts DEF tableVars
  <2>4. rebalances + races \in Nat /\ (rebalances + races)' \in Nat /\ (rebalances + races)' >= rebalances + races
    <3>1. races' \in Nat
      BY <1>4, EventsAssumption
    <3>2. QED
      BY <1>4, <2>3, <3>1
  <2>5. raw \in [Messages -> Nat] /\ Counted
    BY TopicFacts DEF IInv
  <2>6. QED
    BY <2>1, <2>2, <2>3, <2>4, <2>5, CountedFrame
<1>9. Tabled' /\ Len(log') <= MaxLog
  BY <1>1, StillTabled DEF timeVars, IInv
<1>10. QED
  BY <1>3, <1>5, <1>6, <1>7, <1>8, <1>9 DEF IInv

(* A flush writes the rows of the batch and empties it; one that fails loses   *)
(* what it did not write, and one that was raced may write it again.           *)
LEMMA FlushIInv ==
    ASSUME IInv, NEW w \in Workers, Flush(w) \/ RacedFlush(w) \/ FlushFails(w)
    PROVE  IInv'
<1> DEFINE B == batch[w]
<1>1. /\ B # {} /\ UNCHANGED groupVars /\ UNCHANGED timeVars
      /\ \/ InsertBlock(B)
         \/ (RacedFlush(w) \/ FlushFails(w)) /\ UNCHANGED tableVars
  BY DEF Flush, RacedFlush, FlushFails
<1>2. UNCHANGED <<log, committed, owner, rebalances, pc, pos, marked, passed, clock, stamp, backfills>>
  BY <1>1 DEF groupVars, timeVars
<1>3. /\ GroupOK({}) /\ Held /\ B \subseteq 1..Len(log) /\ pc[w] # "out"
      /\ raw \in [Messages -> Nat] /\ rebalances \in Nat /\ \A m \in 1..Len(log) : m \in Messages
  BY <1>1, TopicFacts DEF IInv, Held
<1>4. (GroupOK({}) /\ InTopic /\ Len(log) <= MaxLog)'
  BY <1>2 DEF IInv, TypeOK, GroupOK, InTopic
<1>5. /\ batch' \in [Workers -> SUBSET Messages]
      /\ \A v \in Workers \ {w} : batch'[v] = batch[v]
      /\ lost \subseteq lost' /\ lost' \subseteq Messages
      /\ races \in Nat /\ races' \in 0..MaxRaces
      /\ \/ batch'[w] = {} /\ races' = races
         \/ batch'[w] = B /\ races' = races + 1
  <2>1. /\ batch \in [Workers -> SUBSET Messages] /\ lost \subseteq Messages
        /\ races \in 0..MaxRaces /\ MaxRaces \in Nat
    BY EventsAssumption DEF IInv, TypeOK
  <2>2. CASE Flush(w)
    BY <2>1, <2>2 DEF Flush, lossVars
  <2>3. CASE RacedFlush(w)
    BY <2>1, <2>3 DEF RacedFlush
  <2>4. CASE FlushFails(w)
    BY <2>1, <2>4 DEF FlushFails
  <2>5. QED
    BY <2>2, <2>3, <2>4
<1>6. /\ Tabled' /\ raw' \in [Messages -> Nat]
      /\ daily' \in Counts /\ hourly' \in [Hours -> Counts]
      /\ \A m \in Messages : \/ raw'[m] = raw[m]
                             \/ m \in B /\ raw'[m] = raw[m] + 1
  <2>1. CASE InsertBlock(B)
    BY <1>2, <1>3, <2>1, InsertTabled
  <2>2. CASE UNCHANGED tableVars
    <3>1. UNCHANGED <<raw, daily, hourly>>
      BY <2>2 DEF tableVars
    <3>2. QED
      BY <1>2, <1>3, <2>2, <3>1, StillTabled, TableTypes
  <2>3. QED
    BY <1>1, <2>1, <2>2
<1>7. ASSUME NEW m \in B PROVE raw'[m] > 0 \/ m \in lost' \/ m \in batch'[w]
  <2>1. CASE InsertBlock(B)
    <3>1. m \in Messages /\ raw[m] \in Nat
      BY <1>3
    <3>2. raw'[m] = raw[m] + 1
      BY <1>7, <2>1, <3>1 DEF InsertBlock
    <3>3. QED
      BY <3>1, <3>2
  <2>2. CASE FlushFails(w)
    BY <2>2 DEF FlushFails
  <2>3. CASE RacedFlush(w)
    BY <1>7, <2>3 DEF RacedFlush
  <2>4. QED
    BY <1>1, <2>1, <2>2, <2>3
<1> HIDE DEF B
<1>8. TypeOK'
  BY <1>2, <1>4, <1>5, <1>6 DEF IInv, TypeOK, Counts
<1>9. \A v \in Workers : batch'[v] \subseteq batch[v]
  BY <1>5 DEF B
<1>10. Held'
  BY <1>2, <1>3, <1>9 DEF Held
<1>11. Promised'
  <2>1. ASSUME NEW m \in 1..Len(log), Covered(m)', log[m] = "ok" PROVE Accounted(m)'
    <3>1. Covered(m)
      BY <1>2, <2>1 DEF Covered
    <3>2. Accounted(m)
      BY <2>1, <3>1 DEF IInv, Promised
    <3>3. CASE m \in B
      BY <1>7, <2>1, <3>3 DEF Accounted
    <3>4. CASE m \notin B
      <4>1. raw[m] \in Nat /\ (raw[m] > 0 => raw'[m] > 0)
        BY <1>3, <1>6
      <4>2. (\E v \in Workers : m \in batch[v]) => \E v \in Workers : m \in batch'[v]
        BY <1>5, <3>4 DEF B
      <4>3. QED
        BY <1>2, <1>5, <3>2, <4>1, <4>2 DEF Accounted
    <3>5. QED
      BY <3>3, <3>4
  <2>2. QED
    BY <1>2, <2>1 DEF Promised
<1>12. Counted'
  <2>1. \A v \in Workers : pc[v] = "out" => pc'[v] = "out"
    BY <1>2
  <2>2. \A m \in Messages : Ahead(m)' \subseteq Ahead(m)
    BY <1>2, <1>9 DEF Ahead
  <2>3. ASSUME NEW m \in B, batch'[w] = {} PROVE Ahead(m)' # Ahead(m)
    <3>1. m < pos[w] /\ pos[w] \in Nat /\ m \in Nat
      BY <1>3, TopicFacts DEF B, Held, GroupOK
    <3>2. w \in Ahead(m)
      BY <1>3 DEF Ahead, B
    <3>3. w \notin Ahead(m)'
      BY <1>2, <2>3, <3>1 DEF Ahead
    <3>4. QED
      BY <3>2, <3>3
  <2>4. /\ rebalances + races \in Nat /\ (rebalances + races)' \in Nat
        /\ (rebalances + races)' >= rebalances + races
        /\ races' = races + 1 => (rebalances + races)' > rebalances + races
    <3>1. rebalances' = rebalances /\ rebalances \in Nat /\ races \in Nat
      BY <1>2, <1>3, <1>5
    <3>2. races' = races \/ races' = races + 1
      BY <1>5
    <3>3. QED
      BY <3>1, <3>2
  <2>5. \A m \in Messages :
           \/ raw'[m] = raw[m]
           \/ /\ raw'[m] = raw[m] + 1
              /\ Ahead(m)' # Ahead(m) \/ (rebalances + races)' > rebalances + races
    BY <1>5, <1>6, <2>3, <2>4
  <2>6. Counted
    BY DEF IInv
  <2>7. QED
    BY <1>3, <1>6, <2>1, <2>2, <2>4, <2>5, <2>6, CountedFrame
<1>13. QED
  BY <1>4, <1>6, <1>8, <1>10, <1>11, <1>12 DEF IInv

---------------------------------------------------------------------------------
(* The invariant, and what follows from it.                                    *)

LEMMA NextIInv == IInv /\ [Next]_vars => IInv'
<1> SUFFICES ASSUME IInv, [Next]_vars PROVE IInv'
  OBVIOUS
<1>1. CASE \E e \in Events : Publish(e)
  BY <1>1, PublishIInv
<1>2. CASE Tick \/ MergeDaily \/ MergeHourly \/ Backfill \/ UNCHANGED vars
  BY <1>2, TablesIInv
<1>3. ASSUME NEW w \in Workers, Consume(w) PROVE IInv'
  BY <1>3, AssignIInv, SessionIInv, MarkIInv, FlushIInv DEF Consume
<1>4. QED
  BY <1>1, <1>2, <1>3 DEF Next

LEMMA Invariance == Spec => []IInv
<1>1. QED
  BY InitIInv, NextIInv, PTL DEF Spec

(* Every variable keeps its type.                                              *)
THEOREM TypeCorrect == Spec => []TypeOK
<1>1. IInv => TypeOK
  BY DEF IInv
<1>2. QED
  BY <1>1, Invariance, PTL

(* What the group has committed past is in ClickHouse or in a live batch,      *)
(* unless it was refused or is known to be lost; and a row is repeated only by *)
(* a redelivery or a race (consumer.go:90-146).                                *)
THEOREM RowsAccounted == Spec => []EveryRowAccounted
<1>1. IInv => EveryRowAccounted
  <2> SUFFICES ASSUME IInv, NEW m \in 1..Len(log)
               PROVE  /\ m < committed /\ log[m] = "ok" =>
                            raw[m] > 0 \/ m \in lost \cup passed \/ \E w \in Workers : m \in batch[w]
                      /\ raw[m] <= rebalances + races
    BY DEF EveryRowAccounted
  <2>1. ASSUME m < committed, log[m] = "ok" PROVE Accounted(m)
    BY <2>1 DEF IInv, Promised, Covered
  <2>2. raw[m] <= rebalances + races
    <3>1. m \in Messages /\ raw[m] \in Nat /\ rebalances \in Nat /\ races \in Nat
      BY TopicFacts
    <3>2. Cardinality(Ahead(m)) \in Nat /\ raw[m] + Cardinality(Ahead(m)) <= rebalances + races
      BY <3>1, AheadFinite DEF IInv, Counted
    <3>3. QED
      BY <3>1, <3>2
  <2>3. QED
    BY <2>1, <2>2 DEF Accounted
<1>2. QED
  BY <1>1, Invariance, PTL

(* The daily sums are those of the rows, however the parts are merged, and no  *)
(* hour's row tells of more than there are, whatever the view and the          *)
(* backfills wrote (usage_events_analytics.sql:30-86, hourly.go:67-98).        *)
THEOREM TablesExact == Spec => []TablesAgree
<1>1. IInv => TablesAgree
  BY DEF IInv, Tabled
<1>2. QED
  BY <1>1, Invariance, PTL
=================================================================================
