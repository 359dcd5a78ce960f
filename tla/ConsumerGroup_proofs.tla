-------------------------- MODULE ConsumerGroup_proofs --------------------------
(* Facts about the consumer group, and about sums, that the proofs of the      *)
(* services cite.                                                              *)
EXTENDS ConsumerGroup, Sums, SequenceTheorems, FiniteSetTheorems, TLAPS

---------------------------------------------------------------------------------
(* Types.                                                                      *)

(* The group starts typed, whatever the labels.                                *)
LEMMA GroupInitOK == ASSUME NEW Labels, GroupInit PROVE GroupOK(Labels)
BY EmptySeq DEF GroupInit, GroupOK

(* A published message extends the topic and changes none of its messages.     *)
LEMMA ProduceAppends ==
    ASSUME NEW Labels, GroupOK(Labels), NEW e \in Events, Produce(e)
    PROVE  /\ log' \in Seq(Events)
           /\ Len(log) \in Nat /\ Len(log') = Len(log) + 1
           /\ \A m \in 1..Len(log) : log'[m] = log[m]
BY AppendProperties, LenProperties DEF Produce, GroupOK

LEMMA ProduceOK ==
    ASSUME NEW Labels, GroupOK(Labels), NEW e \in Events, Produce(e)
    PROVE  GroupOK(Labels)'
BY ProduceAppends DEF Produce, GroupOK, sessionVars

(* The group's own steps keep it typed.                                        *)
LEMMA SessionOK ==
    ASSUME NEW Labels, GroupOK(Labels), NEW w \in Workers,
           Join(w) \/ CommitOffset(w) \/ LeaveGroup(w) \/ CloseClaim(w) \/ Die(w)
    PROVE  GroupOK(Labels)'
<1> USE DEF GroupOK
<1>1. Len(log) \in Nat
  BY LenProperties
<1>2. CASE Join(w)
  <2>1. /\ rebalances' \in Nat /\ owner' \in Workers \cup {Nobody}
        /\ log' = log /\ committed' = committed
        /\ passed' = passed \cup 1..Len(log) \/ passed' = passed
    BY <1>2 DEF Join
  <2>2. pos' \in [Workers -> Nat \ {0}]
    <3>1. (IF committed = 0 THEN Len(log) + 1 ELSE committed) \in Nat \ {0}
      BY <1>1
    <3>2. QED
      BY <1>2, <3>1 DEF Join
  <2>3. /\ pc' \in [Workers -> Labels \cup {"out", "idle"}]
        /\ marked' \in [Workers -> Nat]
    BY <1>2 DEF Join
  <2>4. passed' \subseteq 1..Len(log')
    BY <2>1
  <2>5. QED
    BY <2>1, <2>2, <2>3, <2>4
<1>3. CASE CommitOffset(w)
  <2>1. committed' \in Nat
    BY <1>3 DEF CommitOffset
  <2>2. QED
    BY <1>3, <2>1 DEF CommitOffset
<1>4. ASSUME EndSession(w)
      PROVE  /\ pc' \in [Workers -> Labels \cup {"out", "idle"}]
             /\ pos' \in [Workers -> Nat \ {0}]
             /\ marked' \in [Workers -> Nat]
  BY <1>4 DEF EndSession
<1>5. CASE LeaveGroup(w)
  <2>1. committed' \in Nat
    BY <1>5 DEF LeaveGroup
  <2>2. QED
    BY <1>4, <1>5, <2>1 DEF LeaveGroup
<1>6. CASE CloseClaim(w) \/ Die(w)
  BY <1>4, <1>6 DEF CloseClaim, Die, sessionVars
<1>7. QED
  BY <1>2, <1>3, <1>5, <1>6

(* So do a handler's.                                                          *)
LEMMA GoToOK ==
    ASSUME NEW Labels, GroupOK(Labels), NEW w \in Workers,
           NEW label \in Labels \cup {"out", "idle"}, GoTo(w, label)
    PROVE  GroupOK(Labels)'
BY DEF GoTo, GroupOK, sessionVars

LEMMA MarkMessageOK ==
    ASSUME NEW Labels, GroupOK(Labels), NEW w \in Workers, MarkMessage(w)
    PROVE  GroupOK(Labels)'
<1>1. pos[w] + 1 \in Nat \ {0}
  BY DEF GroupOK
<1>2. QED
  BY <1>1 DEF MarkMessage, GroupOK, sessionVars

---------------------------------------------------------------------------------
(* What the positions stand for.                                               *)

(* Message m is behind a position: the committed one, or one that a session    *)
(* has marked or reached and may still commit.                                 *)
Covered(m) == \/ m < committed
              \/ \E w \in Workers : m < pos[w] \/ m < marked[w]

(* A session that commits, leaves, ends or dies covers no more than before:    *)
(* only assignments and marks do.                                              *)
LEMMA SessionCovers ==
    ASSUME NEW Labels, GroupOK(Labels), NEW w \in Workers, NEW m \in Nat \ {0},
           CommitOffset(w) \/ LeaveGroup(w) \/ CloseClaim(w) \/ Die(w), Covered(m)'
    PROVE  Covered(m)
<1> USE DEF GroupOK
<1>1. ASSUME EndSession(w), NEW v \in Workers, m < pos'[v] \/ m < marked'[v]
      PROVE  m < pos[v] \/ m < marked[v]
  BY <1>1 DEF EndSession
<1>2. committed' = committed \/ committed' = marked[w]
  BY DEF CommitOffset, LeaveGroup, CloseClaim, Die, sessionVars
<1>3. CASE CommitOffset(w)
  BY <1>2, <1>3 DEF CommitOffset, Covered
<1>4. CASE LeaveGroup(w) \/ CloseClaim(w) \/ Die(w)
  <2>1. EndSession(w)
    BY <1>4 DEF LeaveGroup, CloseClaim, Die
  <2>2. QED
    BY <1>1, <1>2, <2>1 DEF Covered
<1>5. QED
  BY <1>3, <1>4

(* No position is beyond the end of the topic, and a handler in a message is   *)
(* at one that is there.                                                       *)
InTopic ==
    /\ committed <= Len(log) + 1
    /\ \A w \in Workers : /\ pos[w] <= Len(log) + 1 /\ marked[w] <= Len(log) + 1
                          /\ pc[w] \notin {"out", "idle"} => pos[w] <= Len(log)

LEMMA InitInTopic == GroupInit => InTopic
BY DEF GroupInit, InTopic

LEMMA ProduceInTopic ==
    ASSUME NEW Labels, GroupOK(Labels), InTopic, NEW e \in Events, Produce(e)
    PROVE  InTopic'
<1>1. Len(log) \in Nat /\ Len(log') = Len(log) + 1
  BY ProduceAppends
<1>2. QED
  BY <1>1 DEF Produce, InTopic, GroupOK, sessionVars

LEMMA SessionInTopic ==
    ASSUME NEW Labels, GroupOK(Labels), InTopic, NEW w \in Workers,
           Join(w) \/ CommitOffset(w) \/ LeaveGroup(w) \/ CloseClaim(w) \/ Die(w)
    PROVE  InTopic'
<1> USE DEF GroupOK
<1>1. Len(log) \in Nat /\ UNCHANGED log
  BY LenProperties DEF Join, CommitOffset, LeaveGroup, CloseClaim, Die, sessionVars
<1>2. committed' <= Len(log) + 1
  BY <1>1 DEF Join, CommitOffset, LeaveGroup, CloseClaim, Die, InTopic, sessionVars
<1>3. ASSUME NEW v \in Workers
      PROVE  /\ pos'[v] <= Len(log) + 1 /\ marked'[v] <= Len(log) + 1
             /\ pc'[v] \notin {"out", "idle"} => pos'[v] <= Len(log)
  <2>1. CASE v # w
    BY <2>1
    DEF Join, CommitOffset, LeaveGroup, CloseClaim, Die, EndSession, InTopic
  <2>2. CASE CommitOffset(w)
    BY <2>2 DEF CommitOffset, InTopic
  <2>3. CASE v = w /\ ~ CommitOffset(w)
    <3>1. pc'[w] \in {"out", "idle"} /\ marked'[w] = 0
      BY <2>3 DEF Join, LeaveGroup, CloseClaim, Die, EndSession
    <3>2. pos'[w] \in {1, Len(log) + 1, committed}
      BY <2>3 DEF Join, LeaveGroup, CloseClaim, Die, EndSession
    <3>3. QED
      BY <1>1, <2>3, <3>1, <3>2 DEF InTopic
  <2>4. QED
    BY <2>1, <2>2, <2>3
<1>4. QED
  BY <1>1, <1>2, <1>3 DEF InTopic

LEMMA GoToInTopic ==
    ASSUME NEW Labels, GroupOK(Labels), InTopic, NEW w \in Workers, NEW label,
           GoTo(w, label), pos[w] <= Len(log)
    PROVE  InTopic'
BY DEF GoTo, InTopic, GroupOK, sessionVars

LEMMA MarkInTopic ==
    ASSUME NEW Labels, GroupOK(Labels), InTopic, NEW w \in Workers,
           MarkMessage(w), pos[w] <= Len(log)
    PROVE  InTopic'
<1>1. Len(log) \in Nat
  BY LenProperties DEF GroupOK
<1>2. QED
  BY <1>1 DEF MarkMessage, InTopic, GroupOK, sessionVars

(* An assignment covers what it starts behind: the committed messages, or all  *)
(* of them, which it adds to passed.                                           *)
LEMMA JoinCovers ==
    ASSUME NEW Labels, GroupOK(Labels), NEW w \in Workers,
           NEW m \in 1..Len(log), Join(w), Covered(m)'
    PROVE  Covered(m) \/ m \in passed'
<1> USE DEF GroupOK
<1>1. Len(log) \in Nat
  BY LenProperties
<1>2. CASE committed = 0
  BY <1>2 DEF Join
<1>3. CASE committed # 0
  BY <1>1, <1>3 DEF Join, Covered
<1>4. QED
  BY <1>2, <1>3

(* A mark covers the message at hand besides.                                  *)
LEMMA MarkCovers ==
    ASSUME NEW Labels, GroupOK(Labels), NEW w \in Workers, NEW m \in Nat \ {0},
           MarkMessage(w), Covered(m)'
    PROVE  Covered(m) \/ m = pos[w]
<1> USE DEF GroupOK
<1>1. /\ committed' = committed
      /\ pos' = [pos EXCEPT ![w] = pos[w] + 1]
      /\ marked' = [marked EXCEPT ![w] = pos[w] + 1]
  BY DEF MarkMessage, sessionVars
<1>2. pos[w] \in Nat
  OBVIOUS
<1>3. CASE m < pos[w]
  BY <1>3 DEF Covered
<1>4. CASE m > pos[w]
  BY <1>1, <1>2, <1>4 DEF Covered
<1>5. QED
  BY <1>2, <1>3, <1>4

---------------------------------------------------------------------------------
(* Sums.                                                                       *)

(* The pairs of one element with k numbers are k.                              *)
LEMMA Block ==
    \A x, B, n, k : n \in Nat /\ k \in Nat /\ B = {x} \X ((n + 1)..(n + k))
                    => IsFiniteSet(B) /\ Cardinality(B) = k
<1> SUFFICES ASSUME NEW x, NEW B, NEW n \in Nat, NEW k \in Nat, B = {x} \X ((n + 1)..(n + k))
             PROVE  IsFiniteSet(B) /\ Cardinality(B) = k
  OBVIOUS
<1> DEFINE h == [i \in 1..k |-> <<x, n + i>>]
<1>1. h \in Bijection(1..k, B)
  <2>1. \A i \in 1..k : h[i] \in B
    OBVIOUS
  <2>2. \A i, j \in 1..k : h[i] = h[j] => i = j
    OBVIOUS
  <2>3. ASSUME NEW e \in B PROVE \E i \in 1..k : h[i] = e
    <3>1. PICK j \in (n + 1)..(n + k) : e = <<x, j>>
      OBVIOUS
    <3>2. j - n \in 1..k /\ n + (j - n) = j
      OBVIOUS
    <3>3. QED
      BY <3>1, <3>2
  <2>4. QED
    BY <2>1, <2>2, <2>3 DEF Bijection, Injection, Surjection, IsInjective
<1> HIDE DEF h
<1>2. ExistsBijection(1..k, B)
  BY <1>1 DEF ExistsBijection
<1>3. IsFiniteSet(1..k) /\ Cardinality(1..k) = k
  <2>1. k \in Int /\ 1 \in Int /\ k >= 0
    OBVIOUS
  <2>2. IsFiniteSet(1..k) /\ Cardinality(1..k) = IF 1 > k THEN 0 ELSE k - 1 + 1
    BY <2>1, FS_Interval, Zenon
  <2>3. QED
    BY <2>1, <2>2
<1>4. QED
  BY <1>2, <1>3, FS_Bijection

LEMMA BlockCount ==
    \A x, B, n, k : n \in Nat /\ k \in Nat /\ B = {x} \X ((n + 1)..(n + k))
                    => Cardinality(B) = k
  BY Block, Zenon

LEMMA UnitsFinite ==
    ASSUME NEW S, IsFiniteSet(S), NEW f \in [S -> Nat]
    PROVE  IsFiniteSet(Units(f)) /\ Total(f) = Cardinality(Units(f)) /\ Total(f) \in Nat
<1> DEFINE P == {{x} \X (1..f[x]) : x \in S}
           h == [x \in S |-> {x} \X (1..f[x])]
<1>1. h \in Surjection(S, P)
  BY DEF Surjection
<1>2. ASSUME NEW T \in P PROVE IsFiniteSet(T)
  <2>1. PICK x \in S : T = {x} \X (1..f[x])
    OBVIOUS
  <2>2. T = {x} \X ((0 + 1)..(0 + f[x])) /\ f[x] \in Nat /\ 0 \in Nat
    BY <2>1
  <2>3. QED
    BY <2>2, Block
<1>3. Units(f) = UNION P /\ Total(f) = Cardinality(Units(f))
  BY DEF Units, Total
<1> HIDE DEF P, h
<1>4. IsFiniteSet(P)
  BY <1>1, FS_Surjection
<1>5. IsFiniteSet(UNION P)
  BY <1>2, <1>4, FS_UNION
<1>6. QED
  BY <1>3, <1>5, FS_CardinalityType

(* A value that grows by k, be it a new one's, lets the sum grow by k.         *)
Grows(S, f, x, k, g) ==
    /\ IsFiniteSet(S) /\ f \in [S -> Nat] /\ g \in [S \cup {x} -> Nat]
    /\ \A y \in S \ {x} : g[y] = f[y]
    /\ g[x] = (IF x \in S THEN f[x] ELSE 0) + k

LEMMA TotalStep ==
    ASSUME NEW S, NEW f, NEW x, NEW k \in Nat, NEW g, Grows(S, f, x, k, g)
    PROVE  Total(g) = Total(f) + k
<1> DEFINE n == IF x \in S THEN f[x] ELSE 0
           B == {x} \X ((n + 1)..(n + k))
<1>1. n \in Nat /\ g[x] = n + k /\ \A y \in S \ {x} : g[y] = f[y]
  BY DEF Grows
<1>2. \A e : e \in Units(f) <=> \E y \in S : \E i \in 1..f[y] : e = <<y, i>>
  BY DEF Units, Grows
<1>3. \A e : e \in Units(g) <=> \E y \in S \cup {x} : \E i \in 1..g[y] : e = <<y, i>>
  BY DEF Units, Grows
<1>4. \A e : e \in B <=> \E i \in (n + 1)..(n + k) : e = <<x, i>>
  OBVIOUS
<1>5. \A i : i \in 1..(n + k) <=> (i \in 1..n \/ i \in (n + 1)..(n + k))
  BY <1>1
<1>6. x \in S => f[x] = n
  OBVIOUS
<1>7. x \notin S => 1..n = {}
  BY <1>1
<1> HIDE DEF n, B
<1>8. ASSUME NEW e \in Units(g) PROVE e \in Units(f) \cup B
  <2>0. PICK y \in S \cup {x} : \E i \in 1..g[y] : e = <<y, i>>
    BY <1>3
  <2>1. PICK i \in 1..g[y] : e = <<y, i>>
    BY <2>0
  <2>2. CASE y = x
    BY <1>1, <1>2, <1>4, <1>5, <1>6, <1>7, <2>1, <2>2
  <2>3. CASE y # x
    BY <1>1, <1>2, <2>1, <2>3
  <2>4. QED
    BY <2>2, <2>3
<1>9. ASSUME NEW e \in Units(f) PROVE e \in Units(g) /\ e \notin B
  <2>0. PICK y \in S : \E i \in 1..f[y] : e = <<y, i>>
    BY <1>2
  <2>1. PICK i \in 1..f[y] : e = <<y, i>>
    BY <2>0
  <2>2. CASE y = x
    <3>1. i \in 1..n /\ i \in 1..g[x] /\ i \notin (n + 1)..(n + k)
      BY <1>1, <1>5, <1>6, <2>1, <2>2
    <3>2. QED
      BY <1>3, <1>4, <2>1, <2>2, <3>1
  <2>3. CASE y # x
    BY <1>1, <1>3, <1>4, <2>1, <2>3
  <2>4. QED
    BY <2>2, <2>3
<1>10. B \subseteq Units(g)
  BY <1>1, <1>3, <1>4, <1>5
<1>11. Units(g) = Units(f) \cup B /\ Units(f) \cap B = {}
  BY <1>8, <1>9, <1>10
<1>12. IsFiniteSet(B) /\ Cardinality(B) = k
  <2>1. B = {x} \X ((n + 1)..(n + k))
    BY DEF B
  <2>2. n \in Nat
    BY <1>1
  <2>3. n \in Nat /\ k \in Nat /\ B = {x} \X ((n + 1)..(n + k))
    BY <2>1, <2>2
  <2>4. Cardinality(B) = k
    BY <2>3, BlockCount
  <2>5. IsFiniteSet(B)
    BY <2>3, Block
  <2>6. QED
    BY <2>4, <2>5
<1>13. IsFiniteSet(Units(f)) /\ Cardinality(Units(f)) = Total(f) /\ Total(f) \in Nat
  BY UnitsFinite DEF Grows
<1>14. Cardinality(Units(f) \cup B) = Cardinality(Units(f)) + Cardinality(B) - Cardinality({})
  BY <1>11, <1>12, <1>13, FS_Union
<1>15. Total(g) = Cardinality(Units(g))
  BY DEF Total
<1>16. Cardinality({}) = 0
  BY FS_EmptySet
<1>17. QED
  BY <1>11, <1>12, <1>13, <1>14, <1>15, <1>16

(* A sum over finitely many natural numbers is one.                            *)
LEMMA TotalType == \A S, f : IsFiniteSet(S) /\ f \in [S -> Nat] => Total(f) \in Nat
  BY UnitsFinite

LEMMA TotalZero == ASSUME NEW f, \A x \in DOMAIN f : f[x] = 0 PROVE Total(f) = 0
<1>1. UNION {{x} \X (1..f[x]) : x \in DOMAIN f} = {}
  OBVIOUS
<1>2. QED
  BY <1>1, FS_EmptySet DEF Total, Units

LEMMA IntervalFinite == \A n \in Nat : IsFiniteSet(1..n)
<1> SUFFICES ASSUME NEW n \in Nat PROVE IsFiniteSet(1..n)
  OBVIOUS
<1>1. n \in Int /\ 1 \in Int
  OBVIOUS
<1>2. QED
  BY <1>1, FS_Interval, Zenon

(* A sum of smaller values, of fewer elements, is not above the other.         *)
LEMMA TotalMonotone ==
    \A S, T, f, g : /\ IsFiniteSet(T) /\ S \subseteq T
                    /\ f \in [S -> Nat] /\ g \in [T -> Nat]
                    /\ \A x \in S : f[x] <= g[x]
                    => Total(f) <= Total(g)
<1> SUFFICES ASSUME NEW S, NEW T, NEW f, NEW g, IsFiniteSet(T), S \subseteq T,
                    f \in [S -> Nat], g \in [T -> Nat], \A x \in S : f[x] <= g[x]
             PROVE  Total(f) <= Total(g)
  OBVIOUS
<1>1. IsFiniteSet(Units(g)) /\ Total(g) = Cardinality(Units(g))
  BY UnitsFinite
<1>2. ASSUME NEW e \in Units(f) PROVE e \in Units(g)
  <2>1. PICK x \in S : \E i \in 1..f[x] : e = <<x, i>>
    BY DEF Units
  <2>2. PICK i \in 1..f[x] : e = <<x, i>>
    BY <2>1
  <2>3. x \in T /\ i \in 1..g[x]
    BY <2>2
  <2>4. QED
    BY <2>2, <2>3 DEF Units
<1>3. Cardinality(Units(f)) <= Cardinality(Units(g))
  BY <1>1, <1>2, FS_Subset
<1>4. QED
  BY <1>1, <1>3 DEF Total

(* Pairs of the elements of a set with one number each are as many.            *)
LEMMA Paired ==
    \A B, P, n : IsFiniteSet(B) /\ P = {<<x, n[x]>> : x \in B}
                  => IsFiniteSet(P) /\ Cardinality(P) = Cardinality(B)
<1> SUFFICES ASSUME NEW B, NEW P, NEW n, IsFiniteSet(B), P = {<<x, n[x]>> : x \in B}
             PROVE  IsFiniteSet(P) /\ Cardinality(P) = Cardinality(B)
  OBVIOUS
<1> DEFINE h == [x \in B |-> <<x, n[x]>>]
<1>1. h \in Bijection(B, P)
  <2>1. \A x, y \in B : h[x] = h[y] => x = y
    OBVIOUS
  <2>2. h \in [B -> P] /\ \A e \in P : \E x \in B : h[x] = e
    OBVIOUS
  <2>3. QED
    BY <2>1, <2>2 DEF Bijection, Injection, Surjection, IsInjective
<1> HIDE DEF h
<1>2. ExistsBijection(B, P)
  BY <1>1 DEF ExistsBijection
<1>3. QED
  BY <1>2, FS_Bijection

(* A set of elements whose values are not 0 is not larger than the sum.        *)
LEMMA TotalCovers ==
    \A S, f, B : /\ IsFiniteSet(S) /\ f \in [S -> Nat]
                 /\ B \subseteq S /\ \A x \in B : f[x] > 0
                 => Cardinality(B) <= Total(f)
<1> SUFFICES ASSUME NEW S, NEW f, NEW B, IsFiniteSet(S), f \in [S -> Nat],
                    B \subseteq S, \A x \in B : f[x] > 0
             PROVE  Cardinality(B) <= Total(f)
  OBVIOUS
<1> DEFINE n == [x \in B |-> 1]
           P == {<<x, n[x]>> : x \in B}
<1>1. IsFiniteSet(Units(f)) /\ Total(f) = Cardinality(Units(f))
  BY UnitsFinite
<1>2. P \subseteq Units(f)
  <2>1. \A x \in B : 1 \in 1..f[x]
    OBVIOUS
  <2>2. \A x \in B : <<x, n[x]>> \in Units(f)
    BY <2>1 DEF Units
  <2>3. QED
    BY <2>2
<1>3. IsFiniteSet(B)
  BY FS_Subset
<1> HIDE DEF n
<1>4. Cardinality(P) = Cardinality(B)
  BY <1>3, Paired
<1>5. Cardinality(P) <= Cardinality(Units(f))
  BY <1>1, <1>2, FS_Subset
<1>6. QED
  BY <1>1, <1>4, <1>5

(* Where the values of a set's elements grow by 1 the sum grows by the size of *)
(* the set.                                                                    *)
Raises(S, f, B, g) ==
    /\ IsFiniteSet(S) /\ f \in [S -> Nat] /\ g \in [S -> Nat] /\ B \subseteq S
    /\ \A x \in S : g[x] = IF x \in B THEN f[x] + 1 ELSE f[x]

LEMMA TotalRaised ==
    ASSUME NEW S, NEW f, NEW B, NEW g, Raises(S, f, B, g)
    PROVE  IsFiniteSet(B) /\ Total(g) = Total(f) + Cardinality(B)
<1> DEFINE n == [x \in B |-> f[x] + 1]
           P == {<<x, n[x]>> : x \in B}
<1> USE DEF Raises
<1>1. IsFiniteSet(Units(f)) /\ Total(f) = Cardinality(Units(f)) /\ Total(f) \in Nat
  BY UnitsFinite
<1>2. IsFiniteSet(B)
  BY FS_Subset
<1>3. ASSUME NEW e \in Units(g) PROVE e \in Units(f) \cup P
  <2>1. PICK x \in S : \E i \in 1..g[x] : e = <<x, i>>
    BY DEF Units
  <2>2. PICK i \in 1..g[x] : e = <<x, i>>
    BY <2>1
  <2>3. CASE x \in B /\ i = f[x] + 1
    BY <2>2, <2>3
  <2>4. CASE ~(x \in B /\ i = f[x] + 1)
    <3>1. i \in 1..f[x]
      BY <2>2, <2>4
    <3>2. QED
      BY <2>2, <3>1 DEF Units
  <2>5. QED
    BY <2>3, <2>4
<1>4. ASSUME NEW e \in Units(f) PROVE e \in Units(g) /\ e \notin P
  <2>1. PICK x \in S : \E i \in 1..f[x] : e = <<x, i>>
    BY DEF Units
  <2>2. PICK i \in 1..f[x] : e = <<x, i>>
    BY <2>1
  <2>3. i \in 1..g[x] /\ i # f[x] + 1
    BY <2>2
  <2>4. e \in Units(g)
    BY <2>2, <2>3 DEF Units
  <2>5. e \notin P
    BY <2>2, <2>3
  <2>6. QED
    BY <2>4, <2>5
<1>5. P \subseteq Units(g)
  <2>1. \A x \in B : n[x] \in 1..g[x]
    OBVIOUS
  <2>2. \A x \in B : <<x, n[x]>> \in Units(g)
    BY <2>1 DEF Units
  <2>3. QED
    BY <2>2
<1>6. Units(g) = Units(f) \cup P /\ Units(f) \cap P = {}
  BY <1>3, <1>4, <1>5
<1> HIDE DEF n
<1>7. IsFiniteSet(P) /\ Cardinality(P) = Cardinality(B) /\ Cardinality(B) \in Nat
  BY <1>2, Paired, FS_CardinalityType
<1> HIDE DEF P
<1>8. Cardinality(Units(f) \cup P) = Cardinality(Units(f)) + Cardinality(P) - Cardinality({})
  BY <1>1, <1>6, <1>7, FS_Union
<1>9. Cardinality({}) = 0
  BY FS_EmptySet
<1>10. QED
  BY <1>1, <1>2, <1>6, <1>7, <1>8, <1>9 DEF Total
=================================================================================
