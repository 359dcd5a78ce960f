--------------------------- MODULE AlertEngine_proofs ---------------------------
(* Proofs about AlertEngine for every set of workers and events and every      *)
(* bound.                                                                      *)
EXTENDS AlertEngine, ConsumerGroup_proofs, FiniteSetTheorems

---------------------------------------------------------------------------------
(* The inductive invariant.                                                    *)

GroupPart == /\ GroupOK(InProcess) /\ InTopic
             /\ Len(log) <= MaxLog /\ rebalances <= MaxRebalances

(* What a handler does once for each message, and where it is before it.       *)
Steps == {"mail", "anomaly", "event"}
Before(s) == CASE s = "mail" -> {"idle"}
               [] s = "anomaly" -> {"idle", "anomaly"}
               [] s = "event" -> {"idle", "anomaly", "persist"}

(* The handlers that may still come to step s of message m.                    *)
Ahead(m, s) == {w \in Workers : /\ pc[w] # "out"
                                /\ pos[w] < m \/ (pos[w] = m /\ pc[w] \in Before(s))}
Done(m, s) == IF s = "mail" THEN mails[m] ELSE Cardinality(Copies(m, s))

(* Each assignment lets one more handler come to a message, and no handler     *)
(* comes to it twice: what was done and what may still be done are no more     *)
(* than the assignments.                                                       *)
Counted ==
    /\ IsFiniteSet({w \in Workers : pc[w] # "out"})
    /\ mails \in [1..MaxLog -> Nat]
    /\ \A m \in 1..MaxLog, s \in Steps : Done(m, s) + Cardinality(Ahead(m, s)) <= rebalances

(* The rows: each is told from the other copies of its alert by its number,    *)
(* and an event's time from an anomaly's.                                      *)
RowOK(x) == /\ x \in [copy : Nat \ {0}, msg : 1..MaxLog, what : Kinds, at : Nat, read : BOOLEAN]
            /\ x.msg <= Len(log)
            /\ x.copy <= Cardinality(Copies(x.msg, x.what))
            /\ IF x.what = "event" THEN x.at = 2 * x.msg
               ELSE \E n \in 0..Len(log) : x.at = 2 * n + 1

Stored ==
    /\ IsFiniteSet(rows)
    /\ \A x \in rows : RowOK(x)
    /\ \A x, y \in rows : x.msg = y.msg /\ x.what = y.what /\ x.copy = y.copy => x = y

(* A budget alert whose handler is past the mail was mailed or its failure     *)
(* logged; of a message behind every position the row is settled too.          *)
MailTold(m) == log[m].kind = "budget" => mails[m] > 0 \/ <<"mail", m>> \in lost
RowTold(m) == Copies(m, "event") # {} \/ <<"row", m>> \in lost

Told ==
    /\ lost \subseteq {"mail", "row"} \X (1..MaxLog)
    /\ \A w \in Workers : pc[w] \in InProcess => MailTold(pos[w])
    /\ \A m \in 1..Len(log) :
          Covered(m) /\ m \notin passed /\ log[m].kind # "garbled" => RowTold(m) /\ MailTold(m)

(* The rows that a page at offset k comes before or shows, if there are more   *)
(* than k of them that are not older than x.                                   *)
NotOlder(x) == {y \in Listed : ~Newer(x, y)}

ListOK == list \in [at : {"closed", "open", "end"}, filter : Filter, offset : Nat,
                    due : SUBSET ((1..MaxLog) \X Kinds)]

(* Every alert the walk has yet to show has a row at or behind its offset,     *)
(* unless the list is of unread alerts.                                        *)
Walk ==
    /\ acks \in 0..MaxAcks
    /\ ListOK
    /\ list.at # "open" /\ list.filter.read # "unread" => list.due = {}
    /\ list.at = "open" /\ list.filter.read # "unread" =>
          \A d \in list.due :
             \E x \in Listed : <<x.msg, x.what>> = d /\ Cardinality(NotOlder(x)) > list.offset

IInv == GroupPart /\ Counted /\ Stored /\ Told /\ Walk
---------------------------------------------------------------------------------
(* Facts about finite sets.                                                    *)

(* Among sets of elements of a finite set one is the smallest of its part.     *)
LEMMA Minimal ==
    ASSUME NEW S, IsFiniteSet(S), NEW T, T \subseteq SUBSET S, T # {}
    PROVE  \E A \in T : \A B \in T : B \subseteq A => B = A
<1>1. IsWellFoundedOn(StrictSubsetOrdering(S), FiniteSubsetsOf(S))
  BY FS_StrictSubsetOrderingWellFounded
<1>2. T \subseteq FiniteSubsetsOf(S)
  BY FS_FiniteSubsetsOfFinite
<1>3. PICK A \in T : \A B \in T : <<B, A>> \notin StrictSubsetOrdering(S)
  BY <1>1, <1>2, WFMin
<1>4. ASSUME NEW B \in T, B \subseteq A PROVE B = A
  <2>1. SUFFICES ASSUME B # A PROVE FALSE
    OBVIOUS
  <2>2. <<B, A>> \in (SUBSET S) \X (SUBSET S)
    OBVIOUS
  <2>3. <<B, A>>[1] \subseteq <<B, A>>[2] /\ <<B, A>>[1] # <<B, A>>[2]
    BY <1>4, <2>1
  <2>4. QED
    BY <1>3, <2>2, <2>3 DEF StrictSubsetOrdering
<1>5. QED
  BY <1>3, <1>4

(* A set keeps its size when its elements are renamed one to one.              *)
LEMMA Renamed ==
    ASSUME NEW A, NEW B, IsFiniteSet(A), NEW f \in [A -> B],
           \A x, y \in A : f[x] = f[y] => x = y,
           \A z \in B : \E x \in A : f[x] = z
    PROVE  IsFiniteSet(B) /\ Cardinality(B) = Cardinality(A)
<1>1. f \in Bijection(A, B)
  BY DEF Bijection, Injection, Surjection, IsInjective
<1>2. ExistsBijection(A, B)
  BY <1>1 DEF ExistsBijection
<1>3. QED
  BY <1>2, FS_Bijection

---------------------------------------------------------------------------------
(* Counting the deliveries.                                                    *)

LEMMA AheadFinite ==
    ASSUME Counted, NEW m, NEW s
    PROVE  /\ IsFiniteSet(Ahead(m, s)) /\ Cardinality(Ahead(m, s)) \in Nat
           /\ Ahead(m, s) \subseteq {w \in Workers : pc[w] # "out"}
<1>1. Ahead(m, s) \subseteq {w \in Workers : pc[w] # "out"}
  BY DEF Ahead
<1>2. IsFiniteSet(Ahead(m, s))
  BY <1>1, FS_Subset DEF Counted
<1>3. QED
  BY <1>1, <1>2, FS_CardinalityType

LEMMA DoneType ==
    ASSUME Counted, Stored, NEW m \in 1..MaxLog, NEW s \in Steps
    PROVE  Done(m, s) \in Nat
<1>1. CASE s = "mail"
  BY <1>1 DEF Done, Counted
<1>2. CASE s # "mail"
  <2>1. Copies(m, s) \subseteq rows
    BY DEF Copies
  <2>2. IsFiniteSet(Copies(m, s))
    BY <2>1, FS_Subset DEF Stored
  <2>3. QED
    BY <1>2, <2>2, FS_CardinalityType DEF Done
<1>3. QED
  BY <1>1, <1>2

(* A step that is not an assignment keeps the count: no handler comes to a     *)
(* message again, and one that does a step has then left it behind.            *)
LEMMA CountedFrame ==
    ASSUME Counted, Stored, UNCHANGED rebalances, rebalances \in Nat,
           mails' \in [1..MaxLog -> Nat],
           \A w \in Workers : pc[w] = "out" => pc'[w] = "out",
           \A m \in 1..MaxLog, s \in Steps :
              /\ Ahead(m, s)' \subseteq Ahead(m, s)
              /\ \/ Done(m, s)' = Done(m, s)
                 \/ /\ Done(m, s)' \in Nat /\ Done(m, s)' <= Done(m, s) + 1
                    /\ Ahead(m, s)' # Ahead(m, s)
    PROVE  Counted'
<1>1. IsFiniteSet({w \in Workers : pc[w] # "out"})'
  <2>1. {w \in Workers : pc[w] # "out"}' \subseteq {w \in Workers : pc[w] # "out"}
    OBVIOUS
  <2>2. QED
    BY <2>1, FS_Subset DEF Counted
<1>2. ASSUME NEW m \in 1..MaxLog, NEW s \in Steps
      PROVE  (Done(m, s) + Cardinality(Ahead(m, s)) <= rebalances)'
  <2>1. /\ IsFiniteSet(Ahead(m, s)) /\ Cardinality(Ahead(m, s)) \in Nat
        /\ Done(m, s) \in Nat /\ Done(m, s) + Cardinality(Ahead(m, s)) <= rebalances
    BY AheadFinite, DoneType DEF Counted
  <2>2. Ahead(m, s)' \subseteq Ahead(m, s)
    OBVIOUS
  <2>3. /\ IsFiniteSet(Ahead(m, s)') /\ Cardinality(Ahead(m, s)') <= Cardinality(Ahead(m, s))
        /\ Ahead(m, s)' # Ahead(m, s) => Cardinality(Ahead(m, s)') # Cardinality(Ahead(m, s))
    BY <2>1, <2>2, FS_Subset
  <2>4. Cardinality(Ahead(m, s)') \in Nat
    BY <2>3, FS_CardinalityType
  <2>5. CASE Done(m, s)' = Done(m, s)
    BY <2>1, <2>3, <2>4, <2>5
  <2>6. CASE /\ Done(m, s)' \in Nat /\ Done(m, s)' <= Done(m, s) + 1
             /\ Ahead(m, s)' # Ahead(m, s)
    BY <2>1, <2>3, <2>4, <2>6
  <2>7. QED
    BY <2>5, <2>6
<1>3. QED
  BY <1>1, <1>2 DEF Counted

(* An assignment adds one handler.                                             *)
LEMMA JoinCounted ==
    ASSUME GroupPart, Counted, Stored, NEW w \in Workers, Join(w), UNCHANGED <<mails, rows>>
    PROVE  Counted' /\ rebalances' <= MaxRebalances
<1>1. /\ pc[w] = "out" /\ pc' = [pc EXCEPT ![w] = "idle"]
      /\ \A v \in Workers \ {w} : pc'[v] = pc[v] /\ pos'[v] = pos[v]
      /\ rebalances' = rebalances + 1 /\ rebalances < MaxRebalances
      /\ rebalances \in Nat
  BY DEF Join, GroupPart, GroupOK
<1>2. IsFiniteSet({v \in Workers : pc[v] # "out"}')
  <2>1. {v \in Workers : pc[v] # "out"}' \subseteq {v \in Workers : pc[v] # "out"} \cup {w}
    BY <1>1
  <2>2. IsFiniteSet({v \in Workers : pc[v] # "out"} \cup {w})
    BY FS_AddElement DEF Counted
  <2>3. QED
    BY <2>1, <2>2, FS_Subset
<1>3. ASSUME NEW m \in 1..MaxLog, NEW s \in Steps
      PROVE  (Done(m, s) + Cardinality(Ahead(m, s)) <= rebalances)'
  <2>1. /\ IsFiniteSet(Ahead(m, s)) /\ Cardinality(Ahead(m, s)) \in Nat
        /\ Done(m, s) \in Nat /\ Done(m, s) + Cardinality(Ahead(m, s)) <= rebalances
    BY AheadFinite, DoneType DEF Counted
  <2>2. Ahead(m, s)' \subseteq Ahead(m, s) \cup {w}
    BY <1>1 DEF Ahead
  <2>3. /\ IsFiniteSet(Ahead(m, s) \cup {w})
        /\ Cardinality(Ahead(m, s) \cup {w}) <= Cardinality(Ahead(m, s)) + 1
        /\ Cardinality(Ahead(m, s) \cup {w}) \in Nat
    <3>1. /\ IsFiniteSet(Ahead(m, s) \cup {w})
          /\ \/ Cardinality(Ahead(m, s) \cup {w}) = Cardinality(Ahead(m, s))
             \/ Cardinality(Ahead(m, s) \cup {w}) = Cardinality(Ahead(m, s)) + 1
      BY <2>1, FS_AddElement
    <3>2. QED
      BY <2>1, <3>1
  <2>4. /\ IsFiniteSet(Ahead(m, s)')
        /\ Cardinality(Ahead(m, s)') <= Cardinality(Ahead(m, s) \cup {w})
    BY <2>2, <2>3, FS_Subset
  <2>5. Cardinality(Ahead(m, s)') \in Nat
    BY <2>4, FS_CardinalityType
  <2>6. Done(m, s)' = Done(m, s)
    BY DEF Done, Copies
  <2>7. QED
    BY <1>1, <2>1, <2>3, <2>4, <2>5, <2>6
<1>4. rebalances' <= MaxRebalances
  BY <1>1, BoundsAssumption
<1>5. QED
  BY <1>2, <1>3, <1>4 DEF Counted

(* The session's other steps let nobody come to a message again.               *)
LEMMA SessionAhead ==
    ASSUME NEW w \in Workers, NEW m, NEW s, GroupPart,
           CommitOffset(w) \/ LeaveGroup(w) \/ CloseClaim(w) \/ Die(w)
    PROVE  /\ Ahead(m, s)' \subseteq Ahead(m, s)
           /\ UNCHANGED rebalances
           /\ \A v \in Workers : pc[v] = "out" => pc'[v] = "out"
<1>1. \A v \in Workers : pc'[v] = "out" \/ (pc'[v] = pc[v] /\ pos'[v] = pos[v])
  BY DEF CommitOffset, LeaveGroup, CloseClaim, Die, EndSession, GroupPart, GroupOK
<1>2. UNCHANGED rebalances
  BY DEF CommitOffset, LeaveGroup, CloseClaim, Die, sessionVars
<1>3. QED
  BY <1>1, <1>2 DEF Ahead

(* A handler that goes on to a label has left the steps before it behind.      *)
LEMMA GoToAhead ==
    ASSUME NEW w \in Workers, NEW m, NEW s, GroupPart, NEW label,
           GoTo(w, label), pc[w] # "out", label \in Before(s) => pc[w] \in Before(s)
    PROVE  /\ Ahead(m, s)' \subseteq Ahead(m, s)
           /\ m = pos[w] /\ pc[w] \in Before(s) /\ label \notin Before(s) =>
                Ahead(m, s)' # Ahead(m, s)
<1>1. /\ pos' = pos /\ pc'[w] = label
      /\ \A v \in Workers \ {w} : pc'[v] = pc[v]
      /\ pos[w] \in Nat
  BY DEF GoTo, GroupPart, GroupOK
<1>2. ASSUME NEW v \in Ahead(m, s)' PROVE v \in Ahead(m, s)
  BY <1>1, <1>2 DEF Ahead
<1>3. ASSUME m = pos[w], pc[w] \in Before(s), label \notin Before(s)
      PROVE  w \in Ahead(m, s) /\ w \notin Ahead(m, s)'
  BY <1>1, <1>3 DEF Ahead
<1>4. QED
  BY <1>2, <1>3

(* One that marks its message has left all of its steps behind.                *)
LEMMA MarkAhead ==
    ASSUME NEW w \in Workers, NEW m \in Nat, NEW s \in Steps, GroupPart,
           MarkMessage(w), pc[w] # "out"
    PROVE  /\ Ahead(m, s)' \subseteq Ahead(m, s)
           /\ m = pos[w] /\ pc[w] \in Before(s) => Ahead(m, s)' # Ahead(m, s)
           /\ UNCHANGED rebalances /\ \A v \in Workers : pc[v] = "out" => pc'[v] = "out"
<1>1. /\ pos'[w] = pos[w] + 1 /\ pc'[w] = "idle"
      /\ \A v \in Workers \ {w} : pc'[v] = pc[v] /\ pos'[v] = pos[v]
      /\ pos[w] \in Nat
  BY DEF MarkMessage, GroupPart, GroupOK
<1>2. ASSUME NEW v \in Ahead(m, s)' PROVE v \in Ahead(m, s)
  <2>1. v \in Workers /\ pc'[v] # "out" /\ (pos'[v] < m \/ (pos'[v] = m /\ pc'[v] \in Before(s)))
    BY <1>2 DEF Ahead
  <2>2. CASE v = w
    <3>1. pos[w] < m
      BY <1>1, <2>1, <2>2
    <3>2. QED
      BY <2>2, <3>1 DEF Ahead
  <2>3. CASE v # w
    BY <1>1, <2>1, <2>3 DEF Ahead
  <2>4. QED
    BY <2>2, <2>3
<1>3. ASSUME m = pos[w], pc[w] \in Before(s)
      PROVE  w \in Ahead(m, s) /\ w \notin Ahead(m, s)'
  <2>1. w \in Ahead(m, s)
    BY <1>3 DEF Ahead
  <2>2. ~(pos'[w] < m \/ pos'[w] = m)
    BY <1>1, <1>3
  <2>3. QED
    BY <2>1, <2>2 DEF Ahead
<1>4. UNCHANGED rebalances
  BY DEF MarkMessage, sessionVars
<1>5. QED
  BY <1>1, <1>2, <1>3, <1>4
---------------------------------------------------------------------------------
(* The table.                                                                  *)

LEMMA CopiesFinite ==
    ASSUME Stored, NEW m, NEW what
    PROVE  IsFiniteSet(Copies(m, what)) /\ Cardinality(Copies(m, what)) \in Nat
<1>1. Copies(m, what) \subseteq rows
  BY DEF Copies
<1>2. IsFiniteSet(Copies(m, what))
  BY <1>1, FS_Subset DEF Stored
<1>3. QED
  BY <1>2, FS_CardinalityType

(* An insert adds one copy of one alert, with a number that no other has.      *)
LEMMA InsertStored ==
    ASSUME GroupPart, Stored, NEW w \in Workers, NEW what \in Kinds, NEW p, p = pos[w],
           p <= Len(log), Insert(w, what), UNCHANGED log
    PROVE  /\ Stored'
           /\ rows \subseteq rows'
           /\ Copies(p, what)' # {}
           /\ Cardinality(Copies(p, what)') = Cardinality(Copies(p, what)) + 1
           /\ \A m, k : m # p \/ k # what => Copies(m, k)' = Copies(m, k)
<1>1. PICK n \in Nat : n = Cardinality(Copies(p, what))
  BY CopiesFinite
<1>2. PICK new : /\ new = [msg |-> p, what |-> what, copy |-> n + 1,
                           at |-> IF what = "event" THEN 2 * p ELSE 2 * Len(log) + 1,
                           read |-> FALSE]
                 /\ rows' = rows \cup {new}
  BY <1>1, p = pos[w] DEF Insert
<1>3. Len(log) \in Nat /\ Len(log) <= MaxLog /\ p \in 1..MaxLog /\ p \in Nat
  BY LenProperties, BoundsAssumption DEF GroupPart, GroupOK
<1>4. /\ new.msg = p /\ new.what = what /\ new.copy = n + 1 /\ new.read = FALSE
      /\ new.at = IF what = "event" THEN 2 * p ELSE 2 * Len(log) + 1
  BY <1>2
<1>5. new \in [copy : Nat \ {0}, msg : 1..MaxLog, what : Kinds, at : Nat, read : BOOLEAN]
  <2>1. n + 1 \in Nat \ {0} /\ (IF what = "event" THEN 2 * p ELSE 2 * Len(log) + 1) \in Nat
    BY <1>3
  <2>2. QED
    BY <1>2, <1>3, <2>1
<1>6. Copies(p, what)' = Copies(p, what) \cup {new}
  BY <1>2, <1>4 DEF Copies
<1>7. \A m, k : m # p \/ k # what => Copies(m, k)' = Copies(m, k)
  BY <1>2, <1>4 DEF Copies
<1>8. new \notin Copies(p, what)
  <2>1. \A x \in Copies(p, what) : x.copy <= n /\ x.copy \in Nat
    BY <1>1 DEF Copies, Stored, RowOK
  <2>2. QED
    BY <1>4, <2>1
<1>9. Cardinality(Copies(p, what)') = n + 1
  BY <1>1, <1>6, <1>8, CopiesFinite, FS_AddElement
<1>10. \A m, k : Cardinality(Copies(m, k)) <= Cardinality(Copies(m, k)')
  <2> SUFFICES ASSUME NEW m, NEW k PROVE Cardinality(Copies(m, k)) <= Cardinality(Copies(m, k)')
    OBVIOUS
  <2>1. Cardinality(Copies(m, k)) \in Nat
    BY CopiesFinite
  <2>2. CASE m = p /\ k = what
    BY <1>1, <1>9, <2>2
  <2>3. CASE ~(m = p /\ k = what)
    BY <1>7, <2>1, <2>3
  <2>4. QED
    BY <2>2, <2>3
<1>11. \A x \in rows' : RowOK(x)'
  <2>1. ASSUME NEW x \in rows PROVE RowOK(x)'
    <3>1. RowOK(x) /\ x.copy \in Nat
      BY DEF Stored, RowOK
    <3>2. Cardinality(Copies(x.msg, x.what)) <= Cardinality(Copies(x.msg, x.what)')
      BY <1>10
    <3>3. Cardinality(Copies(x.msg, x.what)) \in Nat
      BY CopiesFinite
    <3>4. Cardinality(Copies(x.msg, x.what)') \in Nat
      <4>1. CASE x.msg = p /\ x.what = what
        BY <1>9, <4>1
      <4>2. CASE ~(x.msg = p /\ x.what = what)
        BY <1>7, <3>3, <4>2
      <4>3. QED
        BY <4>1, <4>2
    <3>5. x.copy <= Cardinality(Copies(x.msg, x.what)')
      <4>1. x.copy <= Cardinality(Copies(x.msg, x.what))
        BY <3>1 DEF RowOK
      <4>2. QED
        BY <3>1, <3>2, <3>3, <3>4, <4>1
    <3>6. QED
      BY <3>1, <3>5 DEF RowOK
  <2>2. RowOK(new)'
    <3>1. new.copy <= Cardinality(Copies(new.msg, new.what)')
      BY <1>4, <1>9
    <3>2. IF new.what = "event" THEN new.at = 2 * new.msg
          ELSE \E i \in 0..Len(log) : new.at = 2 * i + 1
      BY <1>3, <1>4
    <3>3. QED
      BY <1>4, <1>5, <3>1, <3>2 DEF RowOK
  <2>3. QED
    BY <1>2, <2>1, <2>2
<1>12. ASSUME NEW x \in rows', NEW y \in rows',
              x.msg = y.msg, x.what = y.what, x.copy = y.copy
       PROVE  x = y
  <2>1. \A z \in rows : z.msg = p /\ z.what = what => z.copy # n + 1
    <3> SUFFICES ASSUME NEW z \in rows, z.msg = p, z.what = what PROVE z.copy # n + 1
      OBVIOUS
    <3>1. z.copy <= n /\ z.copy \in Nat
      BY <1>1 DEF Stored, RowOK
    <3>2. QED
      BY <3>1
  <2>2. QED
    BY <1>2, <1>4, <1>12, <2>1 DEF Stored
<1>13. IsFiniteSet(rows')
  BY <1>2, FS_AddElement DEF Stored
<1>14. Stored'
  BY <1>11, <1>12, <1>13 DEF Stored
<1>15. QED
  BY <1>1, <1>2, <1>6, <1>7, <1>9, <1>14

(* An acknowledgement renames rows one to one: it changes of each only whether *)
(* it was read.                                                                *)
Renames(f) ==
    /\ f \in [rows -> rows']
    /\ \A x, y \in rows : f[x] = f[y] => x = y
    /\ \A z \in rows' : \E x \in rows : f[x] = z
    /\ \A x \in rows : f[x].msg = x.msg /\ f[x].what = x.what /\ f[x].copy = x.copy /\ f[x].at = x.at

LEMMA RenamedPart ==
    ASSUME Stored, NEW f, Renames(f), NEW A, A \subseteq rows, NEW B, B \subseteq rows',
           \A x \in rows : x \in A <=> f[x] \in B
    PROVE  IsFiniteSet(B) /\ Cardinality(B) = Cardinality(A)
<1> DEFINE g == [x \in A |-> f[x]]
<1>1. IsFiniteSet(A)
  BY FS_Subset DEF Stored
<1>2. g \in [A -> B] /\ \A x \in A : g[x] = f[x]
  BY DEF Renames
<1>3. (\A x, y \in A : g[x] = g[y] => x = y) /\ (\A z \in B : \E x \in A : g[x] = z)
  BY <1>2 DEF Renames
<1> HIDE DEF g
<1>4. QED
  BY <1>1, <1>2, <1>3, Renamed

LEMMA MarkRenames ==
    ASSUME GroupPart, Stored, NEW S, S \subseteq rows,
           rows' = (rows \ S) \cup {[x EXCEPT !.read = TRUE] : x \in S}
    PROVE  \E f : Renames(f) /\ \A x \in rows : f[x] = IF x \in S THEN [x EXCEPT !.read = TRUE] ELSE x
<1> DEFINE f == [x \in rows |-> IF x \in S THEN [x EXCEPT !.read = TRUE] ELSE x]
<1>1. \A x \in rows : /\ f[x] = IF x \in S THEN [x EXCEPT !.read = TRUE] ELSE x
                      /\ f[x] \in rows'
  OBVIOUS
<1>2. f \in [rows -> rows']
  BY <1>1
<1> HIDE DEF f
<1>3. ASSUME NEW x \in rows
      PROVE  f[x].msg = x.msg /\ f[x].what = x.what /\ f[x].copy = x.copy /\ f[x].at = x.at
  <2>1. x \in [copy : Nat \ {0}, msg : 1..MaxLog, what : Kinds, at : Nat, read : BOOLEAN]
    BY DEF Stored, RowOK
  <2>2. /\ [x EXCEPT !.read = TRUE].msg = x.msg /\ [x EXCEPT !.read = TRUE].what = x.what
        /\ [x EXCEPT !.read = TRUE].copy = x.copy /\ [x EXCEPT !.read = TRUE].at = x.at
    BY <2>1
  <2>3. QED
    BY <1>1, <2>2
<1>4. \A x, y \in rows : f[x] = f[y] => x = y
  <2> SUFFICES ASSUME NEW x \in rows, NEW y \in rows, f[x] = f[y] PROVE x = y
    OBVIOUS
  <2>1. x.msg = y.msg /\ x.what = y.what /\ x.copy = y.copy
    BY <1>3
  <2>2. QED
    BY <2>1 DEF Stored
<1>5. \A z \in rows' : \E x \in rows : f[x] = z
  <2> SUFFICES ASSUME NEW z \in rows' PROVE \E x \in rows : f[x] = z
    OBVIOUS
  <2>1. CASE z \in rows \ S
    BY <1>1, <2>1
  <2>2. CASE \E x \in S : z = [x EXCEPT !.read = TRUE]
    BY <1>1, <2>2
  <2>3. QED
    BY <2>1, <2>2
<1>6. Renames(f)
  BY <1>2, <1>3, <1>4, <1>5 DEF Renames
<1>7. QED
  BY <1>1, <1>6
---------------------------------------------------------------------------------
(* The pages.                                                                  *)

(* Rows are ordered by time and message, the copies of one alert alike.        *)
LEMMA Order ==
    ASSUME Stored
    PROVE  \A x, y, z \in rows :
              /\ ~Newer(x, x) /\ (Newer(x, y) => ~Newer(y, x))
              /\ Newer(x, y) /\ ~Newer(z, y) => Newer(x, z)
              /\ ~Newer(y, x) /\ Newer(y, z) => Newer(x, z)
              /\ ~Newer(x, y) /\ ~Newer(y, x) => x.msg = y.msg /\ x.what = y.what
<1> SUFFICES ASSUME NEW x \in rows, NEW y \in rows, NEW z \in rows
             PROVE  /\ ~Newer(x, x) /\ (Newer(x, y) => ~Newer(y, x))
                    /\ Newer(x, y) /\ ~Newer(z, y) => Newer(x, z)
                    /\ ~Newer(y, x) /\ Newer(y, z) => Newer(x, z)
                    /\ ~Newer(x, y) /\ ~Newer(y, x) => x.msg = y.msg /\ x.what = y.what
  OBVIOUS
<1>1. \A v \in rows : v.at \in Nat /\ v.msg \in Nat /\ v.what \in Kinds
  BY DEF Stored, RowOK
<1>2. x.at \in Nat /\ y.at \in Nat /\ z.at \in Nat /\ x.msg \in Nat /\ y.msg \in Nat /\ z.msg \in Nat
  BY <1>1
<1>3. ~Newer(x, x) /\ (Newer(x, y) => ~Newer(y, x))
  BY <1>2 DEF Newer
<1>4. Newer(x, y) /\ ~Newer(z, y) => Newer(x, z)
  BY <1>2 DEF Newer
<1>5. ~Newer(y, x) /\ Newer(y, z) => Newer(x, z)
  BY <1>2 DEF Newer
<1>6. ASSUME ~Newer(x, y), ~Newer(y, x) PROVE x.msg = y.msg /\ x.what = y.what
  <2>1. x.at = y.at /\ x.msg = y.msg
    BY <1>2, <1>6 DEF Newer
  <2>2. \A v \in rows : \/ v.what = "event" /\ v.at = 2 * v.msg
                        \/ v.what = "anomaly" /\ \E n \in Nat : v.at = 2 * n + 1
    <3> SUFFICES ASSUME NEW v \in rows
                 PROVE  \/ v.what = "event" /\ v.at = 2 * v.msg
                        \/ v.what = "anomaly" /\ \E n \in Nat : v.at = 2 * n + 1
      OBVIOUS
    <3>1. /\ v.what \in {"event", "anomaly"}
          /\ IF v.what = "event" THEN v.at = 2 * v.msg ELSE \E n \in 0..Len(log) : v.at = 2 * n + 1
      BY DEF Stored, RowOK, Kinds
    <3>2. QED
      BY <3>1
  <2>3. CASE x.what = "event" /\ x.at = 2 * x.msg
    <3>1. \A n \in Nat : 2 * x.msg # 2 * n + 1
      BY <1>2
    <3>2. QED
      BY <2>1, <2>2, <2>3, <3>1
  <2>4. CASE x.what = "anomaly" /\ \E n \in Nat : x.at = 2 * n + 1
    <3>1. \A n \in Nat : 2 * y.msg # 2 * n + 1
      BY <1>2
    <3>2. QED
      BY <2>1, <2>2, <2>4, <3>1
  <2>5. QED
    BY <2>2, <2>3, <2>4
<1>7. QED
  BY <1>3, <1>4, <1>5, <1>6

LEMMA ListedFinite ==
    ASSUME Stored
    PROVE  /\ IsFiniteSet(Listed) /\ Listed \subseteq rows
           /\ \A A : A \subseteq Listed => IsFiniteSet(A) /\ Cardinality(A) \in Nat
<1>1. Listed \subseteq rows
  BY DEF Listed
<1>2. ASSUME NEW A, A \subseteq Listed PROVE IsFiniteSet(A) /\ Cardinality(A) \in Nat
  <2>1. IsFiniteSet(A)
    BY <1>1, <1>2, FS_Subset DEF Stored
  <2>2. QED
    BY <2>1, FS_CardinalityType
<1>3. QED
  BY <1>1, <1>2

(* As long as a row is at or behind the offset, the page there is not empty.   *)
LEMMA PageShows ==
    ASSUME Stored, NEW k \in Nat, NEW x \in Listed, Cardinality(NotOlder(x)) > k
    PROVE  Page(k) # {}
<1> DEFINE Behind == {v \in Listed : Cardinality(NotOlder(v)) > k}
<1>1. \A v : NotOlder(v) \subseteq Listed /\ IsFiniteSet(NotOlder(v)) /\ Cardinality(NotOlder(v)) \in Nat
  BY ListedFinite DEF NotOlder
(* Of those rows take the first, or one of several copies that come first.     *)
<1>2. PICK v \in Behind : \A u \in Behind : NotOlder(u) \subseteq NotOlder(v) => NotOlder(u) = NotOlder(v)
  <2> DEFINE T == {NotOlder(u) : u \in Behind}
  <2>1. T \subseteq SUBSET Listed /\ T # {}
    BY <1>1
  <2> HIDE DEF T
  <2>2. PICK A \in T : \A B \in T : B \subseteq A => B = A
    BY <2>1, ListedFinite, Minimal
  <2>3. QED
    BY <2>2 DEF T
<1> DEFINE N == {y \in Listed : Newer(y, v)}
<1>3. IsFiniteSet(N) /\ Cardinality(N) \in Nat /\ N \subseteq Listed /\ v \in rows
  BY ListedFinite
<1>4. SUFFICES ASSUME Cardinality(N) > k PROVE FALSE
  <2>1. Cardinality(N) <= k \/ Cardinality(N) > k
    BY <1>3
  <2>2. Cardinality(N) <= k => v \in Page(k)
    BY <1>1 DEF Page, NotOlder
  <2>3. QED
    BY <2>1, <2>2
(* Otherwise the last of the rows newer than it would also be one of them.     *)
<1>5. N # {}
  BY <1>3, <1>4, FS_EmptySet
<1>6. PICK y \in N : \A z \in N : ~Newer(y, z)
  <2> DEFINE Older(u) == {z \in N : Newer(u, z)}
             T == {Older(u) : u \in N}
  <2>1. T \subseteq SUBSET N /\ T # {}
    BY <1>5
  <2> HIDE DEF T
  <2>2. PICK A \in T : \A B \in T : B \subseteq A => B = A
    BY <1>3, <2>1, Minimal
  <2>3. PICK y \in N : A = Older(y)
    BY <2>2 DEF T
  <2>4. ASSUME NEW z \in N, Newer(y, z) PROVE FALSE
    <3>1. Older(z) \subseteq Older(y) /\ z \in Older(y) /\ z \notin Older(z)
      <4>1. \A u \in N : Newer(z, u) => Newer(y, u)
        <5> SUFFICES ASSUME NEW u \in N, Newer(z, u) PROVE Newer(y, u)
          OBVIOUS
        <5>1. ~Newer(z, y)
          BY <1>3, <2>4, Order, ListedFinite
        <5>2. QED
          BY <1>3, <5>1, Order, ListedFinite
      <4>2. ~Newer(z, z)
        BY <1>3, Order, ListedFinite
      <4>3. QED
        BY <2>4, <4>1, <4>2
    <3>2. Older(z) \in T
      BY DEF T
    <3>3. QED
      BY <2>2, <2>3, <3>1, <3>2
  <2>5. QED
    BY <2>3, <2>4
<1>7. y \in Listed /\ Newer(y, v) /\ y \in rows
  BY ListedFinite
<1>8. N \subseteq NotOlder(y)
  BY <1>3, <1>6 DEF NotOlder
<1>9. Cardinality(NotOlder(y)) > k
  <2>1. Cardinality(N) <= Cardinality(NotOlder(y))
    BY <1>1, <1>8, FS_Subset
  <2>2. QED
    BY <1>1, <1>3, <1>4, <2>1
<1>10. NotOlder(y) \subseteq NotOlder(v) /\ v \in NotOlder(v) /\ v \notin NotOlder(y)
  <2>1. ASSUME NEW z \in Listed, ~Newer(y, z) PROVE ~Newer(v, z)
    <3>1. ~Newer(v, y)
      BY <1>3, <1>7, Order
    <3>2. SUFFICES ASSUME Newer(v, z) PROVE FALSE
      OBVIOUS
    <3>3. Newer(y, z)
      BY <1>3, <1>7, <3>1, <3>2, ListedFinite, Order
    <3>4. QED
      BY <2>1, <3>3
  <2>2. ~Newer(v, v)
    BY <1>3, Order
  <2>3. QED
    BY <1>7, <2>1, <2>2 DEF NotOlder
<1>11. QED
  BY <1>2, <1>7, <1>9, <1>10

(* A page shows the alert of every row that the next offset leaves behind.     *)
LEMMA PageNext ==
    ASSUME Stored, NEW k \in Nat, NEW x \in Page(k), NEW d \in Listed,
           Cardinality(NotOlder(d)) > k
    PROVE  (x.msg = d.msg /\ x.what = d.what) \/ Cardinality(NotOlder(d)) > k + 1
<1>1. /\ x \in Listed /\ x \in rows /\ d \in rows
      /\ Cardinality({y \in Listed : Newer(y, x)}) <= k /\ k < Cardinality(NotOlder(x))
  BY ListedFinite DEF Page, NotOlder
<1>2. SUFFICES ASSUME Cardinality(NotOlder(d)) = k + 1, ~(x.msg = d.msg /\ x.what = d.what)
               PROVE  FALSE
  <2>1. Cardinality(NotOlder(d)) \in Nat
    BY ListedFinite DEF NotOlder
  <2>2. QED
    BY <2>1
<1>3. IsFiniteSet(NotOlder(d)) /\ IsFiniteSet(NotOlder(x)) /\ Cardinality(NotOlder(x)) \in Nat
  BY ListedFinite DEF NotOlder
<1>4. CASE Newer(x, d)
  <2>1. NotOlder(x) \subseteq NotOlder(d) \ {d}
    <3>1. ASSUME NEW y \in Listed, ~Newer(x, y) PROVE ~Newer(d, y) /\ y # d
      <4>1. ~Newer(d, x)
        BY <1>1, <1>4, Order
      <4>2. Newer(d, y) => Newer(x, y)
        BY <1>1, <4>1, ListedFinite, Order
      <4>3. QED
        BY <1>4, <3>1, <4>2
    <3>2. QED
      BY <3>1 DEF NotOlder
  <2>2. d \in NotOlder(d)
    BY <1>1, Order DEF NotOlder
  <2>3. IsFiniteSet(NotOlder(d) \ {d}) /\ Cardinality(NotOlder(d) \ {d}) = k
    <3>1. /\ IsFiniteSet(NotOlder(d) \ {d})
          /\ Cardinality(NotOlder(d) \ {d}) = Cardinality(NotOlder(d)) - 1
      BY <1>3, <2>2, FS_RemoveElement
    <3>2. QED
      BY <1>2, <3>1
  <2>4. Cardinality(NotOlder(x)) <= k
    BY <2>1, <2>3, FS_Subset
  <2>5. QED
    BY <1>1, <1>3, <2>4
<1>5. CASE Newer(d, x)
  <2>1. NotOlder(d) \subseteq {y \in Listed : Newer(y, x)}
    <3>1. ASSUME NEW y \in Listed, ~Newer(d, y) PROVE Newer(y, x)
      BY <1>1, <1>5, <3>1, ListedFinite, Order
    <3>2. QED
      BY <3>1 DEF NotOlder
  <2>2. IsFiniteSet({y \in Listed : Newer(y, x)}) /\ Cardinality({y \in Listed : Newer(y, x)}) \in Nat
    BY ListedFinite
  <2>3. k + 1 <= Cardinality({y \in Listed : Newer(y, x)})
    BY <1>2, <2>1, <2>2, FS_Subset
  <2>4. QED
    BY <1>1, <2>2, <2>3
<1>6. CASE ~Newer(x, d) /\ ~Newer(d, x)
  BY <1>1, <1>2, <1>6, Order
<1>7. QED
  BY <1>4, <1>5, <1>6
---------------------------------------------------------------------------------
(* The steps.                                                                  *)

LEMMA InitIInv == Init => IInv
<1> SUFFICES ASSUME Init PROVE IInv
  OBVIOUS
<1>1. GroupPart
  BY GroupInitOK, InitInTopic, BoundsAssumption DEF Init, GroupInit, GroupPart
<1>2. {w \in Workers : pc[w] # "out"} = {}
  BY DEF Init, GroupInit
<1>3. Stored
  BY FS_EmptySet DEF Init, Stored
<1>4. Counted
  <2>1. ASSUME NEW m \in 1..MaxLog, NEW s \in Steps
        PROVE  Done(m, s) + Cardinality(Ahead(m, s)) <= rebalances
    <3>1. Ahead(m, s) = {} /\ Copies(m, s) = {} /\ mails[m] = 0 /\ rebalances = 0
      BY <1>2 DEF Ahead, Copies, Init, GroupInit
    <3>2. QED
      BY <3>1, FS_EmptySet DEF Done
  <2>2. mails \in [1..MaxLog -> Nat]
    BY DEF Init
  <2>3. QED
    BY <1>2, <2>1, <2>2, FS_EmptySet DEF Counted
<1>5. Told
  BY <1>2 DEF Init, GroupInit, Told, InProcess
<1>6. Walk
  BY EventsAssumption DEF Init, NoList, NoFilter, Filter, Walk, ListOK
<1>7. QED
  BY <1>1, <1>3, <1>4, <1>5, <1>6 DEF IInv

(* Rows that are added leave the walk what it has yet to show.                 *)
LEMMA WalkFrame ==
    ASSUME Stored, Walk, Stored', rows \subseteq rows', UNCHANGED <<acks, list>>,
           \A x \in rows : Where(x)' <=> Where(x)
    PROVE  Walk'
<1>1. Listed \subseteq Listed'
  BY DEF Listed
<1>2. ASSUME NEW x \in Listed
      PROVE  Cardinality(NotOlder(x)) <= Cardinality(NotOlder(x)')
  <2>1. NotOlder(x) \subseteq NotOlder(x)'
    BY <1>1 DEF NotOlder, Newer
  <2>2. IsFiniteSet(NotOlder(x)')
    <3>1. NotOlder(x)' \subseteq rows'
      BY DEF NotOlder, Listed
    <3>2. QED
      BY <3>1, FS_Subset DEF Stored
  <2>3. QED
    BY <2>1, <2>2, FS_Subset
<1>3. ASSUME NEW x \in Listed, NEW k \in Nat, Cardinality(NotOlder(x)) > k
      PROVE  Cardinality(NotOlder(x)') > k
  <2>1. Cardinality(NotOlder(x)) \in Nat
    BY ListedFinite DEF NotOlder
  <2>2. IsFiniteSet(NotOlder(x)')
    <3>1. NotOlder(x)' \subseteq rows'
      BY DEF NotOlder, Listed
    <3>2. QED
      BY <3>1, FS_Subset DEF Stored
  <2>3. Cardinality(NotOlder(x)') \in Nat
    BY <2>2, FS_CardinalityType
  <2>4. QED
    BY <1>2, <1>3, <2>1, <2>3
<1>4. list.offset \in Nat
  BY DEF Walk, ListOK
<1>5. ASSUME list'.at = "open", list'.filter.read # "unread", NEW d \in list'.due
      PROVE  \E x \in Listed' : <<x.msg, x.what>> = d /\ Cardinality(NotOlder(x)') > list'.offset
  <2>1. PICK x \in Listed : <<x.msg, x.what>> = d /\ Cardinality(NotOlder(x)) > list.offset
    BY <1>5 DEF Walk
  <2>2. Cardinality(NotOlder(x)') > list.offset
    BY <1>3, <1>4, <2>1
  <2>3. QED
    BY <1>1, <2>1, <2>2
<1>6. QED
  BY <1>5 DEF Walk, ListOK

(* What was mailed, stored or logged stays so.                                 *)
LEMMA TellsOn ==
    ASSUME NEW m \in 1..MaxLog, log'[m] = log[m], mails \in [1..MaxLog -> Nat],
           mails' \in [1..MaxLog -> Nat], mails[m] <= mails'[m],
           lost \subseteq lost', rows \subseteq rows'
    PROVE  (MailTold(m) => MailTold(m)') /\ (RowTold(m) => RowTold(m)')
<1>1. mails[m] \in Nat /\ mails'[m] \in Nat
  OBVIOUS
<1>2. mails[m] > 0 => mails'[m] > 0
  BY <1>1
<1>3. MailTold(m) => MailTold(m)'
  BY <1>2 DEF MailTold
<1>4. RowTold(m) => RowTold(m)'
  BY DEF RowTold, Copies
<1>5. QED
  BY <1>3, <1>4

LEMMA PublishIInv == ASSUME IInv, NEW e \in Events, Publish(e) PROVE IInv'
<1>1. Produce(e) /\ UNCHANGED <<mails, rows, lost, acks, list>>
  BY DEF Publish, dashboardVars
<1>2. /\ GroupOK(InProcess) /\ InTopic /\ rebalances \in Nat /\ Len(log) \in Nat
      /\ Len(log') = Len(log) + 1 /\ Len(log) < MaxLog
      /\ \A m \in 1..Len(log) : log'[m] = log[m]
      /\ UNCHANGED <<committed, owner, rebalances, passed, pc, pos, marked>>
  <2>1. GroupOK(InProcess) /\ InTopic
    BY DEF IInv, GroupPart
  <2>2. QED
    BY <1>1, <2>1, ProduceAppends DEF Produce, sessionVars, GroupOK
<1>3. GroupPart'
  <2>1. (GroupOK(InProcess) /\ InTopic)'
    BY <1>1, <1>2, ProduceOK, ProduceInTopic
  <2>2. QED
    BY <1>2, <2>1, BoundsAssumption DEF IInv, GroupPart
<1>4. Counted'
  BY <1>1, <1>2 DEF IInv, Counted, Done, Copies, Ahead
<1>5. Stored'
  <2>1. ASSUME NEW x \in rows PROVE RowOK(x)'
    <3>1. RowOK(x)
      BY DEF IInv, Stored
    <3>2. x.msg \in Nat
      BY <3>1 DEF RowOK
    <3>3. Copies(x.msg, x.what)' = Copies(x.msg, x.what)
      BY <1>1 DEF Copies
    <3>4. x.msg <= Len(log')
      BY <1>2, <3>1, <3>2 DEF RowOK
    <3>5. \A n \in 0..Len(log) : n \in 0..Len(log')
      BY <1>2
    <3>6. QED
      BY <3>1, <3>3, <3>4, <3>5 DEF RowOK
  <2>2. QED
    BY <1>1, <2>1 DEF IInv, Stored
<1>6. Told'
  <2>1. ASSUME NEW m \in 1..Len(log)
        PROVE  (MailTold(m)' <=> MailTold(m)) /\ (RowTold(m)' <=> RowTold(m))
    BY <1>1, <1>2 DEF MailTold, RowTold, Copies
  <2>2. ASSUME NEW w \in Workers, pc'[w] \in InProcess PROVE MailTold(pos[w])'
    <3>0. pos' = pos /\ pc' = pc /\ pc[w] \notin {"out", "idle"}
      BY <1>2, <2>2 DEF InProcess
    <3>1. pos[w] \in 1..Len(log) /\ pos' = pos /\ pc' = pc
      BY <1>2, <3>0 DEF InTopic, GroupOK
    <3>2. MailTold(pos[w])
      BY <2>2, <3>1 DEF IInv, Told
    <3>3. QED
      BY <2>1, <3>1, <3>2 DEF MailTold
  <2>3. ASSUME NEW m \in 1..Len(log'), Covered(m)', m \notin passed', log'[m].kind # "garbled"
        PROVE  RowTold(m)' /\ MailTold(m)'
    <3>1. Covered(m)
      BY <1>2, <2>3 DEF Covered
    <3>2. m \in 1..Len(log)
      <4>1. SUFFICES ASSUME m = Len(log) + 1 PROVE FALSE
        BY <1>2
      <4>2. ~(m < committed) /\ \A w \in Workers : ~(m < pos[w]) /\ ~(m < marked[w])
        BY <1>2, <4>1 DEF InTopic, GroupOK
      <4>3. QED
        BY <3>1, <4>2 DEF Covered
    <3>3. QED
      BY <1>2, <2>1, <2>3, <3>1, <3>2 DEF IInv, Told
  <2>4. QED
    BY <1>1, <2>2, <2>3 DEF IInv, Told
<1>7. Walk'
  <2>1. \A x \in rows : Where(x)' <=> Where(x)
    <3> SUFFICES ASSUME NEW x \in rows PROVE Where(x)' <=> Where(x)
      OBVIOUS
    <3>1. x.msg \in 1..Len(log)
      BY <1>2 DEF IInv, Stored, RowOK
    <3>2. QED
      BY <1>1, <1>2, <3>1 DEF Where, Matches, Owned
  <2>2. QED
    BY <1>1, <1>5, <2>1, WalkFrame DEF IInv
<1>8. QED
  BY <1>3, <1>4, <1>5, <1>6, <1>7 DEF IInv

(* What the table, the mails and the topic keep, Stored and Walk keep.         *)
LEMMA TableFrame ==
    ASSUME IInv, UNCHANGED <<log, rows, acks, list>>
    PROVE  Stored' /\ Walk'
<1>1. Stored'
  BY DEF IInv, Stored, RowOK, Copies
<1>2. QED
  BY <1>1, WalkFrame DEF IInv, Where, Matches, Owned

(* The group's steps: nothing is stored or mailed; an assignment covers more.  *)
LEMMA SessionIInv ==
    ASSUME IInv, NEW w \in Workers,
           Assign(w) \/ AutoCommit(w) \/ Leave(w) \/ EndClaim(w) \/ Crash(w)
    PROVE  IInv'
<1>1. /\ Join(w) \/ CommitOffset(w) \/ LeaveGroup(w) \/ CloseClaim(w) \/ Die(w)
      /\ UNCHANGED <<mails, rows, lost, acks, list>>
  BY DEF Assign, AutoCommit, Leave, EndClaim, Crash, dashboardVars
<1>2. GroupOK(InProcess) /\ InTopic /\ GroupPart /\ rebalances \in Nat /\ Len(log) \in Nat
  BY LenProperties DEF IInv, GroupPart, GroupOK
<1>3. /\ UNCHANGED log /\ passed \subseteq passed'
      /\ \A v \in Workers : pc'[v] \in InProcess => pc'[v] = pc[v] /\ pos'[v] = pos[v]
  <2>1. UNCHANGED log /\ passed \subseteq passed'
    BY <1>1 DEF Join, CommitOffset, LeaveGroup, CloseClaim, Die, sessionVars
  <2>2. \A v \in Workers : pc'[v] \in InProcess => pc'[v] = pc[v] /\ pos'[v] = pos[v]
    BY <1>1, <1>2
    DEF Join, CommitOffset, LeaveGroup, CloseClaim, Die, EndSession, GroupOK, InProcess
  <2>3. QED
    BY <2>1, <2>2
<1>4. Counted' /\ rebalances' <= MaxRebalances
  <2>1. CASE Join(w)
    BY <1>1, <1>2, <2>1, JoinCounted DEF IInv
  <2>2. CASE CommitOffset(w) \/ LeaveGroup(w) \/ CloseClaim(w) \/ Die(w)
    <3>1. /\ \A m \in 1..MaxLog, s \in Steps : Ahead(m, s)' \subseteq Ahead(m, s)
          /\ UNCHANGED rebalances /\ \A v \in Workers : pc[v] = "out" => pc'[v] = "out"
      <4>1. ASSUME NEW m, NEW s
            PROVE  /\ Ahead(m, s)' \subseteq Ahead(m, s)
                   /\ UNCHANGED rebalances /\ \A v \in Workers : pc[v] = "out" => pc'[v] = "out"
        BY <1>2, <2>2, SessionAhead
      <4>2. QED
        BY <4>1
    <3>2. \A m \in 1..MaxLog, s \in Steps : Done(m, s)' = Done(m, s)
      BY <1>1 DEF Done, Copies
    <3>3. mails' \in [1..MaxLog -> Nat]
      BY <1>1 DEF IInv, Counted
    <3>4. QED
      BY <1>2, <3>1, <3>2, <3>3, CountedFrame DEF IInv, GroupPart
  <2>3. QED
    BY <1>1, <2>1, <2>2
<1>5. GroupPart'
  BY <1>1, <1>2, <1>3, <1>4, SessionOK, SessionInTopic DEF GroupPart
<1>6. Told'
  <2>1. \A m : (MailTold(m)' <=> MailTold(m)) /\ (RowTold(m)' <=> RowTold(m))
    BY <1>1, <1>3 DEF MailTold, RowTold, Copies
  <2>2. ASSUME NEW v \in Workers, pc'[v] \in InProcess PROVE MailTold(pos[v])'
    <3>1. MailTold(pos[v]) /\ pos'[v] = pos[v]
      BY <1>3, <2>2 DEF IInv, Told
    <3>2. QED
      BY <1>1, <1>3, <3>1 DEF MailTold
  <2>3. ASSUME NEW m \in 1..Len(log'), Covered(m)', m \notin passed', log'[m].kind # "garbled"
        PROVE  RowTold(m)' /\ MailTold(m)'
    <3>1. m \in 1..Len(log) /\ m \in Nat \ {0}
      BY <1>2, <1>3
    <3>2. Covered(m)
      <4>1. CASE Join(w)
        BY <1>2, <2>3, <3>1, <4>1, JoinCovers
      <4>2. CASE CommitOffset(w) \/ LeaveGroup(w) \/ CloseClaim(w) \/ Die(w)
        BY <1>2, <2>3, <3>1, <4>2, SessionCovers
      <4>3. QED
        BY <1>1, <4>1, <4>2
    <3>3. QED
      BY <1>3, <2>1, <2>3, <3>1, <3>2 DEF IInv, Told
  <2>4. QED
    BY <1>1, <2>2, <2>3 DEF IInv, Told
<1>7. QED
  BY <1>1, <1>3, <1>4, <1>5, <1>6, TableFrame DEF IInv
(* What a handler's step owes the invariant: that counts and rows are kept and *)
(* that, going on or marking its message, it has told what it was to tell.     *)
HandlerFrame ==
    /\ Counted' /\ Stored' /\ rows \subseteq rows' /\ UNCHANGED <<acks, list>>
    /\ \A m \in 1..MaxLog : mails[m] <= mails'[m]
    /\ lost \subseteq lost' /\ lost' \subseteq {"mail", "row"} \X (1..MaxLog)

LEMMA HandlerFacts ==
    ASSUME IInv
    PROVE  /\ GroupOK(InProcess) /\ InTopic /\ GroupPart
           /\ rebalances \in Nat /\ Len(log) \in Nat
           /\ \A m \in 1..Len(log) : m \in 1..MaxLog
           /\ \A w \in Workers : pos[w] <= Len(log) => pos[w] \in 1..Len(log)
           /\ \A w \in Workers : pc[w] \in InProcess => pos[w] <= Len(log)
<1>1. GroupOK(InProcess) /\ InTopic /\ GroupPart /\ rebalances \in Nat
  BY DEF IInv, GroupPart, GroupOK
<1>2. Len(log) \in Nat /\ Len(log) <= MaxLog /\ MaxLog \in Nat
  BY LenProperties, BoundsAssumption DEF IInv, GroupPart, GroupOK
<1>3. \A m \in 1..Len(log) : m \in 1..MaxLog
  BY <1>2
<1>4. \A w \in Workers : pos[w] <= Len(log) => pos[w] \in 1..Len(log)
  BY <1>1, <1>2 DEF GroupOK
<1>5. \A w \in Workers : pc[w] \in InProcess => pos[w] <= Len(log)
  BY <1>1 DEF InTopic, InProcess
<1>6. QED
  BY <1>1, <1>2, <1>3, <1>4, <1>5

LEMMA GoToIInv ==
    ASSUME IInv, HandlerFrame, NEW w \in Workers, NEW label \in InProcess, GoTo(w, label),
           pos[w] <= Len(log), MailTold(pos[w])'
    PROVE  IInv'
<1>1. /\ UNCHANGED <<log, committed, owner, rebalances, passed, pos, marked>>
      /\ pc'[w] = label /\ \A v \in Workers \ {w} : pc'[v] = pc[v]
  BY HandlerFacts DEF GoTo, sessionVars, GroupOK
<1>2. GroupPart'
  <2>1. (GroupOK(InProcess) /\ InTopic)'
    BY HandlerFacts, GoToOK, GoToInTopic
  <2>2. QED
    BY <1>1, <2>1 DEF IInv, GroupPart
<1>3. ASSUME NEW m \in 1..MaxLog
      PROVE  (MailTold(m) => MailTold(m)') /\ (RowTold(m) => RowTold(m)')
  <2>1. mails \in [1..MaxLog -> Nat] /\ mails' \in [1..MaxLog -> Nat]
    BY DEF IInv, Counted, HandlerFrame
  <2>2. QED
    BY <1>1, <2>1, TellsOn DEF HandlerFrame
<1>4. Told'
  <2>1. ASSUME NEW v \in Workers, pc'[v] \in InProcess PROVE MailTold(pos[v])'
    <3>1. CASE v = w
      BY <3>1
    <3>2. CASE v # w
      <4>1. pc[v] \in InProcess /\ pos[v] \in 1..MaxLog
        BY <1>1, <2>1, <3>2, HandlerFacts
      <4>2. MailTold(pos[v])
        BY <4>1 DEF IInv, Told
      <4>3. \A m \in 1..MaxLog : m = pos[v] => MailTold(m)'
        BY <1>3, <4>2
      <4>4. QED
        BY <1>1, <4>1, <4>3 DEF MailTold
    <3>3. QED
      BY <3>1, <3>2
  <2>2. ASSUME NEW m \in 1..Len(log'), Covered(m)', m \notin passed', log'[m].kind # "garbled"
        PROVE  RowTold(m)' /\ MailTold(m)'
    <3>1. m \in 1..Len(log) /\ m \in 1..MaxLog /\ Covered(m)
      BY <1>1, <2>2, HandlerFacts DEF Covered
    <3>2. QED
      BY <1>1, <1>3, <2>2, <3>1 DEF IInv, Told
  <2>3. QED
    BY <2>1, <2>2 DEF Told, HandlerFrame
<1>5. Walk'
  BY <1>1, WalkFrame DEF IInv, HandlerFrame, Where, Matches, Owned
<1>6. QED
  BY <1>2, <1>4, <1>5 DEF IInv, HandlerFrame

LEMMA MarkIInv ==
    ASSUME IInv, HandlerFrame, NEW w \in Workers, MarkMessage(w), NEW p, p = pos[w],
           p <= Len(log), log[p].kind # "garbled" => RowTold(p)' /\ MailTold(p)'
    PROVE  IInv'
<1>1. /\ UNCHANGED <<log, committed, owner, rebalances, passed>>
      /\ pc'[w] = "idle" /\ \A v \in Workers \ {w} : pc'[v] = pc[v] /\ pos'[v] = pos[v]
  BY HandlerFacts DEF MarkMessage, sessionVars, GroupOK
<1>2. GroupPart'
  <2>1. (GroupOK(InProcess) /\ InTopic)'
    BY HandlerFacts, MarkMessageOK, MarkInTopic
  <2>2. QED
    BY <1>1, <2>1 DEF IInv, GroupPart
<1>3. ASSUME NEW m \in 1..MaxLog
      PROVE  (MailTold(m) => MailTold(m)') /\ (RowTold(m) => RowTold(m)')
  <2>1. mails \in [1..MaxLog -> Nat] /\ mails' \in [1..MaxLog -> Nat]
    BY DEF IInv, Counted, HandlerFrame
  <2>2. QED
    BY <1>1, <2>1, TellsOn DEF HandlerFrame
<1>4. Told'
  <2>1. ASSUME NEW v \in Workers, pc'[v] \in InProcess PROVE MailTold(pos[v])'
    <3>1. v # w /\ pc[v] \in InProcess /\ pos'[v] = pos[v]
      BY <1>1, <2>1 DEF InProcess
    <3>2. MailTold(pos[v]) /\ pos[v] \in 1..MaxLog
      BY <3>1, HandlerFacts DEF IInv, Told
    <3>3. \A m \in 1..MaxLog : m = pos[v] => MailTold(m)'
      BY <1>3, <3>2
    <3>4. QED
      BY <3>1, <3>2, <3>3 DEF MailTold
  <2>2. ASSUME NEW m \in 1..Len(log'), Covered(m)', m \notin passed', log'[m].kind # "garbled"
        PROVE  RowTold(m)' /\ MailTold(m)'
    <3>1. m \in 1..Len(log) /\ m \in 1..MaxLog /\ m \in Nat \ {0}
      BY <1>1, HandlerFacts
    <3>2. Covered(m) \/ m = p
      BY <2>2, <3>1, HandlerFacts, MarkCovers
    <3>3. QED
      BY <1>1, <1>3, <2>2, <3>1, <3>2 DEF IInv, Told
  <2>3. QED
    BY <2>1, <2>2 DEF Told, HandlerFrame
<1>5. Walk'
  BY <1>1, WalkFrame DEF IInv, HandlerFrame, Where, Matches, Owned
<1>6. QED
  BY <1>2, <1>4, <1>5 DEF IInv, HandlerFrame

(* A message that does not parse is marked and told nobody.                    *)
LEMMA SkipIInv == ASSUME IInv, NEW w \in Workers, SkipEvent(w) PROVE IInv'
<1>1. /\ pc[w] = "idle" /\ pos[w] <= Len(log) /\ log[pos[w]].kind = "garbled"
      /\ MarkMessage(w) /\ UNCHANGED <<mails, rows, lost, acks, list, log>>
  BY DEF SkipEvent, AtMessage, EventOf, dashboardVars, MarkMessage
<1>2. Stored'
  BY <1>1, TableFrame
<1>3. Counted'
  <2>1. ASSUME NEW m \in 1..MaxLog, NEW s \in Steps
        PROVE  /\ Ahead(m, s)' \subseteq Ahead(m, s) /\ Done(m, s)' = Done(m, s)
               /\ UNCHANGED rebalances /\ \A v \in Workers : pc[v] = "out" => pc'[v] = "out"
    <3>1. m \in Nat /\ pc[w] # "out" /\ Done(m, s)' = Done(m, s)
      BY <1>1 DEF Done, Copies
    <3>2. QED
      BY <1>1, <3>1, MarkAhead, HandlerFacts
  <2>2. UNCHANGED rebalances /\ \A v \in Workers : pc[v] = "out" => pc'[v] = "out"
    BY <1>1, HandlerFacts DEF MarkMessage, sessionVars, GroupOK
  <2>3. mails' \in [1..MaxLog -> Nat]
    BY <1>1 DEF IInv, Counted
  <2>4. QED
    BY <2>1, <2>2, <2>3, CountedFrame, HandlerFacts DEF IInv
<1>4. HandlerFrame
  BY <1>1, <1>2, <1>3 DEF HandlerFrame, IInv, Counted, Told
<1>5. QED
  BY <1>1, <1>4, MarkIInv

(* The mail is sent, or its failure logged.                                    *)
LEMMA MailIInv == ASSUME IInv, NEW w \in Workers, SendMail(w) \/ MailFails(w) PROVE IInv'
<1>1. /\ pc[w] = "idle" /\ pos[w] <= Len(log) /\ GoTo(w, "anomaly")
      /\ UNCHANGED <<rows, acks, list, log, pos>>
  BY DEF SendMail, MailFails, TakeEvent, AtMessage, GoTo, dashboardVars
<1>2. PICK p \in 1..MaxLog : p = pos[w]
  BY <1>1, HandlerFacts
<1>3. /\ mails \in [1..MaxLog -> Nat] /\ lost \subseteq {"mail", "row"} \X (1..MaxLog)
      /\ \/ log[p].kind = "budget" /\ mails' = [mails EXCEPT ![p] = mails[p] + 1] /\ lost' = lost
         \/ log[p].kind # "budget" /\ mails' = mails /\ lost' = lost
         \/ mails' = mails /\ lost' = lost \cup {<<"mail", p>>}
  BY <1>2 DEF SendMail, MailFails, EventOf, IInv, Counted, Told
<1>4. /\ mails' \in [1..MaxLog -> Nat]
      /\ \A m \in 1..MaxLog : mails'[m] = mails[m] \/ (m = p /\ mails'[m] = mails[m] + 1)
      /\ lost \subseteq lost' /\ lost' \subseteq {"mail", "row"} \X (1..MaxLog)
  <2>1. /\ mails' \in [1..MaxLog -> Nat]
        /\ \A m \in 1..MaxLog : mails'[m] = mails[m] \/ (m = p /\ mails'[m] = mails[m] + 1)
    <3>1. mails[p] + 1 \in Nat
      BY <1>3
    <3>2. CASE mails' = [mails EXCEPT ![p] = mails[p] + 1]
      BY <1>3, <3>1, <3>2
    <3>3. CASE mails' = mails
      BY <1>3, <3>3
    <3>4. QED
      BY <1>3, <3>2, <3>3
  <2>2. <<"mail", p>> \in {"mail", "row"} \X (1..MaxLog)
    OBVIOUS
  <2>3. QED
    BY <1>3, <2>1, <2>2
<1>5. \A m \in 1..MaxLog : mails[m] <= mails'[m]
  BY <1>3, <1>4
<1>6. MailTold(pos[w])'
  <2>1. mails[p] \in Nat
    BY <1>3
  <2>2. log[p].kind = "budget" => mails'[p] > 0 \/ <<"mail", p>> \in lost'
    <3>1. CASE mails' = [mails EXCEPT ![p] = mails[p] + 1]
      BY <1>3, <2>1, <3>1
    <3>2. CASE log[p].kind # "budget"
      BY <3>2
    <3>3. CASE lost' = lost \cup {<<"mail", p>>}
      BY <3>3
    <3>4. QED
      BY <1>3, <3>1, <3>2, <3>3
  <2>3. QED
    BY <1>1, <1>2, <2>2 DEF MailTold
<1>7. Stored'
  BY <1>1, TableFrame
<1>8. Counted'
  <2>1. ASSUME NEW m \in 1..MaxLog, NEW s \in Steps
        PROVE  /\ Ahead(m, s)' \subseteq Ahead(m, s)
               /\ \/ Done(m, s)' = Done(m, s)
                  \/ /\ Done(m, s)' \in Nat /\ Done(m, s)' <= Done(m, s) + 1
                     /\ Ahead(m, s)' # Ahead(m, s)
    <3>1. /\ Ahead(m, s)' \subseteq Ahead(m, s)
          /\ m = pos[w] /\ s = "mail" => Ahead(m, s)' # Ahead(m, s)
      <4>1. "idle" \in Before(s) /\ ("anomaly" \in Before(s) <=> s # "mail")
        BY DEF Steps, Before
      <4>2. QED
        BY <1>1, <4>1, GoToAhead, HandlerFacts
    <3>2. CASE s # "mail"
      BY <1>1, <3>1, <3>2 DEF Done, Copies
    <3>3. CASE s = "mail" /\ mails'[m] = mails[m]
      BY <3>1, <3>3 DEF Done
    <3>4. CASE s = "mail" /\ m = p /\ mails'[m] = mails[m] + 1
      <4>1. Done(m, s) = mails[m] /\ Done(m, s)' = mails[m] + 1 /\ mails[m] \in Nat
        BY <1>3, <3>4 DEF Done
      <4>2. QED
        BY <1>2, <3>1, <3>4, <4>1
    <3>5. QED
      BY <1>4, <3>2, <3>3, <3>4
  <2>2. UNCHANGED rebalances /\ \A v \in Workers : pc[v] = "out" => pc'[v] = "out"
    BY <1>1, HandlerFacts DEF GoTo, sessionVars, GroupOK
  <2>3. QED
    BY <1>4, <2>1, <2>2, CountedFrame, HandlerFacts DEF IInv
<1>9. HandlerFrame
  BY <1>1, <1>4, <1>5, <1>7, <1>8 DEF HandlerFrame
<1>10. QED
  BY <1>1, <1>6, <1>9, GoToIInv DEF InProcess
(* A step of a handler that stores a row, or does not: the count of rows.      *)
LEMMA InsertCounted ==
    ASSUME IInv, NEW w \in Workers, pos[w] <= Len(log), NEW what \in Kinds,
           Insert(w, what) \/ UNCHANGED rows, UNCHANGED <<log, mails, rebalances>>,
           \A v \in Workers : pc[v] = "out" => pc'[v] = "out",
           \A m \in 1..MaxLog, s \in Steps :
              /\ Ahead(m, s)' \subseteq Ahead(m, s)
              /\ m = pos[w] /\ s = what => Ahead(m, s)' # Ahead(m, s)
    PROVE  Counted' /\ Stored' /\ rows \subseteq rows'
<1>1. PICK p \in 1..MaxLog : p = pos[w]
  BY HandlerFacts
<1>2. Stored' /\ rows \subseteq rows'
  <2>1. CASE UNCHANGED rows
    BY <2>1 DEF IInv, Stored, RowOK, Copies
  <2>2. CASE Insert(w, what)
    BY <1>1, <2>2, InsertStored, HandlerFacts DEF IInv
  <2>3. QED
    BY <2>1, <2>2
<1>3. ASSUME NEW m \in 1..MaxLog, NEW s \in Steps
      PROVE  /\ Ahead(m, s)' \subseteq Ahead(m, s)
             /\ \/ Done(m, s)' = Done(m, s)
                \/ /\ Done(m, s)' \in Nat /\ Done(m, s)' <= Done(m, s) + 1
                   /\ Ahead(m, s)' # Ahead(m, s)
  <2>1. CASE UNCHANGED rows \/ s = "mail"
    BY <2>1 DEF Done, Copies
  <2>2. CASE Insert(w, what) /\ s # "mail" /\ (m # p \/ s # what)
    <3>1. \A i, k : i # p \/ k # what => Copies(i, k)' = Copies(i, k)
      BY <1>1, <2>2, InsertStored, HandlerFacts DEF IInv
    <3>2. QED
      BY <2>2, <3>1 DEF Done
  <2>3. CASE Insert(w, what) /\ s # "mail" /\ m = p /\ s = what
    <3>1. Cardinality(Copies(p, what)') = Cardinality(Copies(p, what)) + 1
      BY <1>1, <2>3, InsertStored, HandlerFacts DEF IInv
    <3>2. Cardinality(Copies(p, what)) \in Nat
      BY CopiesFinite DEF IInv
    <3>3. Done(m, s) = Cardinality(Copies(p, what)) /\ Done(m, s)' = Cardinality(Copies(p, what)')
      BY <2>3 DEF Done
    <3>4. QED
      BY <1>1, <2>3, <3>1, <3>2, <3>3
  <2>4. QED
    BY <2>1, <2>2, <2>3
<1>4. mails' \in [1..MaxLog -> Nat]
  BY DEF IInv, Counted
<1>5. Counted'
  BY <1>3, <1>4, CountedFrame, HandlerFacts DEF IInv
<1>6. QED
  BY <1>2, <1>5

LEMMA AnomalyIInv == ASSUME IInv, NEW w \in Workers, CheckAnomaly(w) PROVE IInv'
<1>1. /\ pc[w] = "anomaly" /\ GoTo(w, "persist")
      /\ Insert(w, "anomaly") \/ UNCHANGED rows
      /\ UNCHANGED <<mails, lost, acks, list, log, pos, rebalances>>
  BY DEF CheckAnomaly, GoTo, dashboardVars, sessionVars
<1>2. pos[w] <= Len(log)
  BY <1>1, HandlerFacts DEF InProcess
<1>3. PICK p \in 1..MaxLog : p = pos[w]
  BY <1>2, HandlerFacts
<1>4. Counted' /\ Stored' /\ rows \subseteq rows'
  <2>1. ASSUME NEW m \in 1..MaxLog, NEW s \in Steps
        PROVE  /\ Ahead(m, s)' \subseteq Ahead(m, s)
               /\ m = pos[w] /\ s = "anomaly" => Ahead(m, s)' # Ahead(m, s)
    <3>1. /\ "persist" \in Before(s) => "anomaly" \in Before(s)
          /\ s = "anomaly" => "anomaly" \in Before(s) /\ "persist" \notin Before(s)
      BY DEF Steps, Before
    <3>2. QED
      BY <1>1, <3>1, GoToAhead, HandlerFacts
  <2>2. \A v \in Workers : pc[v] = "out" => pc'[v] = "out"
    BY <1>1, HandlerFacts DEF GoTo, GroupOK
  <2>3. "anomaly" \in Kinds
    BY DEF Kinds
  <2>4. QED
    BY <1>1, <1>2, <2>1, <2>2, <2>3, InsertCounted
<1>5. HandlerFrame
  BY <1>1, <1>4 DEF HandlerFrame, IInv, Counted, Told
<1>6. MailTold(pos[w])'
  BY <1>1 DEF IInv, Told, MailTold, InProcess
<1>7. QED
  BY <1>1, <1>2, <1>5, <1>6, GoToIInv DEF InProcess

LEMMA PersistIInv ==
    ASSUME IInv, NEW w \in Workers, PersistAlert(w) \/ PersistFails(w)
    PROVE  IInv'
<1>1. /\ pc[w] = "persist" /\ MarkMessage(w)
      /\ UNCHANGED <<mails, acks, list, log, rebalances>>
      /\ \/ Insert(w, "event") /\ lost' = lost
         \/ (Insert(w, "event") \/ UNCHANGED rows) /\ lost' = lost \cup {<<"row", pos[w]>>}
  BY DEF PersistAlert, PersistFails, MarkMessage, dashboardVars, sessionVars
<1>2. pos[w] <= Len(log) /\ "event" \in Kinds
  BY <1>1, HandlerFacts DEF InProcess, Kinds
<1>3. PICK p \in 1..MaxLog : p = pos[w]
  BY <1>2, HandlerFacts
<1>4. Counted' /\ Stored' /\ rows \subseteq rows'
  <2>1. ASSUME NEW m \in 1..MaxLog, NEW s \in Steps
        PROVE  /\ Ahead(m, s)' \subseteq Ahead(m, s)
               /\ m = pos[w] /\ s = "event" => Ahead(m, s)' # Ahead(m, s)
    <3>1. s = "event" => "persist" \in Before(s)
      BY DEF Before
    <3>2. m \in Nat /\ pc[w] # "out"
      BY <1>1
    <3>3. QED
      BY <1>1, <3>1, <3>2, MarkAhead, HandlerFacts
  <2>2. \A v \in Workers : pc[v] = "out" => pc'[v] = "out"
    BY <1>1, HandlerFacts DEF MarkMessage, GroupOK
  <2>3. QED
    BY <1>1, <1>2, <2>1, <2>2, InsertCounted
<1>5. lost \subseteq lost' /\ lost' \subseteq {"mail", "row"} \X (1..MaxLog)
  <2>1. <<"row", p>> \in {"mail", "row"} \X (1..MaxLog)
    OBVIOUS
  <2>2. lost \subseteq {"mail", "row"} \X (1..MaxLog)
    BY DEF IInv, Told
  <2>3. QED
    BY <1>1, <1>3, <2>1, <2>2
<1>6. HandlerFrame
  BY <1>1, <1>4, <1>5 DEF HandlerFrame, IInv, Counted
<1>7. MailTold(p)'
  <2>1. MailTold(pos[w])
    BY <1>1 DEF IInv, Told, InProcess
  <2>2. QED
    BY <1>1, <1>3, <1>5, <2>1 DEF MailTold
<1>8. RowTold(p)'
  <2>1. CASE Insert(w, "event")
    <3>1. Copies(p, "event")' # {}
      BY <1>1, <1>2, <1>3, <2>1, InsertStored, HandlerFacts DEF IInv
    <3>2. QED
      BY <3>1 DEF RowTold
  <2>2. CASE lost' = lost \cup {<<"row", pos[w]>>}
    BY <1>3, <2>2 DEF RowTold
  <2>3. QED
    BY <1>1, <2>1, <2>2
<1>9. QED
  BY <1>1, <1>2, <1>3, <1>6, <1>7, <1>8, MarkIInv

---------------------------------------------------------------------------------
(* The dashboard's steps.                                                      *)

LEMMA QuietFrame ==
    ASSUME IInv, UNCHANGED <<groupVars, mails, rows, lost>>
    PROVE  (GroupPart /\ Counted /\ Stored /\ Told)'
<1>1. GroupPart'
  BY DEF IInv, groupVars, GroupPart, GroupOK, InTopic
<1>2. \A m, s : Copies(m, s)' = Copies(m, s) /\ Done(m, s)' = Done(m, s) /\ Ahead(m, s)' = Ahead(m, s)
  BY DEF groupVars, Copies, Done, Ahead
<1>3. Counted'
  BY <1>2 DEF IInv, groupVars, Counted
<1>4. Stored'
  BY <1>2 DEF IInv, groupVars, Stored, RowOK
<1>5. \A m : (MailTold(m)' <=> MailTold(m)) /\ (RowTold(m)' <=> RowTold(m)) /\ (Covered(m)' <=> Covered(m))
  BY <1>2 DEF groupVars, MailTold, RowTold, Covered
<1>6. \A w \in Workers : MailTold(pos[w])' <=> MailTold(pos[w])
  BY DEF groupVars, MailTold
<1>7. Told'
  BY <1>5, <1>6 DEF IInv, groupVars, Told
<1>8. QED
  BY <1>1, <1>3, <1>4, <1>7

LEMMA OpenIInv ==
    ASSUME IInv, CloseList \/ \E filter \in Filters : OpenList(filter)
    PROVE  IInv'
<1>1. UNCHANGED <<groupVars, mails, rows, lost, acks>>
  BY DEF OpenList, CloseList
<1>2. (GroupPart /\ Counted /\ Stored /\ Told)'
  BY <1>1, QuietFrame
<1>3. ASSUME NEW filter \in Filters, OpenList(filter) PROVE IInv'
  <2> DEFINE S == {x \in rows : Matches(x, filter)}
  <2>1. Alerts(S) \subseteq (1..MaxLog) \X Kinds
    <3>1. \A x \in S : x.msg \in 1..MaxLog /\ x.what \in Kinds
      BY DEF IInv, Stored, RowOK
    <3>2. QED
      BY <3>1 DEF Alerts
  <2>2. list' = [at |-> "open", filter |-> filter, offset |-> 0, due |-> Alerts(S)]
    BY <1>3 DEF OpenList
  <2>3. Listed' = S
    BY <1>1, <2>2 DEF Listed, Where, Matches, Owned, groupVars
  <2>4. ASSUME NEW d \in list'.due
        PROVE  \E x \in Listed' : <<x.msg, x.what>> = d /\ Cardinality(NotOlder(x)') > list'.offset
    <3>1. PICK x \in S : <<x.msg, x.what>> = d
      BY <2>2, <2>4 DEF Alerts
    <3>2. x \in NotOlder(x)'
      <4>1. Stored /\ x \in rows
        BY DEF IInv
      <4>2. ~Newer(x, x)
        BY <4>1, Order
      <4>3. QED
        BY <2>3, <4>2 DEF NotOlder, Newer
    <3>3. IsFiniteSet(NotOlder(x)') /\ Cardinality(NotOlder(x)') \in Nat
      <4>1. NotOlder(x)' \subseteq rows /\ IsFiniteSet(rows)
        BY <2>3 DEF NotOlder, IInv, Stored
      <4>2. QED
        BY <4>1, FS_Subset, FS_CardinalityType
    <3>4. Cardinality(NotOlder(x)') > 0
      BY <3>2, <3>3, FS_EmptySet
    <3>5. QED
      BY <2>2, <2>3, <3>1, <3>4
  <2>5. ListOK' /\ list'.at = "open" /\ acks' \in 0..MaxAcks
    BY <1>1, <2>1, <2>2, FiltersAssumption DEF ListOK, IInv, Walk
  <2>6. Walk'
    BY <2>4, <2>5 DEF Walk
  <2>7. QED
    BY <1>2, <2>6 DEF IInv
<1>4. CASE CloseList
  <2>1. list' = NoList
    BY <1>4 DEF CloseList
  <2>2. QED
    BY <1>1, <1>2, <2>1 DEF IInv, Walk, ListOK, NoList, NoFilter, Filter
<1>5. QED
  BY <1>3, <1>4

LEMMA PageIInv == ASSUME IInv, NextPage PROVE IInv'
<1>1. UNCHANGED <<groupVars, mails, rows, lost, acks>> /\ list.at = "open"
  BY DEF NextPage
<1>2. (GroupPart /\ Counted /\ Stored /\ Told)'
  BY <1>1, QuietFrame
<1>3. /\ ListOK /\ list.offset \in Nat /\ Stored /\ acks \in 0..MaxAcks
      /\ list.filter.read # "unread" => \A d \in list.due :
            \E x \in Listed : <<x.msg, x.what>> = d /\ Cardinality(NotOlder(x)) > list.offset
  BY <1>1 DEF IInv, Walk, ListOK
<1>4. Listed' = Listed /\ \A x : NotOlder(x)' = NotOlder(x)
  <2>1. list'.filter = list.filter
    BY <1>3 DEF NextPage, ListOK
  <2>2. Listed' = Listed
    BY <1>1, <2>1 DEF Listed, Where, Matches, Owned, groupVars
  <2>3. QED
    BY <2>2 DEF NotOlder, Newer
<1>5. CASE Page(list.offset) = {}
  <2>1. list' = [list EXCEPT !.at = "end", !.offset = 0]
    BY <1>5 DEF NextPage
  <2>2. list.filter.read # "unread" => list.due = {}
    BY <1>3, <1>5, PageShows
  <2>3. list' = [at |-> "end", filter |-> list.filter, offset |-> 0, due |-> list.due]
    BY <1>3, <2>1 DEF ListOK
  <2>4. ListOK'
    BY <1>3, <2>3 DEF ListOK
  <2>5. Walk'
    BY <1>1, <1>3, <2>2, <2>3, <2>4 DEF Walk
  <2>6. QED
    BY <1>2, <2>5 DEF IInv
<1>6. CASE Page(list.offset) # {}
  <2>1. PICK x \in Page(list.offset) :
           list' = [list EXCEPT !.offset = @ + 1, !.due = @ \ Alerts({x})]
    BY <1>6 DEF NextPage
  <2>2. list' = [at |-> "open", filter |-> list.filter, offset |-> list.offset + 1,
                 due |-> list.due \ Alerts({x})]
    BY <1>1, <1>3, <2>1 DEF ListOK
  <2>3. ASSUME list'.filter.read # "unread", NEW d \in list'.due
        PROVE  \E y \in Listed' : <<y.msg, y.what>> = d /\ Cardinality(NotOlder(y)') > list'.offset
    <3>1. d \in list.due /\ d \notin Alerts({x})
      BY <2>2, <2>3
    <3>2. PICK y \in Listed : <<y.msg, y.what>> = d /\ Cardinality(NotOlder(y)) > list.offset
      BY <1>3, <2>2, <2>3, <3>1
    <3>3. ~(x.msg = y.msg /\ x.what = y.what)
      BY <3>1, <3>2 DEF Alerts
    <3>4. Cardinality(NotOlder(y)) > list.offset + 1
      BY <1>3, <3>2, <3>3, PageNext
    <3>5. QED
      BY <1>4, <2>2, <3>2, <3>4
  <2>4. ListOK'
    <3>1. list.offset + 1 \in Nat /\ list.due \ Alerts({x}) \in SUBSET ((1..MaxLog) \X Kinds)
      BY <1>3 DEF ListOK
    <3>2. QED
      BY <1>3, <2>2, <3>1 DEF ListOK
  <2>5. list'.at = "open" /\ acks' = acks
    BY <1>1, <2>2
  <2>6. Walk'
    BY <1>3, <2>3, <2>4, <2>5 DEF Walk
  <2>7. QED
    BY <1>2, <2>6 DEF IInv
<1>7. QED
  BY <1>5, <1>6

(* An acknowledgement changes no more than whether rows were read.             *)
LEMMA AckIInv ==
    ASSUME IInv, NEW S, S \subseteq rows, MarkRead(S)
    PROVE  IInv'
<1>1. /\ UNCHANGED <<groupVars, mails, lost, list>> /\ acks < MaxAcks /\ acks' = acks + 1
      /\ rows' = (rows \ S) \cup {[x EXCEPT !.read = TRUE] : x \in S}
  BY DEF MarkRead
<1>2. GroupPart /\ Stored /\ log' = log /\ pc' = pc /\ pos' = pos /\ passed' = passed
      /\ rebalances' = rebalances /\ committed' = committed /\ marked' = marked
  BY <1>1 DEF IInv, groupVars
<1>3. PICK f : /\ Renames(f)
               /\ \A x \in rows : f[x] = IF x \in S THEN [x EXCEPT !.read = TRUE] ELSE x
  BY <1>1, <1>2, MarkRenames
<1>4. /\ f \in [rows -> rows']
      /\ \A x, y \in rows : f[x] = f[y] => x = y
      /\ \A z \in rows' : \E x \in rows : f[x] = z
      /\ \A x \in rows : f[x].msg = x.msg /\ f[x].what = x.what /\ f[x].copy = x.copy /\ f[x].at = x.at
  BY <1>3 DEF Renames
<1>5. IsFiniteSet(rows')
  BY <1>2, <1>3, <1>4, RenamedPart
<1>6. ASSUME NEW m, NEW k
      PROVE  /\ Cardinality(Copies(m, k)') = Cardinality(Copies(m, k))
             /\ (Copies(m, k) # {} => Copies(m, k)' # {})
  <2>1. Copies(m, k) \subseteq rows /\ Copies(m, k)' \subseteq rows'
    BY DEF Copies
  <2>2. \A x \in rows : x \in Copies(m, k) <=> f[x] \in Copies(m, k)'
    BY <1>4 DEF Copies
  <2>3. QED
    BY <1>2, <1>3, <2>1, <2>2, RenamedPart
<1>7. GroupPart'
  BY <1>1, <1>2 DEF groupVars, GroupPart, GroupOK, InTopic
<1>8. Counted'
  <2>1. \A m, s : Done(m, s)' = Done(m, s) /\ Ahead(m, s)' = Ahead(m, s)
    BY <1>1, <1>2, <1>6 DEF Done, Ahead
  <2>2. QED
    BY <1>1, <1>2, <2>1 DEF IInv, Counted
<1>9. Stored'
  <2>1. ASSUME NEW z \in rows' PROVE RowOK(z)'
    <3>1. PICK x \in rows : f[x] = z
      BY <1>4
    <3>2. z.msg = x.msg /\ z.what = x.what /\ z.copy = x.copy /\ z.at = x.at
      BY <1>4, <3>1
    <3>3. RowOK(x)
      BY DEF IInv, Stored
    <3>4. z \in [copy : Nat \ {0}, msg : 1..MaxLog, what : Kinds, at : Nat, read : BOOLEAN]
      <4>1. x \in [copy : Nat \ {0}, msg : 1..MaxLog, what : Kinds, at : Nat, read : BOOLEAN]
        BY <3>3 DEF RowOK
      <4>2. z = x \/ z = [x EXCEPT !.read = TRUE]
        BY <1>3, <3>1
      <4>3. QED
        BY <4>1, <4>2
    <3>5. Cardinality(Copies(x.msg, x.what)') = Cardinality(Copies(x.msg, x.what))
      BY <1>6
    <3>6. Cardinality(Copies(z.msg, z.what)') = Cardinality(Copies(x.msg, x.what))
      BY <3>2, <3>5 DEF Copies
    <3>7. QED
      BY <1>2, <3>2, <3>3, <3>4, <3>6 DEF RowOK, Copies
  <2>2. ASSUME NEW y \in rows', NEW z \in rows', y.msg = z.msg, y.what = z.what, y.copy = z.copy
        PROVE  y = z
    <3>1. PICK u \in rows, v \in rows : f[u] = y /\ f[v] = z
      BY <1>4
    <3>2. u = v
      BY <1>2, <1>4, <2>2, <3>1 DEF Stored
    <3>3. QED
      BY <3>1, <3>2
  <2>3. QED
    BY <1>5, <2>1, <2>2 DEF Stored
<1>10. Told'
  <2>1. \A m : /\ MailTold(m)' <=> MailTold(m)
               /\ RowTold(m) => RowTold(m)'
               /\ Covered(m)' <=> Covered(m)
    BY <1>1, <1>2, <1>6 DEF MailTold, RowTold, Covered
  <2>2. \A w \in Workers : MailTold(pos[w])' <=> MailTold(pos[w])
    BY <1>1, <1>2 DEF MailTold
  <2>3. QED
    BY <1>1, <1>2, <2>1, <2>2 DEF IInv, Told
<1>11. Walk'
  <2>1. acks' \in 0..MaxAcks
    <3>1. acks \in 0..MaxAcks /\ MaxAcks \in Nat
      BY EventsAssumption DEF IInv, Walk
    <3>2. QED
      BY <1>1, <3>1
  <2>2. ASSUME list.filter.read # "unread", NEW x \in rows
        PROVE  /\ x \in Listed => f[x] \in Listed'
               /\ Cardinality(NotOlder(x)) <= Cardinality(NotOlder(f[x])')
               /\ Cardinality(NotOlder(x)) \in Nat /\ Cardinality(NotOlder(f[x])') \in Nat
    <3>1. ASSUME NEW y \in rows, y \in Listed PROVE f[y] \in Listed'
      <4>1. f[y].msg = y.msg /\ f[y].what = y.what /\ f[y] \in rows' /\ (y.read => f[y].read)
        <5>1. y \in [copy : Nat \ {0}, msg : 1..MaxLog, what : Kinds, at : Nat, read : BOOLEAN]
          BY <1>2 DEF Stored, RowOK
        <5>2. f[y] = y \/ f[y] = [y EXCEPT !.read = TRUE]
          BY <1>3
        <5>3. y.read => f[y].read
          BY <5>1, <5>2
        <5>4. QED
          BY <1>4, <5>3
      <4>2. y.read \in BOOLEAN /\ f[y].read \in BOOLEAN
        BY <1>2, <1>3, <1>9 DEF Stored, RowOK
      <4>3. list.filter.read \in {"any", "read"}
        BY <2>2 DEF IInv, Walk, ListOK, Filter
      <4>4. QED
        BY <1>1, <1>2, <3>1, <4>1, <4>2, <4>3 DEF Listed, Where, Matches, Owned
    <3>2. \A y \in rows : Newer(x, y) <=> Newer(f[x], f[y])
      BY <1>4 DEF Newer
    <3> DEFINE A == NotOlder(x)
               B == {f[y] : y \in A}
    <3>3. A \subseteq rows /\ B \subseteq rows' /\ NotOlder(f[x])' \subseteq rows'
      BY <1>4 DEF NotOlder, Listed
    <3>4. \A y \in rows : y \in A <=> f[y] \in B
      BY <1>4, <3>3
    <3>5. IsFiniteSet(B) /\ Cardinality(B) = Cardinality(A)
      <4> HIDE DEF A, B
      <4>1. QED
        BY <1>2, <1>3, <3>3, <3>4, RenamedPart
    <3>6. B \subseteq NotOlder(f[x])'
      BY <3>1, <3>2, <3>3 DEF NotOlder, Newer
    <3>7. IsFiniteSet(NotOlder(f[x])')
      BY <1>5, <3>3, FS_Subset
    <3>8. Cardinality(B) <= Cardinality(NotOlder(f[x])')
      BY <3>6, <3>7, FS_Subset
    <3>9. Cardinality(B) \in Nat /\ Cardinality(NotOlder(f[x])') \in Nat
      BY <3>5, <3>7, FS_CardinalityType
    <3>10. QED
      BY <3>1, <3>5, <3>8, <3>9
  <2>3. ASSUME list.at = "open", list.filter.read # "unread", NEW d \in list.due
        PROVE  \E x \in Listed' : <<x.msg, x.what>> = d /\ Cardinality(NotOlder(x)') > list.offset
    <3>1. PICK x \in Listed : <<x.msg, x.what>> = d /\ Cardinality(NotOlder(x)) > list.offset
      BY <2>3 DEF IInv, Walk
    <3>2. x \in rows /\ list.offset \in Nat
      BY DEF Listed, IInv, Walk, ListOK
    <3>3. f[x] \in Listed' /\ <<f[x].msg, f[x].what>> = d
      BY <1>4, <2>2, <2>3, <3>1, <3>2
    <3>4. Cardinality(NotOlder(f[x])') > list.offset
      BY <2>2, <2>3, <3>1, <3>2
    <3>5. QED
      BY <3>3, <3>4
  <2>4. QED
    BY <1>1, <2>1, <2>3 DEF IInv, Walk, ListOK
<1>12. QED
  BY <1>7, <1>8, <1>9, <1>10, <1>11 DEF IInv

---------------------------------------------------------------------------------
(* The invariant, and what follows from it.                                    *)

LEMMA NextIInv == IInv /\ [Next]_vars => IInv'
<1> SUFFICES ASSUME IInv, [Next]_vars PROVE IInv'
  OBVIOUS
<1>1. CASE Group
  BY <1>1, PublishIInv, SessionIInv DEF Group
<1>2. CASE \E w \in Workers : Handle(w)
  BY <1>2, SkipIInv, MailIInv, AnomalyIInv, PersistIInv DEF Handle
<1>3. CASE Dashboard
  <2>1. ASSUME NEW x \in rows, Acknowledge(x) PROVE IInv'
    BY <2>1, AckIInv DEF Acknowledge
  <2>2. ASSUME NEW what, AcknowledgeAll(what) PROVE IInv'
    <3>1. {x \in rows : Owned(x) /\ ~x.read /\ x.what \in what} \subseteq rows
      OBVIOUS
    <3>2. QED
      BY <2>2, <3>1, AckIInv DEF AcknowledgeAll
  <2>3. QED
    BY <1>3, <2>1, <2>2, OpenIInv, PageIInv DEF Dashboard
<1>4. CASE UNCHANGED vars
  <2>1. UNCHANGED <<groupVars, mails, rows, lost, acks, list>>
    BY <1>4 DEF vars
  <2>2. (GroupPart /\ Counted /\ Stored /\ Told)'
    BY <2>1, QuietFrame
  <2>3. Walk'
    BY <2>1, TableFrame DEF groupVars
  <2>4. QED
    BY <2>2, <2>3 DEF IInv
<1>5. QED
  BY <1>1, <1>2, <1>3, <1>4 DEF Next

LEMMA Invariance == Spec => []IInv
<1>1. QED
  BY InitIInv, NextIInv, PTL DEF Spec

(* What was done for a message is bounded by the assignments.                  *)
LEMMA DoneBound ==
    ASSUME IInv, NEW m \in 1..MaxLog, NEW s \in Steps
    PROVE  Done(m, s) \in Nat /\ Done(m, s) <= rebalances /\ rebalances \in 0..MaxRebalances
<1>1. Counted /\ Stored
  BY DEF IInv
<1>2. Done(m, s) \in Nat
  BY <1>1, DoneType
<1>3. Cardinality(Ahead(m, s)) \in Nat
  BY <1>1, AheadFinite
<1>4. rebalances \in Nat /\ rebalances <= MaxRebalances
  BY DEF IInv, GroupPart, GroupOK
<1>5. Done(m, s) + Cardinality(Ahead(m, s)) <= rebalances
  BY <1>1 DEF Counted
<1>6. QED
  BY <1>2, <1>3, <1>4, <1>5, BoundsAssumption

---------------------------------------------------------------------------------
(* Every variable keeps its type: the mails of a message and the number of an  *)
(* alert's copy stay within the assignments.                                   *)
THEOREM TypeCorrect == Spec => []TypeOK
<1>1. IInv => TypeOK
  <2> SUFFICES ASSUME IInv PROVE TypeOK
    OBVIOUS
  <2>1. mails \in [1..MaxLog -> 0..MaxRebalances]
    <3>1. ASSUME NEW m \in 1..MaxLog PROVE mails[m] \in 0..MaxRebalances
      <4>1. Done(m, "mail") = mails[m] /\ "mail" \in Steps
        BY DEF Done, Steps
      <4>2. mails[m] \in Nat /\ mails[m] <= rebalances /\ rebalances \in 0..MaxRebalances
        BY <4>1, DoneBound
      <4>3. QED
        BY <4>2, BoundsAssumption
    <3>2. QED
      BY <3>1 DEF IInv, Counted
  <2>2. ASSUME NEW x \in rows PROVE x \in Alert
    <3>1. RowOK(x) /\ Len(log) \in Nat /\ Len(log) <= MaxLog
      BY LenProperties DEF IInv, Stored, GroupPart, GroupOK
    <3>2. /\ x \in [copy : Nat \ {0}, msg : 1..MaxLog, what : Kinds, at : Nat, read : BOOLEAN]
          /\ x.msg \in 1..MaxLog /\ x.what \in Kinds
      BY <3>1 DEF RowOK
    <3>3. x.copy \in 1..MaxRebalances
      <4>1. x.what \in Steps /\ Done(x.msg, x.what) = Cardinality(Copies(x.msg, x.what))
        BY <3>2 DEF Steps, Kinds, Done
      <4>2. /\ Cardinality(Copies(x.msg, x.what)) \in Nat
            /\ Cardinality(Copies(x.msg, x.what)) <= rebalances
            /\ rebalances \in 0..MaxRebalances
        BY <3>2, <4>1, DoneBound
      <4>3. x.copy \in Nat \ {0} /\ x.copy <= Cardinality(Copies(x.msg, x.what))
        BY <3>1, <3>2 DEF RowOK
      <4>4. QED
        BY <4>2, <4>3, BoundsAssumption
    <3>4. x.at \in 1..(2 * MaxLog + 1)
      <4>1. CASE x.what = "event"
        BY <3>1, <3>2, <4>1, BoundsAssumption DEF RowOK
      <4>2. CASE x.what # "event"
        <5>1. PICK n \in 0..Len(log) : x.at = 2 * n + 1
          BY <3>1, <4>2 DEF RowOK
        <5>2. QED
          BY <3>1, <5>1, BoundsAssumption
      <4>3. QED
        BY <4>1, <4>2
    <3>5. QED
      BY <3>2, <3>3, <3>4 DEF Alert
  <2>3. QED
    BY <2>1, <2>2 DEF IInv, GroupPart, Told, Walk, ListOK, TypeOK
<1>2. QED
  BY <1>1, Invariance, PTL

(* What the group has committed past is stored for the dashboard and, a budget *)
(* alert, mailed, or the failure of just that step was logged, however         *)
(* deliveries overlap, crash, fail or come again (evaluator.go:91-164).        *)
THEOREM AlertsNotLost == Spec => []NoAlertLost
<1>1. IInv => NoAlertLost
  <2> SUFFICES ASSUME IInv, NEW m \in 1..Len(log),
                      m < committed, log[m].kind # "garbled", m \notin passed
               PROVE  /\ Copies(m, "event") # {} \/ <<"row", m>> \in lost
                      /\ log[m].kind = "budget" => mails[m] > 0 \/ <<"mail", m>> \in lost
    BY DEF NoAlertLost
  <2>1. Covered(m)
    BY DEF Covered
  <2>2. RowTold(m) /\ MailTold(m)
    BY <2>1 DEF IInv, Told
  <2>3. QED
    BY <2>2 DEF RowTold, MailTold
<1>2. QED
  BY <1>1, Invariance, PTL

(* An alert is stored, and mailed, at most once per assignment of the          *)
(* partition, for every number of workers (evaluator.go:154-163).              *)
THEOREM CopiesCounted == Spec => []OneCopyPerDelivery
<1>1. IInv => OneCopyPerDelivery
  <2> SUFFICES ASSUME IInv, NEW m \in 1..Len(log)
               PROVE  Cardinality(Copies(m, "event")) <= rebalances /\ mails[m] <= rebalances
    BY DEF OneCopyPerDelivery
  <2>1. m \in 1..MaxLog
    BY HandlerFacts
  <2>2. "event" \in Steps /\ "mail" \in Steps
    BY DEF Steps
  <2>3. Done(m, "event") <= rebalances /\ Done(m, "mail") <= rebalances
    BY <2>1, <2>2, DoneBound
  <2>4. QED
    BY <2>3 DEF Done
<1>2. QED
  BY <1>1, Invariance, PTL

(* A walk through the pages that ends has shown every alert there was when it  *)
(* began, for any number of alerts stored and acknowledged meanwhile and every *)
(* filter but the one of unread alerts (alerts.ts:14-53).                      *)
THEOREM PagingComplete == Spec => []PagingMissesNothing
<1>1. IInv => PagingMissesNothing
  BY DEF IInv, Walk, PagingMissesNothing
<1>2. QED
  BY <1>1, Invariance, PTL
=================================================================================
