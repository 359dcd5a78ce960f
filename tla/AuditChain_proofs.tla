--------------------------- MODULE AuditChain_proofs ----------------------------
(* Proofs about AuditChain and AuditVerifier, the writer and the verifier of   *)
(* the chain, for every set of organizations, workers and events and every     *)
(* bound.                                                                      *)
EXTENDS AuditChain, AuditVerifier, ConsumerGroup_proofs

---------------------------------------------------------------------------------
(* The operators on rows.                                                      *)

(* A new row is a row.                                                         *)
LEMMA MakeRowType ==
    ASSUME NEW s \in Nat \ {0}, NEW o \in Orgs, NEW m \in Nat \ {0},
           NEW p \in Digest
    PROVE  MakeRow(s, o, m, p) \in Row
<1>1. [seq |-> s, org |-> o, msg |-> m] \in Content
  BY DEF Content
<1>2. Hash(s, o, m, p) \in Digest
  BY <1>1, AppendProperties DEF Hash, Digest
<1>3. QED
  BY <1>2 DEF MakeRow, Row

(* The last hash of typed rows is a digest.                                    *)
LEMMA LastHashType ==
    ASSUME NEW kept \in Seq(Row)
    PROVE  LastHash(kept) \in Digest
<1>1. CASE kept = << >>
  BY <1>1, EmptySeq DEF LastHash, NoHash, Digest
<1>2. CASE kept # << >>
  <2>1. kept[Len(kept)] \in Row
    BY <1>2, LenProperties, EmptySeq
  <2>2. QED
    BY <1>2, <2>1 DEF LastHash, Row
<1>3. QED
  BY <1>1, <1>2

(* When rows are numbered by their position, the row with the highest number   *)
(* is the last one.                                                            *)
LEMMA NewestIsLast ==
    ASSUME NEW kept \in Seq(Row), \A k \in 1..Len(kept) : kept[k].seq = k
    PROVE  NewestHash(kept) = LastHash(kept)
<1>1. CASE kept = << >>
  BY <1>1 DEF NewestHash, LastHash
<1>2. CASE kept # << >>
  <2> DEFINE P(i) == \A j \in 1..Len(kept) : kept[j].seq <= kept[i].seq
             n == CHOOSE i \in 1..Len(kept) : P(i)
  <2>1. Len(kept) \in Nat \ {0}
    BY <1>2, EmptySeq
  <2>2. Len(kept) \in 1..Len(kept) /\ P(Len(kept))
    BY <2>1
  <2>3. n \in 1..Len(kept) /\ P(n)
    <3> HIDE DEF P
    <3> QED
      BY <2>2
  <2>4. n = Len(kept)
    BY <2>1, <2>3
  <2>5. QED
    BY <1>2, <2>4 DEF NewestHash, LastHash
<1>3. QED
  BY <1>1, <1>2

---------------------------------------------------------------------------------
(* The inductive invariant. ChainLinked alone is not inductive: a commit keeps *)
(* it only because the lock holder's number and previous hash are still those  *)
(* of the chain's end, which is WriterAtTail, and that holds across another    *)
(* worker's commit only because the counter moves with the chain.              *)
IInv == TypeOK /\ ChainLinked /\ CounterAgrees /\ WriterAtTail

LEMMA InitIInv == Init => IInv
<1> SUFFICES ASSUME Init PROVE IInv
  OBVIOUS
<1>1. TypeOK
  BY EmptySeq, NobodyAssumption
  DEF Init, GroupInit, TypeOK, GroupOK, TxOK, DbOK, HistoryOK, NoSnap, NoHash,
      Digest, InTx
<1>2. ChainLinked /\ CounterAgrees
  BY DEF Init, GroupInit, ChainLinked, CounterAgrees
<1>3. WriterAtTail
  BY DEF Init, GroupInit, WriterAtTail, AtTail, InTx, Locking
<1>4. QED
  BY <1>1, <1>2, <1>3 DEF IInv

(* A step that leaves a worker's handler, its event and its organization's     *)
(* rows alone keeps it at the tail.                                            *)
LEMMA AtTailFrame ==
    ASSUME IInv, NEW w \in Workers,
           pc'[w] = pc[w], pos'[w] = pos[w], snap'[w] = snap[w],
           seq'[w] = seq[w], prev'[w] = prev[w],
           pos[w] <= Len(log) => pos[w] <= Len(log') /\ log'[pos[w]] = log[pos[w]],
           pc[w] \in InTx => /\ lock[OrgOf(w)] = w => lock'[OrgOf(w)] = w
                             /\ nextSeq'[OrgOf(w)] = nextSeq[OrgOf(w)]
                             /\ chain'[OrgOf(w)] = chain[OrgOf(w)]
    PROVE  AtTail(w)'
<1>1. AtTail(w)
  BY DEF IInv, WriterAtTail
<1>2. CASE pc[w] \notin InTx \cup {"mark"}
  BY <1>2 DEF AtTail, InTx, Locking
<1>3. CASE pc[w] \in InTx \cup {"mark"}
  <2>1. pos'[w] <= Len(log') /\ OrgOf(w)' = OrgOf(w) /\ Auditable(pos[w])'
    BY <1>1, <1>3 DEF AtTail, OrgOf, Auditable
  <2>2. QED
    BY <1>1, <1>3, <2>1 DEF AtTail, InTx, Locking
<1>4. QED
  BY <1>2, <1>3

(* Publishing an event changes neither the organization nor the type of those  *)
(* already in the topic.                                                       *)
LEMMA PublishIInv == ASSUME IInv, NEW e \in Events, Publish(e) PROVE IInv'
<1> USE DEF IInv
<1>1. /\ log' \in Seq(Events) /\ Len(log') = Len(log) + 1
      /\ \A m \in 1..Len(log) : log'[m] = log[m]
  BY AppendProperties DEF Publish, Produce, TypeOK, GroupOK, sessionVars
<1>2. Len(log) \in Nat
  BY LenProperties DEF TypeOK, GroupOK
<1>3. TypeOK'
  BY <1>1, <1>2
  DEF Publish, Produce, TypeOK, GroupOK, TxOK, DbOK, HistoryOK, txVars, dbVars,
      sessionVars
<1>4. ChainLinked' /\ CounterAgrees'
  BY DEF Publish, Produce, ChainLinked, CounterAgrees, dbVars, sessionVars
<1>5. WriterAtTail'
  <2> SUFFICES ASSUME NEW w \in Workers PROVE AtTail(w)'
    BY DEF WriterAtTail
  <2>1. pos[w] <= Len(log) => pos[w] <= Len(log') /\ log'[pos[w]] = log[pos[w]]
    BY <1>1, <1>2 DEF TypeOK, GroupOK
  <2>2. QED
    BY <2>1, AtTailFrame DEF Publish, Produce, txVars, dbVars, sessionVars
<1>6. QED
  BY <1>3, <1>4, <1>5

(* The steps of the consumer group and of ConsumeClaim move one worker's       *)
(* position and marks, and no row.                                             *)
LEMMA ConsumerIInv ==
    ASSUME IInv, NEW w \in Workers,
           \/ Assign(w) \/ AutoCommit(w) \/ Leave(w) \/ EndClaim(w)
           \/ SkipEvent(w) \/ TakeEvent(w) \/ DoneEvent(w)
    PROVE  IInv'
<1> USE DEF IInv
<1>1. Len(log) \in Nat
  BY LenProperties DEF TypeOK, GroupOK
<1>2. UNCHANGED <<log, snap, seq, prev, lock, nextSeq, chain>>
  BY DEF Assign, Join, AutoCommit, CommitOffset, Leave, LeaveGroup, EndClaim,
         CloseClaim, SkipEvent, MarkMessage, AtMessage, TakeEvent, GoTo,
         DoneEvent, txVars, dbVars, sessionVars
<1>3. \A v \in Workers \ {w} : pc'[v] = pc[v] /\ pos'[v] = pos[v]
  BY DEF Assign, Join, AutoCommit, CommitOffset, Leave, LeaveGroup, EndClaim,
         CloseClaim, SkipEvent, MarkMessage, AtMessage, TakeEvent, GoTo,
         DoneEvent, EndSession, TypeOK, GroupOK, sessionVars
<1>4. TypeOK'
  <2>1. GroupOK(InTx \cup {"mark"})'
    <3>1. GroupOK(InTx \cup {"mark"})
      BY DEF TypeOK
    <3>2. "begin" \in InTx
      BY DEF InTx
    <3> HIDE DEF IInv
    <3>3. CASE Assign(w) \/ AutoCommit(w) \/ Leave(w) \/ EndClaim(w)
      BY <3>1, <3>3, SessionOK DEF Assign, AutoCommit, Leave, EndClaim
    <3>4. CASE SkipEvent(w) \/ DoneEvent(w)
      BY <3>1, <3>4, MarkMessageOK DEF SkipEvent, DoneEvent
    <3>5. CASE TakeEvent(w)
      BY <3>1, <3>2, <3>5, GoToOK DEF TakeEvent
    <3>6. QED
      BY <3>3, <3>4, <3>5
  <2>2. TxOK' /\ DbOK'
    BY <1>2 DEF TypeOK, TxOK, DbOK
  <2>3. HistoryOK'
    BY <1>2 DEF Assign, AutoCommit, Leave, EndClaim, SkipEvent, TakeEvent, DoneEvent,
                TypeOK, HistoryOK
  <2>4. QED
    BY <2>1, <2>2, <2>3 DEF TypeOK
<1>5. ChainLinked' /\ CounterAgrees'
  BY <1>2 DEF ChainLinked, CounterAgrees
<1>6. ASSUME NEW v \in Workers PROVE AtTail(v)'
  <2>1. CASE v # w
    BY <1>2, <1>3, <2>1, AtTailFrame
  <2>2. CASE v = w /\ AutoCommit(w)
    BY <1>2, <2>2, AtTailFrame DEF AutoCommit, CommitOffset, sessionVars
  <2>3. CASE v = w /\ TakeEvent(w)
    BY <2>3
    DEF TakeEvent, GoTo, AtMessage, AtTail, Auditable, OrgOf, TypeOK, GroupOK,
        InTx, Locking, sessionVars
  <2>4. CASE v = w /\ ~ AutoCommit(w) /\ ~ TakeEvent(w)
    <3>1. pc'[w] \in {"idle", "out"}
      BY <2>4
      DEF Assign, Join, Leave, LeaveGroup, EndClaim, CloseClaim, SkipEvent,
          MarkMessage, AtMessage, DoneEvent, EndSession, TypeOK, GroupOK,
          sessionVars
    <3>2. QED
      BY <2>4, <3>1 DEF AtTail, InTx, Locking
  <2>5. QED
    BY <2>1, <2>2, <2>3, <2>4
<1>7. QED
  BY <1>4, <1>5, <1>6 DEF WriterAtTail

(* The end of a transaction leaves typed locals and locks.                     *)
LEMMA EndTxOK ==
    ASSUME TxOK, DbOK, NEW w \in Workers, EndTx(w), nextSeq' \in [Orgs -> Nat],
           chain' \in [Orgs -> Seq(Row)]
    PROVE  TxOK' /\ DbOK'
<1>1. NoSnap \in [next : Nat, rows : Seq(Row)] /\ NoHash \in Digest
  BY EmptySeq DEF NoSnap, NoHash, Digest
<1>2. QED
  BY <1>1 DEF EndTx, TxOK, DbOK

(* A process that dies gives up its transaction and keeps every row.           *)
LEMMA CrashIInv == ASSUME IInv, NEW w \in Workers, Crash(w) PROVE IInv'
<1> USE DEF IInv
<1>1. TypeOK'
  <2>1. GroupOK(InTx \cup {"mark"})' /\ HistoryOK'
    BY DEF Crash, Die, EndSession, TypeOK, GroupOK, HistoryOK, sessionVars
  <2>2. TxOK' /\ DbOK'
    BY EndTxOK DEF Crash, Die, TypeOK, DbOK, sessionVars
  <2>3. QED
    BY <2>1, <2>2 DEF TypeOK
<1>2. ChainLinked' /\ CounterAgrees'
  BY DEF Crash, Die, ChainLinked, CounterAgrees, sessionVars
<1>3. ASSUME NEW v \in Workers PROVE AtTail(v)'
  <2>1. CASE v # w
    <3>1. /\ pc'[v] = pc[v] /\ pos'[v] = pos[v] /\ snap'[v] = snap[v]
          /\ seq'[v] = seq[v] /\ prev'[v] = prev[v]
      BY <2>1
      DEF Crash, Die, EndSession, EndTx, TypeOK, GroupOK, TxOK, sessionVars
    <3>2. pc[v] \in InTx => OrgOf(v) \in Orgs
      BY DEF WriterAtTail, AtTail, Auditable, OrgOf
    <3>3. pc[v] \in InTx /\ lock[OrgOf(v)] = v => lock'[OrgOf(v)] = v
      BY <2>1, <3>2 DEF Crash, Die, EndTx, sessionVars
    <3>4. QED
      BY <3>1, <3>3, AtTailFrame DEF Crash, Die, sessionVars
  <2>2. CASE v = w
    BY <2>2
    DEF Crash, Die, EndSession, AtTail, InTx, Locking, TypeOK, GroupOK,
        sessionVars
  <2>3. QED
    BY <2>1, <2>2
<1>4. QED
  BY <1>1, <1>2, <1>3 DEF WriterAtTail

(* A Write that returns an error has changed no row either.                    *)
LEMMA WriteFailsIInv ==
    ASSUME IInv, NEW w \in Workers, pc[w] \in InTx, WriteFails(w)
    PROVE  IInv'
<1> USE DEF IInv
<1>1. Len(log) \in Nat /\ pos[w] \in 1..Len(log) /\ Auditable(pos[w])
  BY LenProperties DEF TypeOK, GroupOK, WriterAtTail, AtTail
<1>2. TypeOK'
  <2>1. GroupOK(InTx \cup {"mark"})' /\ HistoryOK'
    BY <1>1 DEF WriteFails, GoTo, TypeOK, GroupOK, HistoryOK, sessionVars
  <2>2. TxOK' /\ DbOK'
    BY EndTxOK DEF WriteFails, GoTo, TypeOK, DbOK, sessionVars
  <2>3. QED
    BY <2>1, <2>2 DEF TypeOK
<1>3. ChainLinked' /\ CounterAgrees'
  BY DEF WriteFails, GoTo, ChainLinked, CounterAgrees, sessionVars
<1>4. ASSUME NEW v \in Workers PROVE AtTail(v)'
  <2>1. CASE v # w
    BY <2>1, AtTailFrame
    DEF WriteFails, GoTo, EndTx, TypeOK, GroupOK, TxOK, DbOK, WriterAtTail,
        AtTail, Auditable, OrgOf, sessionVars
  <2>2. CASE v = w
    BY <1>1, <2>2
    DEF WriteFails, GoTo, AtTail, InTx, Locking, TypeOK, GroupOK, Auditable,
        sessionVars
  <2>3. QED
    BY <2>1, <2>2
<1>5. QED
  BY <1>2, <1>3, <1>4 DEF WriterAtTail

(* The statements of the transaction up to the commit change the worker's      *)
(* locals and, for the upsert, take the row lock.                              *)
LEMMA StatementIInv ==
    ASSUME IInv, NEW w \in Workers,
           BeginTx(w) \/ AllocSeq(w) \/ FetchPrev(w) \/ InsertRow(w)
    PROVE  IInv'
<1> USE DEF IInv
<1> DEFINE o == OrgOf(w)
<1>1. /\ o \in Orgs /\ pos[w] <= Len(log) /\ Auditable(pos[w]) /\ o' = o
      /\ chain[o] \in Seq(Row) /\ nextSeq[o] \in Nat
      /\ snap[w].rows \in Seq(Row) /\ snap[w].next \in Nat
  BY DEF BeginTx, GoTo, AllocSeq, FetchPrev, InsertRow, WriterAtTail, AtTail,
         InTx, Auditable, OrgOf, TypeOK, TxOK, DbOK, sessionVars
<1>2. UNCHANGED <<log, committed, owner, rebalances, pos, marked, nextSeq, chain,
                  failed, passed>>
  BY DEF BeginTx, GoTo, AllocSeq, FetchPrev, InsertRow, dbVars, sessionVars
<1>3. /\ pc[w] \in InTx /\ pc' \in [Workers -> InTx \cup {"out", "idle", "mark"}]
      /\ \A v \in Workers \ {w} : pc'[v] = pc[v]
  BY DEF BeginTx, GoTo, AllocSeq, FetchPrev, InsertRow, TypeOK, GroupOK, InTx,
         sessionVars
<1>4. Len(chain[o]) \in Nat
      /\ nextSeq[o] = IF chain[o] = << >> THEN 0 ELSE Len(chain[o]) + 1
  BY <1>1, LenProperties DEF CounterAgrees
<1>5. ASSUME pc[w] = "fetch" PROVE NewestHash(snap[w].rows) = LastHash(chain[o])
  <2>1. snap[w].rows = chain[o]
    BY <1>5 DEF WriterAtTail, AtTail, Locking
  <2>2. \A k \in 1..Len(chain[o]) : chain[o][k].seq = k
    BY <1>1 DEF ChainLinked
  <2> HIDE DEF o
  <2>3. QED
    BY <1>1, <2>1, <2>2, NewestIsLast
<1>6. ASSUME nextSeq[o] = snap[w].next
      PROVE  Bumped(snap[w].next) - 1 = Len(chain[o]) + 1
  BY <1>1, <1>4, <1>6, EmptySeq DEF Bumped
<1>7. TypeOK'
  <2>1. GroupOK(InTx \cup {"mark"})' /\ HistoryOK'
    BY <1>2, <1>3 DEF TypeOK, GroupOK, HistoryOK
  <2>2. TxOK'
    <3> USE DEF TypeOK, TxOK
    <3>1. CASE BeginTx(w)
      BY <1>1, <3>1 DEF BeginTx, GoTo, sessionVars
    <3>2. CASE AllocSeq(w)
      BY <1>1, <1>4, <1>6, <3>2 DEF AllocSeq, GoTo, sessionVars
    <3>3. CASE FetchPrev(w)
      <4>1. LastHash(chain[o]) \in Digest
        BY <1>1, LastHashType
      <4>2. QED
        BY <1>5, <3>3, <4>1 DEF FetchPrev, GoTo, sessionVars
    <3>4. CASE InsertRow(w)
      BY <3>4 DEF InsertRow, GoTo, txVars, sessionVars
    <3>5. QED
      BY <3>1, <3>2, <3>3, <3>4
  <2>3. DbOK'
    BY <1>2
    DEF BeginTx, GoTo, AllocSeq, FetchPrev, InsertRow, dbVars, TypeOK, DbOK,
        sessionVars
  <2>4. QED
    BY <2>1, <2>2, <2>3 DEF TypeOK
<1>8. ChainLinked' /\ CounterAgrees'
  BY <1>2 DEF ChainLinked, CounterAgrees
<1>9. ASSUME NEW v \in Workers PROVE AtTail(v)'
  <2>1. CASE v # w
    <3>1. snap'[v] = snap[v] /\ seq'[v] = seq[v] /\ prev'[v] = prev[v]
      BY <2>1
      DEF BeginTx, GoTo, AllocSeq, FetchPrev, InsertRow, txVars, TypeOK, TxOK,
          sessionVars
    <3>2. pc[v] \in InTx => OrgOf(v) \in Orgs
      BY DEF WriterAtTail, AtTail, Auditable, OrgOf
    <3>3. lock[OrgOf(v)] = v /\ pc[v] \in InTx => lock'[OrgOf(v)] = v
      BY <3>2, NobodyAssumption
      DEF BeginTx, GoTo, AllocSeq, FetchPrev, InsertRow, dbVars, TypeOK, DbOK,
          sessionVars
    <3>4. QED
      BY <1>2, <1>3, <2>1, <3>1, <3>3, AtTailFrame
  <2>2. CASE v = w /\ BeginTx(w)
    <3>1. pc'[w] = "upsert" /\ snap'[w] = [next |-> nextSeq[o], rows |-> chain[o]]
      BY <2>2 DEF BeginTx, GoTo, TypeOK, GroupOK, TxOK, sessionVars
    <3>2. QED
      BY <1>1, <1>2, <2>2, <3>1 DEF AtTail, InTx, Locking, Auditable
  <2>3. CASE v = w /\ AllocSeq(w)
    <3>1. /\ pc'[w] = "fetch" /\ lock'[o] = w /\ snap'[w] = snap[w]
          /\ seq'[w] = Len(chain[o]) + 1
      BY <1>1, <1>6, <2>3
      DEF AllocSeq, GoTo, TypeOK, GroupOK, TxOK, DbOK, sessionVars
    <3>2. snap[w].rows = chain[o]
      BY <2>3 DEF AllocSeq, GoTo, WriterAtTail, AtTail, sessionVars
    <3>3. QED
      BY <1>1, <1>2, <2>3, <3>1, <3>2 DEF AtTail, InTx, Locking, Auditable
  <2>4. CASE v = w /\ FetchPrev(w)
    <3>1. /\ pc[w] = "fetch" /\ pc'[w] = "insert" /\ UNCHANGED <<snap, seq, lock>>
          /\ prev'[w] = LastHash(chain[o])
      BY <1>5, <2>4
      DEF FetchPrev, GoTo, TypeOK, GroupOK, TxOK, dbVars, sessionVars
    <3>2. QED
      BY <1>1, <1>2, <2>4, <3>1 DEF WriterAtTail, AtTail, InTx, Locking, Auditable
  <2>5. CASE v = w /\ InsertRow(w)
    <3>1. pc[w] = "insert" /\ pc'[w] = "commit" /\ UNCHANGED <<snap, seq, prev, lock>>
      BY <2>5 DEF InsertRow, GoTo, TypeOK, GroupOK, txVars, dbVars, sessionVars
    <3>2. QED
      BY <1>1, <1>2, <2>5, <3>1 DEF WriterAtTail, AtTail, InTx, Locking, Auditable
  <2>6. QED
    BY <2>1, <2>2, <2>3, <2>4, <2>5
<1>10. QED
  BY <1>7, <1>8, <1>9 DEF WriterAtTail

(* What applying a transaction does to its organization's rows: the new row    *)
(* has the next number and carries the last hash.                              *)
LEMMA ApplyRow ==
    ASSUME IInv, NEW w \in Workers, pc[w] = "commit", Apply(w)
    PROVE  LET o == OrgOf(w)
               row == MakeRow(Len(chain[o]) + 1, o, pos[w], LastHash(chain[o]))
           IN  /\ o \in Orgs /\ pos[w] \in 1..Len(log) /\ row \in Row
               /\ Len(chain[o]) \in Nat /\ chain[o] \in Seq(Row)
               /\ chain' = [chain EXCEPT ![o] = Append(chain[o], row)]
               /\ nextSeq' = [nextSeq EXCEPT ![o] = Len(chain[o]) + 2]
<1> DEFINE o == OrgOf(w)
<1>1. /\ o \in Orgs /\ pos[w] \in 1..Len(log) /\ pos[w] \in Nat \ {0}
      /\ seq[w] = Len(chain[o]) + 1 /\ prev[w] = LastHash(chain[o])
  BY LenProperties
  DEF IInv, WriterAtTail, AtTail, InTx, Locking, Auditable, OrgOf, TypeOK, GroupOK
<1>2. chain[o] \in Seq(Row) /\ Len(chain[o]) \in Nat
  BY <1>1, LenProperties DEF IInv, TypeOK, DbOK
<1>3. LastHash(chain[o]) \in Digest
  BY <1>2, LastHashType
<1>4. MakeRow(Len(chain[o]) + 1, o, pos[w], LastHash(chain[o])) \in Row
  <2>1. Len(chain[o]) + 1 \in Nat \ {0}
    BY <1>2
  <2> HIDE DEF o
  <2>2. QED
    BY <1>1, <1>3, <2>1, MakeRowType
<1>5. QED
  BY <1>1, <1>2, <1>4 DEF Apply

(* A commit, acknowledged or not, extends one chain by its next row.           *)
LEMMA CommitIInv ==
    ASSUME IInv, NEW w \in Workers, Commit(w) \/ CommitUnacknowledged(w)
    PROVE  IInv'
<1> USE DEF IInv
<1> DEFINE o == OrgOf(w)
           row == MakeRow(Len(chain[o]) + 1, o, pos[w], LastHash(chain[o]))
<1>1. /\ pc[w] = "commit" /\ pc' = [pc EXCEPT ![w] = "mark"]
      /\ Apply(w) /\ EndTx(w)
      /\ UNCHANGED <<log, committed, owner, rebalances, pos, marked, passed>>
      /\ failed' \subseteq failed \cup {pos[w]}
  BY DEF Commit, GoTo, CommitUnacknowledged, Apply, sessionVars
<1>2. /\ o \in Orgs /\ pos[w] \in 1..Len(log) /\ row \in Row
      /\ Len(chain[o]) \in Nat /\ chain[o] \in Seq(Row)
      /\ chain' = [chain EXCEPT ![o] = Append(chain[o], row)]
      /\ nextSeq' = [nextSeq EXCEPT ![o] = Len(chain[o]) + 2]
  BY <1>1, ApplyRow
<1>3. /\ row.seq = Len(chain[o]) + 1 /\ row.msg = pos[w]
      /\ row.prev = LastHash(chain[o])
      /\ row.hash = Hash(row.seq, o, row.msg, row.prev)
  BY DEF MakeRow
<1> HIDE DEF o, row
<1>4. /\ chain'[o] = Append(chain[o], row)
      /\ nextSeq'[o] = Len(chain[o]) + 2
      /\ \A p \in Orgs \ {o} : chain'[p] = chain[p] /\ nextSeq'[p] = nextSeq[p]
  BY <1>2 DEF TypeOK, DbOK
<1>5. /\ chain'[o] \in Seq(Row) /\ chain'[o] # << >>
      /\ Len(chain'[o]) = Len(chain[o]) + 1
      /\ \A k \in 1..Len(chain[o]) : chain'[o][k] = chain[o][k]
      /\ chain'[o][Len(chain[o]) + 1] = row
  BY <1>2, <1>4, AppendProperties
<1>6. TypeOK'
  <2>1. GroupOK(InTx \cup {"mark"})' /\ HistoryOK'
    BY <1>1, <1>2 DEF TypeOK, GroupOK, HistoryOK
  <2>2. chain' \in [Orgs -> Seq(Row)] /\ nextSeq' \in [Orgs -> Nat]
    BY <1>2, <1>4, <1>5 DEF TypeOK, DbOK
  <2>3. TxOK' /\ DbOK'
    BY <1>1, <2>2, EndTxOK DEF TypeOK
  <2>4. QED
    BY <2>1, <2>3 DEF TypeOK
<1>7. CounterAgrees'
  BY <1>2, <1>4, <1>5 DEF CounterAgrees
<1>8. ChainLinked'
  <2> SUFFICES ASSUME NEW p \in Orgs, NEW k \in 1..Len(chain'[p])
               PROVE  /\ chain'[p][k].seq = k
                      /\ chain'[p][k].prev = IF k = 1 THEN NoHash
                                             ELSE chain'[p][k - 1].hash
                      /\ chain'[p][k].hash =
                            Hash(k, p, chain'[p][k].msg, chain'[p][k].prev)
    BY DEF ChainLinked
  <2>1. CASE p # o
    BY <1>4, <2>1 DEF ChainLinked
  <2>2. CASE p = o /\ k <= Len(chain[o])
    <3>1. k \in 1..Len(chain[o]) /\ (k # 1 => k - 1 \in 1..Len(chain[o]))
      BY <1>2, <1>5, <2>2
    <3>2. QED
      BY <1>2, <1>5, <2>2, <3>1 DEF ChainLinked
  <2>3. CASE p = o /\ k = Len(chain[o]) + 1
    <3>1. chain'[o][k] = row
      BY <1>5, <2>3
    <3>2. row.prev = IF k = 1 THEN NoHash ELSE chain'[o][k - 1].hash
      <4>1. CASE k = 1
        BY <1>2, <1>3, <2>3, <4>1, EmptySeq DEF LastHash
      <4>2. CASE k # 1
        <5>1. chain[o] # << >> /\ Len(chain[o]) \in 1..Len(chain[o])
          BY <1>2, <2>3, <4>2, EmptySeq
        <5>2. QED
          BY <1>2, <1>3, <1>5, <2>3, <4>2, <5>1 DEF LastHash
      <4>3. QED
        BY <4>1, <4>2
    <3>3. QED
      BY <1>3, <2>3, <3>1, <3>2
  <2>4. QED
    BY <1>2, <1>5, <2>1, <2>2, <2>3
<1>9. ASSUME NEW v \in Workers PROVE AtTail(v)'
  <2>1. CASE v = w
    BY <1>1, <1>2, <2>1
    DEF AtTail, InTx, Locking, TypeOK, GroupOK, WriterAtTail, Auditable
  <2> SUFFICES ASSUME v # w PROVE AtTail(v)'
    BY <2>1
  <2>2. /\ pc'[v] = pc[v] /\ pos'[v] = pos[v] /\ snap'[v] = snap[v]
        /\ seq'[v] = seq[v] /\ prev'[v] = prev[v]
    BY <1>1 DEF EndTx, TypeOK, GroupOK, TxOK
  <2>3. pc[v] \in InTx => OrgOf(v) \in Orgs
    BY DEF WriterAtTail, AtTail, Auditable, OrgOf
  <2>4. pc[v] \in InTx /\ lock[OrgOf(v)] = v => lock'[OrgOf(v)] = v
    BY <1>1, <2>3 DEF EndTx
  <2>5. CASE pc[v] \in InTx => OrgOf(v) # o
    BY <1>1, <1>4, <2>2, <2>3, <2>4, <2>5, AtTailFrame
  <2>6. CASE pc[v] \in InTx /\ OrgOf(v) = o
    <3>1. lock[o] = w
      BY <1>1 DEF WriterAtTail, AtTail, Locking, o
    <3>2. pc[v] \notin Locking
      BY <2>6, <3>1 DEF WriterAtTail, AtTail
    <3>3. /\ pos'[v] <= Len(log') /\ Auditable(pos[v])' /\ OrgOf(v)' = o
      BY <1>1, <2>2, <2>6 DEF WriterAtTail, AtTail, Auditable, OrgOf
    <3>4. pc[v] = "upsert" => snap[v].next < nextSeq'[o]
      <4>1. nextSeq[o] < nextSeq'[o]
        BY <1>2, <1>4 DEF CounterAgrees
      <4>2. pc[v] = "upsert" => snap[v].next <= nextSeq[o]
        BY <2>6 DEF WriterAtTail, AtTail
      <4>3. /\ snap[v].next \in Nat /\ nextSeq[o] \in Nat /\ nextSeq'[o] \in Nat
        BY <1>2, <1>4 DEF TypeOK, TxOK, DbOK
      <4>4. QED
        BY <4>1, <4>2, <4>3
    <3>5. snap[v].next \in Nat /\ nextSeq'[o] \in Nat
      BY <1>2, <1>4 DEF TypeOK, TxOK
    <3>6. QED
      BY <2>2, <3>2, <3>3, <3>4, <3>5 DEF AtTail, Locking
  <2>7. QED
    BY <2>5, <2>6
<1>10. QED
  BY <1>6, <1>7, <1>8, <1>9 DEF WriterAtTail

---------------------------------------------------------------------------------
(* The theorems.                                                               *)

LEMMA NextIInv == IInv /\ [Next]_vars => IInv'
<1> SUFFICES ASSUME IInv, [Next]_vars PROVE IInv'
  OBVIOUS
<1>1. CASE UNCHANGED vars
  <2>1. TypeOK'
    BY <1>1
    DEF vars, groupVars, IInv, TypeOK, GroupOK, TxOK, DbOK, HistoryOK
  <2>2. (ChainLinked /\ CounterAgrees)'
    BY <1>1 DEF vars, groupVars, IInv, ChainLinked, CounterAgrees
  <2>3. WriterAtTail'
    BY <1>1 DEF vars, groupVars, IInv, WriterAtTail, AtTail, OrgOf, Auditable
  <2>4. QED
    BY <2>1, <2>2, <2>3 DEF IInv
<1>2. CASE \E e \in Events : Publish(e)
  BY <1>2, PublishIInv
<1>3. ASSUME NEW w \in Workers,
             Assign(w) \/ AutoCommit(w) \/ Leave(w) \/ EndClaim(w)
      PROVE  IInv'
  BY <1>3, ConsumerIInv
<1>4. ASSUME NEW w \in Workers, Handle(w) PROVE IInv'
  <2>1. CASE SkipEvent(w) \/ TakeEvent(w) \/ DoneEvent(w)
    BY <2>1, ConsumerIInv
  <2>2. CASE BeginTx(w) \/ AllocSeq(w) \/ FetchPrev(w) \/ InsertRow(w)
    BY <2>2, StatementIInv
  <2>3. CASE Commit(w)
    BY <2>3, CommitIInv
  <2>4. CASE SerializationFailure(w) \/ ConstraintViolation(w)
    BY <2>4, WriteFailsIInv DEF SerializationFailure, ConstraintViolation, InTx
  <2>5. QED
    BY <1>4, <2>1, <2>2, <2>3, <2>4 DEF Handle
<1>5. ASSUME NEW w \in Workers, Fault(w) PROVE IInv'
  BY <1>5, CrashIInv, WriteFailsIInv, CommitIInv DEF Fault, StatementError
<1>6. QED
  BY <1>1, <1>2, <1>3, <1>4, <1>5 DEF Next

(* IInv holds in every reachable state.                                        *)
THEOREM Invariance == Spec => []IInv
<1>1. QED
  BY InitIInv, NextIInv, PTL DEF Spec

(* The variables keep their types, whatever consumers and transactions do.     *)
THEOREM TypeCorrect == Spec => []TypeOK
<1>1. IInv => TypeOK
  BY DEF IInv
<1>2. QED
  BY Invariance, <1>1, PTL

(* No interleaving of consumers, crash or failed transaction forks an          *)
(* organization's chain, leaves a gap in it or reuses a number (writer.go).    *)
THEOREM ChainIntegrity == Spec => []ChainLinked
<1>1. IInv => ChainLinked
  BY DEF IInv
<1>2. QED
  BY Invariance, <1>1, PTL

(* The committed counter is always one ahead of the chain (audit_seq).         *)
THEOREM CounterIntegrity == Spec => []CounterAgrees
<1>1. IInv => CounterAgrees
  BY DEF IInv
<1>2. QED
  BY Invariance, <1>1, PTL

(* A transaction that holds the row lock works at the committed tail.          *)
THEOREM TailOwnership == Spec => []WriterAtTail
<1>1. IInv => WriterAtTail
  BY DEF IInv
<1>2. QED
  BY Invariance, <1>1, PTL

(* A step that leaves the topic and the rows alone stutters in the ledger.     *)
LEMMA StutterSteps ==
    ASSUME NEW w \in Workers,
           \/ Assign(w) \/ AutoCommit(w) \/ Leave(w) \/ EndClaim(w) \/ Crash(w)
           \/ SkipEvent(w) \/ TakeEvent(w) \/ DoneEvent(w)
           \/ BeginTx(w) \/ AllocSeq(w) \/ FetchPrev(w) \/ InsertRow(w)
           \/ WriteFails(w)
    PROVE  UNCHANGED <<log, chain>>
<1>1. CASE Assign(w) \/ AutoCommit(w) \/ Leave(w) \/ EndClaim(w) \/ Crash(w)
  BY <1>1
  DEF Assign, Join, AutoCommit, CommitOffset, Leave, LeaveGroup, EndClaim,
      CloseClaim, Crash, Die, dbVars, sessionVars
<1>2. CASE SkipEvent(w) \/ TakeEvent(w) \/ DoneEvent(w) \/ WriteFails(w)
  BY <1>2
  DEF SkipEvent, MarkMessage, AtMessage, TakeEvent, GoTo, DoneEvent, WriteFails,
      dbVars, sessionVars
<1>3. CASE BeginTx(w) \/ AllocSeq(w) \/ FetchPrev(w) \/ InsertRow(w)
  BY <1>3 DEF BeginTx, GoTo, AllocSeq, FetchPrev, InsertRow, dbVars, sessionVars
<1>4. QED
  BY <1>1, <1>2, <1>3

(* Every step of the consumers and their transactions is an atomic append of   *)
(* the abstract ledger, a publication, or invisible in it (writer.go:48:       *)
(* "Write atomically appends a single AuditEntry to the hash chain").          *)
THEOREM Refinement == Spec => AtomicAppend
<1>1. Init => Ledger!Init
  BY DEF Init, GroupInit, Ledger!Init
<1>2. IInv /\ [Next]_vars => [Ledger!Next]_(Ledger!ledgerVars)
  <2> SUFFICES ASSUME IInv, [Next]_vars
               PROVE  Ledger!Next \/ UNCHANGED <<log, chain>>
    BY DEF Ledger!ledgerVars
  <2>1. CASE UNCHANGED vars
    BY <2>1 DEF vars, groupVars
  <2>2. ASSUME NEW e \in Events, Publish(e) PROVE Ledger!Next
    BY <2>2 DEF Publish, Produce, dbVars, Ledger!Next, Ledger!Publish, sessionVars
  <2>3. ASSUME NEW w \in Workers, Commit(w) \/ CommitUnacknowledged(w)
        PROVE  Ledger!Next
    <3>1. pc[w] = "commit" /\ Apply(w) /\ UNCHANGED log
      BY <2>3 DEF Commit, GoTo, CommitUnacknowledged, sessionVars
    <3>2. pos[w] \in 1..Len(log) /\ Ledger!Record(pos[w])
      <4>1. Ledger!MakeRow(Len(chain[OrgOf(w)]) + 1, OrgOf(w), pos[w],
                           Ledger!LastHash(chain[OrgOf(w)]))
            = MakeRow(Len(chain[OrgOf(w)]) + 1, OrgOf(w), pos[w],
                      LastHash(chain[OrgOf(w)]))
        BY DEF MakeRow, Hash, LastHash, NoHash, Ledger!MakeRow, Ledger!Hash,
               Ledger!LastHash, Ledger!NoHash
      <4>2. QED
        BY <3>1, <4>1, ApplyRow DEF Ledger!Record, OrgOf
    <3>3. QED
      BY <3>2 DEF Ledger!Next
  <2>4. ASSUME NEW w \in Workers,
               \/ Assign(w) \/ AutoCommit(w) \/ Leave(w) \/ EndClaim(w)
               \/ Handle(w) /\ ~ Commit(w)
               \/ Fault(w) /\ ~ CommitUnacknowledged(w)
        PROVE  UNCHANGED <<log, chain>>
    BY <2>4, StutterSteps
    DEF Handle, Fault, StatementError, SerializationFailure, ConstraintViolation
  <2>5. QED
    BY <2>1, <2>2, <2>3, <2>4 DEF Next, Handle, Fault
<1>3. QED
  BY <1>1, <1>2, Invariance, PTL DEF Spec, AtomicAppend, Ledger!Spec

---------------------------------------------------------------------------------
(* No event is lost silently. NoSilentLoss speaks of the committed position    *)
(* only; the strengthening says the same (Covered) of the position and the     *)
(* marks of every handler, also of one that has lost the partition.            *)
SettledBelow ==
    /\ \A m \in 1..Len(log) : Covered(m) => Settled(m)
    /\ committed <= Len(log) + 1
    /\ \A w \in Workers : pos[w] <= Len(log) + 1 /\ marked[w] <= Len(log) + 1
    /\ \A w \in Workers : pc[w] = "mark" => Settled(pos[w])

(* Every step keeps the published events and the rows and forgets no failure.  *)
LEMMA NothingForgotten ==
    ASSUME IInv, [Next]_vars
    PROVE  /\ Len(log) \in Nat /\ Len(log') \in Nat /\ Len(log) <= Len(log')
           /\ \A m \in 1..Len(log) : log'[m] = log[m]
           /\ \A m \in 1..Len(log) : Recorded(m) => Recorded(m)'
           /\ failed \subseteq failed' /\ passed \subseteq passed'
<1> USE DEF IInv
<1>1. Len(log) \in Nat
  BY LenProperties DEF TypeOK, GroupOK
<1>2. CASE UNCHANGED vars
  BY <1>1, <1>2 DEF vars, Recorded, groupVars
<1>3. ASSUME NEW e \in Events, Publish(e)
      PROVE  /\ Len(log') = Len(log) + 1 /\ \A m \in 1..Len(log) : log'[m] = log[m]
             /\ UNCHANGED <<chain, failed, passed>>
  BY <1>3, AppendProperties
  DEF Publish, Produce, dbVars, TypeOK, GroupOK, sessionVars
<1>4. ASSUME NEW w \in Workers, Commit(w) \/ CommitUnacknowledged(w)
      PROVE  /\ UNCHANGED <<log, passed>> /\ failed \subseteq failed'
             /\ \A m \in 1..Len(log) : Recorded(m) => Recorded(m)'
  <2>1. /\ pc[w] = "commit" /\ Apply(w) /\ UNCHANGED <<log, passed>>
        /\ failed \subseteq failed'
    BY <1>4 DEF Commit, GoTo, CommitUnacknowledged, sessionVars
  <2> DEFINE o == OrgOf(w)
             row == MakeRow(Len(chain[o]) + 1, o, pos[w], LastHash(chain[o]))
  <2>2. /\ o \in Orgs /\ row \in Row /\ chain[o] \in Seq(Row) /\ Len(chain[o]) \in Nat
        /\ chain' = [chain EXCEPT ![o] = Append(chain[o], row)]
    BY <2>1, ApplyRow
  <2> HIDE DEF o, row
  <2>3. /\ chain'[o] = Append(chain[o], row)
        /\ \A q \in Orgs \ {o} : chain'[q] = chain[q]
    BY <2>2 DEF TypeOK, DbOK
  <2>4. /\ Len(chain'[o]) = Len(chain[o]) + 1
        /\ \A k \in 1..Len(chain[o]) : chain'[o][k] = chain[o][k]
    BY <2>2, <2>3, AppendProperties
  <2>5. ASSUME NEW q \in Orgs, NEW k \in 1..Len(chain[q])
        PROVE  k \in 1..Len(chain'[q]) /\ chain'[q][k] = chain[q][k]
    BY <2>2, <2>3, <2>4
  <2>6. QED
    BY <2>1, <2>5 DEF Recorded
<1>5. ASSUME NEW w \in Workers,
             \/ Assign(w) \/ AutoCommit(w) \/ Leave(w) \/ EndClaim(w) \/ Crash(w)
             \/ SkipEvent(w) \/ TakeEvent(w) \/ DoneEvent(w)
             \/ BeginTx(w) \/ AllocSeq(w) \/ FetchPrev(w) \/ InsertRow(w)
             \/ WriteFails(w)
      PROVE  UNCHANGED <<log, chain>> /\ failed \subseteq failed' /\ passed \subseteq passed'
  <2>1. UNCHANGED <<log, chain>>
    BY <1>5, StutterSteps
  <2>2. failed \subseteq failed' /\ passed \subseteq passed'
    BY <1>5
    DEF Assign, Join, AutoCommit, CommitOffset, Leave, LeaveGroup, EndClaim,
        CloseClaim, Crash, Die, SkipEvent, MarkMessage, AtMessage, TakeEvent,
        GoTo, DoneEvent, BeginTx, AllocSeq, FetchPrev, InsertRow, WriteFails,
        sessionVars
  <2>3. QED
    BY <2>1, <2>2
<1>6. CASE \E e \in Events : Publish(e)
  BY <1>1, <1>3, <1>6 DEF Recorded
<1>7. CASE \E w \in Workers : Commit(w) \/ CommitUnacknowledged(w)
  BY <1>1, <1>4, <1>7
<1>8. ASSUME NEW w \in Workers,
             \/ Assign(w) \/ AutoCommit(w) \/ Leave(w) \/ EndClaim(w)
             \/ Handle(w) /\ ~ Commit(w)
             \/ Fault(w) /\ ~ CommitUnacknowledged(w)
      PROVE  UNCHANGED <<log, chain>> /\ failed \subseteq failed' /\ passed \subseteq passed'
  BY <1>5, <1>8
  DEF Handle, Fault, StatementError, SerializationFailure, ConstraintViolation
<1>9. QED
  BY <1>1, <1>2, <1>6, <1>7, <1>8 DEF Next, Handle, Fault, Recorded

(* What is settled stays settled.                                              *)
LEMMA SettledStable ==
    ASSUME IInv, [Next]_vars, NEW m \in 1..Len(log), Settled(m)
    PROVE  Settled(m)'
BY NothingForgotten DEF Settled, Auditable

(* A Write that ends, with an error or without, settles its event.             *)
LEMMA WriteSettles ==
    ASSUME IInv, NEW w \in Workers,
           \/ Commit(w) \/ CommitUnacknowledged(w)
           \/ pc[w] \in InTx /\ WriteFails(w)
    PROVE  Settled(pos[w])'
<1>1. CASE WriteFails(w) \/ CommitUnacknowledged(w)
  BY <1>1 DEF WriteFails, GoTo, CommitUnacknowledged, Settled, sessionVars
<1>2. CASE Commit(w)
  <2>1. pc[w] = "commit" /\ Apply(w) /\ UNCHANGED pos
    BY <1>2 DEF Commit, GoTo, sessionVars
  <2> DEFINE o == OrgOf(w)
             row == MakeRow(Len(chain[o]) + 1, o, pos[w], LastHash(chain[o]))
  <2>2. /\ o \in Orgs /\ row \in Row /\ chain[o] \in Seq(Row) /\ Len(chain[o]) \in Nat
        /\ chain' = [chain EXCEPT ![o] = Append(chain[o], row)]
    BY <2>1, ApplyRow
  <2>3. row.msg = pos[w]
    BY DEF MakeRow
  <2> HIDE DEF o, row
  <2>4. chain'[o] = Append(chain[o], row)
    BY <2>2 DEF IInv, TypeOK, DbOK
  <2>5. Len(chain'[o]) = Len(chain[o]) + 1 /\ chain'[o][Len(chain[o]) + 1] = row
    BY <2>2, <2>4, AppendProperties
  <2>6. Len(chain[o]) + 1 \in 1..Len(chain'[o])
    BY <2>2, <2>5
  <2>7. QED
    BY <2>1, <2>2, <2>3, <2>5, <2>6 DEF Settled, Recorded
<1>3. QED
  BY <1>1, <1>2

LEMMA InitSettledBelow == Init => SettledBelow
BY DEF Init, GroupInit, SettledBelow

(* How far one step can move the positions and marks: to the end of the topic  *)
(* over events it adds to passed, to the committed position, or over one event *)
(* that is unauditable or whose Write has ended.                               *)
LEMMA CoverageStep ==
    ASSUME IInv, SettledBelow, Next, NEW m \in 1..Len(log), Covered(m)'
    PROVE  Covered(m) \/ Settled(m)'
<1> USE DEF IInv
<1>1. Len(log) \in Nat /\ committed \in Nat
      /\ \A w \in Workers : pos[w] \in Nat /\ marked[w] \in Nat
  BY LenProperties DEF TypeOK, GroupOK
<1>2. ASSUME NEW w \in Workers, Assign(w) PROVE Covered(m) \/ Settled(m)'
  <2>1. CASE committed = 0
    <3>1. passed' = passed \cup 1..Len(log)
      BY <1>2, <2>1 DEF Assign, Join, sessionVars
    <3>2. QED
      BY <3>1 DEF Settled
  <2>2. CASE committed # 0
    BY <1>1, <1>2, <2>2 DEF Assign, Join, Covered, TypeOK, GroupOK, sessionVars
  <2>3. QED
    BY <2>1, <2>2
<1>3. ASSUME NEW w \in Workers,
             AutoCommit(w) \/ Leave(w) \/ EndClaim(w) \/ Crash(w)
      PROVE  Covered(m)
  BY <1>1, <1>3, SessionCovers
  DEF AutoCommit, Leave, EndClaim, Crash, TypeOK
<1>4. ASSUME NEW w \in Workers, SkipEvent(w) \/ DoneEvent(w)
      PROVE  Covered(m) \/ Settled(m)'
  <2>1. /\ UNCHANGED <<log, committed, chain, failed, passed>>
        /\ \A v \in Workers \ {w} : pos'[v] = pos[v] /\ marked'[v] = marked[v]
        /\ pos'[w] = pos[w] + 1 /\ marked'[w] = pos[w] + 1
    BY <1>4
    DEF SkipEvent, MarkMessage, AtMessage, DoneEvent, dbVars, TypeOK, GroupOK,
        sessionVars
  <2>2. CASE m < pos[w]
    BY <2>2 DEF Covered
  <2>3. CASE m = pos[w]
    BY <1>4, <2>1, <2>3
    DEF SkipEvent, MarkMessage, AtMessage, DoneEvent, SettledBelow, Settled,
        Recorded, Auditable, sessionVars
  <2>4. CASE m > pos[w]
    BY <1>1, <2>1, <2>4 DEF Covered
  <2>5. QED
    BY <1>1, <2>2, <2>3, <2>4
<1>5. ASSUME UNCHANGED <<committed, pos, marked>> PROVE Covered(m)
  BY <1>5 DEF Covered
<1>6. ASSUME NEW w \in Workers,
             \/ TakeEvent(w) \/ BeginTx(w) \/ AllocSeq(w) \/ FetchPrev(w)
             \/ InsertRow(w) \/ Commit(w) \/ CommitUnacknowledged(w) \/ WriteFails(w)
      PROVE  UNCHANGED <<committed, pos, marked>>
  BY <1>6
  DEF TakeEvent, GoTo, AtMessage, BeginTx, AllocSeq, FetchPrev, InsertRow, Commit,
      CommitUnacknowledged, WriteFails, sessionVars
<1>7. ASSUME NEW e \in Events, Publish(e) PROVE UNCHANGED <<committed, pos, marked>>
  BY <1>7 DEF Publish, Produce, sessionVars
<1>8. ASSUME NEW w \in Workers, Handle(w) \/ Fault(w)
      PROVE  Covered(m) \/ Settled(m)'
  BY <1>3, <1>4, <1>5, <1>6, <1>8
  DEF Handle, Fault, StatementError, SerializationFailure, ConstraintViolation
<1>9. QED
  BY <1>2, <1>3, <1>5, <1>7, <1>8 DEF Next

LEMMA NextSettledBelow == IInv /\ SettledBelow /\ [Next]_vars => SettledBelow'
<1>0. SettledBelow /\ UNCHANGED vars => SettledBelow'
  BY DEF vars, SettledBelow, Covered, Settled, Recorded, Auditable, groupVars
<1> SUFFICES ASSUME IInv, SettledBelow, Next PROVE SettledBelow'
  BY <1>0
<1> USE DEF IInv
<1>1. /\ Len(log) \in Nat /\ Len(log') \in Nat /\ Len(log) <= Len(log')
      /\ committed \in Nat
      /\ \A w \in Workers : pos[w] \in Nat /\ marked[w] \in Nat
  BY NothingForgotten DEF TypeOK, GroupOK
<1>2. IInv'
  BY NextIInv
<1>3. /\ committed' \in Nat
      /\ \A w \in Workers : pos'[w] \in Nat /\ marked'[w] \in Nat
  BY <1>2 DEF TypeOK, GroupOK
<1>4. committed' <= Len(log') + 1
  <2>1. ASSUME NEW w \in Workers, Assign(w) \/ AutoCommit(w) \/ Leave(w)
        PROVE  committed' <= Len(log') + 1
    BY <1>1, <2>1
    DEF Assign, Join, AutoCommit, CommitOffset, Leave, LeaveGroup, SettledBelow,
        sessionVars
  <2>2. ASSUME NEW w \in Workers, EndClaim(w) \/ Handle(w) \/ Fault(w)
        PROVE  committed' = committed
    BY <2>2
    DEF EndClaim, CloseClaim, Handle, Fault, Crash, Die, SkipEvent, MarkMessage,
        AtMessage, TakeEvent, GoTo, DoneEvent, BeginTx, AllocSeq, FetchPrev,
        InsertRow, Commit, CommitUnacknowledged, StatementError,
        SerializationFailure, ConstraintViolation, WriteFails, sessionVars
  <2>3. ASSUME NEW e \in Events, Publish(e) PROVE committed' = committed
    BY <2>3 DEF Publish, Produce, sessionVars
  <2>4. QED
    BY <1>1, <2>1, <2>2, <2>3 DEF Next, SettledBelow
<1>5. ASSUME NEW v \in Workers
      PROVE  pos'[v] <= Len(log') + 1 /\ marked'[v] <= Len(log') + 1
  <2>1. ASSUME NEW w \in Workers,
               Assign(w) \/ Leave(w) \/ EndClaim(w) \/ Crash(w)
        PROVE  pos'[v] <= Len(log') + 1 /\ marked'[v] <= Len(log') + 1
    <3>1. /\ log' = log
          /\ pos'[v] \in {pos[v], 1, Len(log) + 1, committed}
          /\ marked'[v] \in {marked[v], 0}
      BY <2>1
      DEF Assign, Join, Leave, LeaveGroup, EndClaim, CloseClaim, Crash, Die,
          EndSession, TypeOK, GroupOK, sessionVars
    <3>2. QED
      BY <1>1, <3>1 DEF SettledBelow
  <2>2. ASSUME NEW w \in Workers, SkipEvent(w) \/ DoneEvent(w)
        PROVE  pos'[v] <= Len(log') + 1 /\ marked'[v] <= Len(log') + 1
    <3>1. pos[w] <= Len(log)
      BY <2>2
      DEF SkipEvent, MarkMessage, AtMessage, DoneEvent, WriterAtTail, AtTail,
          sessionVars
    <3>2. /\ log' = log
          /\ pos'[v] = pos[v] \/ pos'[v] = pos[w] + 1
          /\ marked'[v] = marked[v] \/ marked'[v] = pos[w] + 1
      BY <2>2
      DEF SkipEvent, MarkMessage, AtMessage, DoneEvent, TypeOK, GroupOK,
          sessionVars
    <3>3. QED
      BY <1>1, <3>1, <3>2 DEF SettledBelow
  <2>3. ASSUME UNCHANGED <<pos, marked>>
        PROVE  pos'[v] <= Len(log') + 1 /\ marked'[v] <= Len(log') + 1
    BY <1>1, <2>3 DEF SettledBelow
  <2>4. ASSUME NEW w \in Workers,
               \/ AutoCommit(w) \/ TakeEvent(w) \/ BeginTx(w) \/ AllocSeq(w)
               \/ FetchPrev(w) \/ InsertRow(w) \/ Commit(w)
               \/ CommitUnacknowledged(w) \/ WriteFails(w)
        PROVE  UNCHANGED <<pos, marked>>
    BY <2>4
    DEF AutoCommit, CommitOffset, TakeEvent, GoTo, AtMessage, BeginTx, AllocSeq,
        FetchPrev, InsertRow, Commit, CommitUnacknowledged, WriteFails,
        sessionVars
  <2>5. ASSUME NEW e \in Events, Publish(e) PROVE UNCHANGED <<pos, marked>>
    BY <2>5 DEF Publish, Produce, sessionVars
  <2>6. QED
    BY <2>1, <2>2, <2>3, <2>4, <2>5
    DEF Next, Handle, Fault, StatementError, SerializationFailure,
        ConstraintViolation
<1>6. ASSUME NEW m \in 1..Len(log'), Covered(m)' PROVE Settled(m)'
  <2>1. CASE m \in 1..Len(log)
    <3>1. Covered(m) \/ Settled(m)'
      BY <1>6, <2>1, CoverageStep
    <3>2. Covered(m) => Settled(m)
      BY <2>1 DEF SettledBelow
    <3>3. QED
      BY <2>1, <3>1, <3>2, SettledStable
  <2>2. CASE m \notin 1..Len(log)
    <3>1. PICK e \in Events : Publish(e)
      <4>1. ASSUME NEW w \in Workers,
                   \/ Assign(w) \/ AutoCommit(w) \/ Leave(w) \/ EndClaim(w)
                   \/ Handle(w) \/ Fault(w)
            PROVE  log' = log
        <5>1. CASE Commit(w) \/ CommitUnacknowledged(w)
          BY <5>1 DEF Commit, GoTo, CommitUnacknowledged, sessionVars
        <5>2. CASE ~ Commit(w) /\ ~ CommitUnacknowledged(w)
          BY <4>1, <5>2, StutterSteps
          DEF Handle, Fault, StatementError, SerializationFailure,
              ConstraintViolation
        <5>3. QED
          BY <5>1, <5>2
      <4>2. QED
        BY <2>2, <4>1 DEF Next
    <3>2. UNCHANGED <<committed, pos, marked>>
      BY <3>1 DEF Publish, Produce, sessionVars
    <3>3. QED
      BY <1>1, <1>6, <2>2, <3>2 DEF Covered, SettledBelow
  <2>3. QED
    BY <2>1, <2>2
<1>7. ASSUME NEW w \in Workers, pc'[w] = "mark" PROVE Settled(pos[w])'
  <2>1. CASE pc[w] = "mark" /\ pos'[w] = pos[w]
    <3>1. pos[w] \in 1..Len(log) /\ Settled(pos[w])
      BY <1>1, <2>1 DEF SettledBelow, WriterAtTail, AtTail, TypeOK, GroupOK
    <3>2. QED
      BY <2>1, <3>1, NothingForgotten DEF Settled, Auditable, Recorded
  <2>2. CASE \/ Commit(w) \/ CommitUnacknowledged(w)
             \/ pc[w] \in InTx /\ WriteFails(w)
    BY <2>2, WriteSettles
  <2>3. ASSUME NEW v \in Workers,
               \/ Assign(v) \/ Leave(v) \/ EndClaim(v) \/ Crash(v) \/ SkipEvent(v)
               \/ TakeEvent(v) \/ DoneEvent(v) \/ AutoCommit(v)
               \/ BeginTx(v) \/ AllocSeq(v) \/ FetchPrev(v) \/ InsertRow(v)
        PROVE  pc[w] = "mark" /\ pos'[w] = pos[w]
    BY <1>7, <2>3
    DEF Assign, Join, Leave, LeaveGroup, EndClaim, CloseClaim, Crash, Die,
        SkipEvent, MarkMessage, AtMessage, TakeEvent, GoTo, DoneEvent, AutoCommit,
        CommitOffset, BeginTx, AllocSeq, FetchPrev, InsertRow, EndSession, TypeOK,
        GroupOK, sessionVars
  <2>4. ASSUME NEW v \in Workers, v # w,
               Commit(v) \/ CommitUnacknowledged(v) \/ WriteFails(v)
        PROVE  pc[w] = "mark" /\ pos'[w] = pos[w]
    BY <1>7, <2>4
    DEF Commit, GoTo, CommitUnacknowledged, WriteFails, TypeOK, GroupOK,
        sessionVars
  <2>5. ASSUME NEW e \in Events, Publish(e) PROVE pc[w] = "mark" /\ pos'[w] = pos[w]
    BY <1>7, <2>5 DEF Publish, Produce, sessionVars
  <2>6. QED
    BY <2>1, <2>2, <2>3, <2>4, <2>5
    DEF Next, Handle, Fault, StatementError, SerializationFailure,
        ConstraintViolation, InTx
<1>8. QED
  BY <1>4, <1>5, <1>6, <1>7 DEF SettledBelow

(* No crash, takeover or late offset commit loses an event: what the group has *)
(* committed past is in a chain, unauditable, known to have failed, or was     *)
(* passed over when the group started (main.go:173-209).                       *)
THEOREM NothingLostSilently == Spec => []NoSilentLoss
<1>1. SettledBelow => NoSilentLoss
  BY DEF SettledBelow, NoSilentLoss, Covered
<1>2. Spec => []SettledBelow
  BY Invariance, InitSettledBelow, NextSettledBelow, PTL DEF Spec
<1>3. QED
  BY <1>1, <1>2, PTL

(* A row lock belongs to a transaction of that organization that has           *)
(* statements left and waits for nobody itself: no lock outlives its           *)
(* transaction, and no two wait for each other (writer.go:52-112).             *)
RowLocksAtWork ==
    \A o \in Orgs, w \in Workers : lock[o] = w => pc[w] \in Locking /\ OrgOf(w) = o

(* The step of one worker leaves the events and positions of the others.       *)
LEMMA WorkersApart ==
    ASSUME IInv, NEW v \in Workers,
           \/ Assign(v) \/ AutoCommit(v) \/ Leave(v) \/ EndClaim(v)
           \/ Handle(v) \/ Fault(v)
    PROVE  /\ log' = log
           /\ \A w \in Workers \ {v} : pc'[w] = pc[w] /\ pos'[w] = pos[w]
<1> USE DEF IInv, TypeOK, GroupOK, sessionVars
<1>1. CASE Assign(v) \/ AutoCommit(v) \/ Leave(v) \/ EndClaim(v) \/ Crash(v)
  BY <1>1 DEF Assign, Join, AutoCommit, CommitOffset, Leave, LeaveGroup, EndClaim,
              CloseClaim, Crash, Die, EndSession
<1>2. CASE SkipEvent(v) \/ TakeEvent(v) \/ DoneEvent(v)
  BY <1>2 DEF SkipEvent, TakeEvent, DoneEvent, MarkMessage, AtMessage, GoTo
<1>3. CASE BeginTx(v) \/ AllocSeq(v) \/ FetchPrev(v) \/ InsertRow(v)
  BY <1>3 DEF BeginTx, AllocSeq, FetchPrev, InsertRow, GoTo
<1>4. CASE Commit(v) \/ CommitUnacknowledged(v) \/ WriteFails(v)
  BY <1>4 DEF Commit, CommitUnacknowledged, WriteFails, GoTo
<1>5. QED
  BY <1>1, <1>2, <1>3, <1>4
  DEF Handle, Fault, StatementError, SerializationFailure, ConstraintViolation

(* What the step does to the locks: none changes outside a transaction, one    *)
(* is taken by the upsert, and the end of a transaction gives back its own.    *)
LEMMA LockSteps ==
    ASSUME IInv, NEW v \in Workers,
           \/ Assign(v) \/ AutoCommit(v) \/ Leave(v) \/ EndClaim(v)
           \/ Handle(v) \/ Fault(v)
    PROVE  \/ /\ lock' = lock
              /\ pc[v] \in Locking => pc'[v] \in Locking /\ pos'[v] = pos[v]
           \/ /\ lock' = [lock EXCEPT ![OrgOf(v)] = v]
              /\ pc[v] = "upsert" /\ pc'[v] \in Locking /\ pos'[v] = pos[v]
           \/ lock' = [o \in Orgs |-> IF lock[o] = v THEN Nobody ELSE lock[o]]
<1> USE DEF IInv, TypeOK, GroupOK, sessionVars, txVars, dbVars
<1>1. CASE Assign(v) \/ AutoCommit(v) \/ Leave(v) \/ EndClaim(v)
  BY <1>1 DEF Assign, Join, AutoCommit, CommitOffset, Leave, LeaveGroup, EndClaim,
              CloseClaim, Locking
<1>2. CASE SkipEvent(v) \/ TakeEvent(v) \/ DoneEvent(v)
  BY <1>2 DEF SkipEvent, TakeEvent, DoneEvent, MarkMessage, AtMessage, GoTo, Locking
<1>3. CASE BeginTx(v) \/ FetchPrev(v) \/ InsertRow(v)
  BY <1>3 DEF BeginTx, FetchPrev, InsertRow, GoTo, Locking
<1>4. CASE AllocSeq(v)
  BY <1>4 DEF AllocSeq, GoTo, Locking
<1>5. CASE Commit(v) \/ CommitUnacknowledged(v) \/ WriteFails(v) \/ Crash(v)
  BY <1>5 DEF Commit, CommitUnacknowledged, WriteFails, Crash, Apply, EndTx
<1>6. QED
  BY <1>1, <1>2, <1>3, <1>4, <1>5
  DEF Handle, Fault, StatementError, SerializationFailure, ConstraintViolation

(* Whoever waits for a row waits for a transaction that can end.               *)
THEOREM LocksReleased == Spec => []RowLocksAtWork
<1>1. Init => RowLocksAtWork
  BY NobodyAssumption DEF Init, RowLocksAtWork
<1>2. IInv /\ RowLocksAtWork /\ [Next]_vars => RowLocksAtWork'
  <2> SUFFICES ASSUME IInv, RowLocksAtWork, [Next]_vars,
                      NEW o \in Orgs, NEW w \in Workers, lock'[o] = w
               PROVE  pc'[w] \in Locking /\ OrgOf(w)' = o
    BY DEF RowLocksAtWork
  <2>1. CASE UNCHANGED vars
    BY <2>1 DEF vars, groupVars, RowLocksAtWork, OrgOf
  <2>2. ASSUME NEW e \in Events, Publish(e)
        PROVE  pc'[w] \in Locking /\ OrgOf(w)' = o
    <3>1. lock' = lock /\ pc' = pc /\ pos' = pos
      BY <2>2 DEF Publish, Produce, dbVars, sessionVars
    <3>2. pc[w] \in Locking /\ OrgOf(w) = o
      BY <3>1 DEF RowLocksAtWork
    <3>3. AtTail(w) /\ pos[w] \in Nat \ {0} /\ Len(log) \in Nat
      BY LenProperties DEF IInv, WriterAtTail, TypeOK, GroupOK
    <3>4. pos[w] \in 1..Len(log)
      BY <3>2, <3>3 DEF AtTail, InTx, Locking
    <3>5. log'[pos[w]] = log[pos[w]]
      BY <2>2, <3>4, NothingForgotten
    <3>6. QED
      BY <3>1, <3>2, <3>5 DEF OrgOf
  <2>3. ASSUME NEW v \in Workers,
               \/ Assign(v) \/ AutoCommit(v) \/ Leave(v) \/ EndClaim(v)
               \/ Handle(v) \/ Fault(v)
        PROVE  pc'[w] \in Locking /\ OrgOf(w)' = o
    <3>1. log' = log /\ \A q \in Workers \ {v} : pc'[q] = pc[q] /\ pos'[q] = pos[q]
      BY <2>3, WorkersApart
    <3>2. CASE /\ lock' = lock
               /\ pc[v] \in Locking => pc'[v] \in Locking /\ pos'[v] = pos[v]
      BY <3>1, <3>2 DEF RowLocksAtWork, OrgOf
    <3>3. CASE /\ lock' = [lock EXCEPT ![OrgOf(v)] = v]
               /\ pc[v] = "upsert" /\ pc'[v] \in Locking /\ pos'[v] = pos[v]
      <4>1. lock'[o] = IF o = OrgOf(v) THEN v ELSE lock[o]
        BY <3>3 DEF IInv, TypeOK, DbOK
      <4>2. CASE o = OrgOf(v)
        BY <3>1, <3>3, <4>1, <4>2 DEF OrgOf
      <4>3. CASE o # OrgOf(v)
        <5>1. pc[w] \in Locking /\ OrgOf(w) = o
          BY <4>1, <4>3 DEF RowLocksAtWork
        <5>2. w # v
          BY <3>3, <5>1 DEF Locking
        <5>3. QED
          BY <3>1, <5>1, <5>2 DEF OrgOf
      <4>4. QED
        BY <4>2, <4>3
    <3>4. CASE lock' = [q \in Orgs |-> IF lock[q] = v THEN Nobody ELSE lock[q]]
      <4>1. lock[o] = w /\ w # v
        BY <3>4, NobodyAssumption
      <4>2. QED
        BY <3>1, <4>1 DEF RowLocksAtWork, OrgOf
    <3>5. QED
      BY <2>3, <3>2, <3>3, <3>4, LockSteps
  <2>4. QED
    BY <2>1, <2>2, <2>3 DEF Next
<1>3. QED
  BY <1>1, <1>2, Invariance, PTL DEF Spec

---------------------------------------------------------------------------------
(* The verifier: what it reports of a table that gets damaged, which the       *)
(* writer above never does to its own.                                         *)
(* The verifier's table. Every row keeps what the writer gave it but its       *)
(* payload, and a hash that was overwritten is longer than the writer's; rows  *)
(* stay in their order; a written row is linked to the one before it, unless   *)
(* that one is missing or has its hash overwritten, which it then is for good. *)
Numbered == \A n \in 1..Len(written) : /\ written[n].seq = n
                                       /\ written[n].sig = written[n].hash

Known == \A k \in 1..Len(rows) :
            LET w == written[rows[k].seq]
            IN  /\ rows[k].seq \in 1..Len(written)
                /\ rows[k].prev = w.prev /\ rows[k].sig = w.sig /\ rows[k].hash # << >>
                /\ rows[k].hash = w.hash \/ Len(w.hash) < Len(rows[k].hash)

Ordered == \A j, k \in 1..Len(rows) : j < k => rows[j].seq < rows[k].seq

Broken(s) == \/ Missing(s)
             \/ \E k \in 1..Len(rows) : rows[k].seq = s /\ rows[k].hash # written[s].hash

Linked == \A n \in 1..Len(written) :
             /\ n = 1 => written[n].prev = NoHash
             /\ n > 1 => written[n].prev = written[n - 1].hash \/ Broken(n - 1)

TableInv == TableOK /\ Numbered /\ Known /\ Ordered /\ Linked

(* The lengths are numbers and the rows of the table are rows.                 *)
LEMMA TableType ==
    ASSUME TableOK
    PROVE  /\ Len(rows) \in Nat /\ Len(written) \in Nat
           /\ \A k \in 1..Len(rows) : rows[k] \in Stored
           /\ \A n \in 1..Len(written) : written[n] \in Stored
  BY LenProperties, ElementOfSeq DEF TableOK

(* The writer appends a row linked to the last one that is there.              *)
LEMMA WriteTable ==
    ASSUME TableInv, NEW at \in Times, Write(at)
    PROVE  TableInv'
<1> DEFINE n == Len(written) + 1
           last == LastHash(rows)
           row == [seq |-> n, msg |-> n, prev |-> last, hash |-> Hash(n, Org, n, last),
                   sig |-> Hash(n, Org, n, last), at |-> at]
<1>1. rows' = Append(rows, row) /\ written' = Append(written, row) /\ UNCHANGED damage
  BY DEF Write, MakeRow
<1>2. /\ Len(rows) \in Nat /\ Len(written) \in Nat
      /\ \A k \in 1..Len(rows) : rows[k] \in Stored
      /\ \A m \in 1..Len(written) : written[m] \in Stored
  BY TableType DEF TableInv
<1>3. n \in 1..MaxRows /\ n \in 1..(MaxRows + 1) /\ n \in Nat \ {0}
  BY <1>2, DamageAssumption DEF Write
<1>4. last \in Digest
  BY <1>2, EmptySeq DEF LastHash, NoHash, Digest, Stored, TableInv, TableOK
<1>5. Hash(n, Org, n, last) \in Digest /\ Len(Hash(n, Org, n, last)) > 0
  <2>1. [seq |-> n, org |-> Org, msg |-> n] \in Content
    BY <1>3, OrgAssumption DEF Content
  <2>2. QED
    BY <1>4, <2>1, AppendProperties, LenProperties DEF Digest, Hash
<1>6. row \in Stored
  BY <1>3, <1>4, <1>5 DEF Stored
<1>7. row.seq = n /\ row.prev = last /\ row.sig = row.hash /\ row.hash # << >>
  <2>1. row.hash # << >>
    BY <1>5, EmptySeq
  <2>2. QED
    BY <2>1
<1> HIDE DEF row, last
<1>8. /\ Len(rows') = Len(rows) + 1 /\ rows'[Len(rows) + 1] = row
      /\ \A k \in 1..Len(rows) : rows'[k] = rows[k]
  BY <1>1, <1>6, AppendProperties DEF TableInv, TableOK
<1>9. /\ Len(written') = n /\ written'[n] = row
      /\ \A m \in 1..Len(written) : written'[m] = written[m]
  BY <1>1, <1>6, AppendProperties DEF TableInv, TableOK
<1>10. TableOK'
  BY <1>1, <1>6, AppendProperties DEF TableInv, TableOK
<1>11. Numbered'
  BY <1>2, <1>7, <1>9 DEF TableInv, Numbered
<1>12. \A k \in 1..Len(rows) : rows[k].seq \in 1..Len(written)
  BY DEF TableInv, Known
<1>13. Known'
  <2> SUFFICES ASSUME NEW k \in 1..Len(rows') PROVE Known!(k)'
    BY DEF Known
  <2>1. CASE k \in 1..Len(rows)
    <3>1. /\ rows[k].seq \in 1..Len(written) /\ rows'[k] = rows[k]
          /\ written'[rows[k].seq] = written[rows[k].seq]
      BY <1>8, <1>9, <1>12, <2>1
    <3>2. rows[k].seq \in 1..n /\ Len(written') = n
      BY <1>2, <1>9, <3>1
    <3>3. QED
      BY <2>1, <3>1, <3>2 DEF TableInv, Known
  <2>2. CASE k = Len(rows) + 1
    BY <1>2, <1>3, <1>7, <1>8, <1>9, <2>2
  <2>3. QED
    BY <1>2, <1>8, <2>1, <2>2
<1>14. Ordered'
  <2> SUFFICES ASSUME NEW j \in 1..Len(rows'), NEW k \in 1..Len(rows'), j < k
               PROVE  rows'[j].seq < rows'[k].seq
    BY DEF Ordered
  <2>1. CASE k \in 1..Len(rows)
    BY <1>2, <1>8, <2>1 DEF TableInv, Ordered
  <2>2. CASE k = Len(rows) + 1
    BY <1>2, <1>7, <1>8, <1>12, <2>2
  <2>3. QED
    BY <1>2, <1>8, <2>1, <2>2
<1>15. ASSUME NEW s \in 1..Len(written), Broken(s) PROVE Broken(s)'
  <2>1. CASE Missing(s)
    BY <1>2, <1>7, <1>8, <1>9, <2>1 DEF Broken, Missing
  <2>2. CASE \E k \in 1..Len(rows) : rows[k].seq = s /\ rows[k].hash # written[s].hash
    BY <1>2, <1>8, <1>9, <2>2 DEF Broken
  <2>3. QED
    BY <1>15, <2>1, <2>2 DEF Broken
<1>16. /\ n = 1 => row.prev = NoHash
       /\ n > 1 => row.prev = written[n - 1].hash \/ Broken(n - 1)
  <2>1. CASE rows = << >>
    <3>1. row.prev = NoHash /\ Len(rows) = 0
      BY <1>7, <2>1 DEF LastHash, last
    <3>2. n > 1 => Missing(n - 1)
      BY <1>2, <3>1 DEF Missing
    <3>3. QED
      BY <3>1, <3>2 DEF Broken
  <2>2. CASE rows # << >>
    <3>1. Len(rows) > 0 /\ Len(rows) \in 1..Len(rows) /\ row.prev = rows[Len(rows)].hash
      BY <1>2, <1>7, <2>2, EmptySeq DEF LastHash, last, TableInv, TableOK
    <3>2. n > 1
      BY <1>2, <1>12, <3>1
    <3>3. CASE rows[Len(rows)].seq = n - 1
      BY <3>1, <3>2, <3>3 DEF Broken
    <3>4. CASE rows[Len(rows)].seq # n - 1
      <4>1. \A k \in 1..Len(rows) : rows[k].seq # n - 1
        BY <1>2, <1>12, <3>1, <3>4 DEF TableInv, Ordered
      <4>2. QED
        BY <1>2, <3>2, <4>1 DEF Broken, Missing
    <3>5. QED
      BY <3>3, <3>4
  <2>3. QED
    BY <2>1, <2>2
<1>17. Linked'
  <2> SUFFICES ASSUME NEW m \in 1..Len(written') PROVE Linked!(m)'
    BY DEF Linked
  <2>1. CASE m \in 1..Len(written)
    BY <1>2, <1>9, <1>15, <2>1 DEF TableInv, Linked
  <2>2. CASE m = n
    BY <1>2, <1>9, <1>15, <1>16, <2>2
  <2>3. QED
    BY <1>2, <1>9, <2>1, <2>2
<1>18. QED
  BY <1>10, <1>11, <1>13, <1>14, <1>17 DEF TableInv

(* A row that is removed is missing from then on.                              *)
LEMMA RemoveTable ==
    ASSUME TableInv, NEW k \in 1..Len(rows), RemoveRow(k), written' = written,
           damage' \in 0..MaxDamage
    PROVE  TableInv'
<1> DEFINE From(i) == IF i < k THEN i ELSE i + 1
<1>1. /\ Len(rows) \in Nat /\ Len(written) \in Nat
      /\ \A i \in 1..Len(rows) : rows[i] \in Stored
  BY TableType DEF TableInv
<1>2. /\ rows' \in Seq(Stored) /\ Len(rows') = Len(rows) - 1
      /\ \A i \in 1..Len(rows') : From(i) \in 1..Len(rows) /\ rows'[i] = rows[From(i)]
  <2> DEFINE a == SubSeq(rows, 1, k - 1)
             b == SubSeq(rows, k + 1, Len(rows))
  <2>1. /\ a \in Seq(Stored) /\ Len(a) = k - 1
        /\ \A i \in 1..(k - 1) : a[i] = rows[i]
    BY <1>1, SubSeqProperties
  <2>2. /\ b \in Seq(Stored) /\ Len(b) = Len(rows) - k
        /\ \A i \in 1..(Len(rows) - k) : b[i] = rows[k + i]
    BY <1>1, SubSeqProperties
  <2> HIDE DEF a, b
  <2>3. /\ a \o b \in Seq(Stored) /\ Len(a \o b) = Len(rows) - 1
        /\ \A i \in 1..(Len(rows) - 1) :
              (a \o b)[i] = IF i <= k - 1 THEN a[i] ELSE b[i - (k - 1)]
    <3>1. /\ a \o b \in Seq(Stored) /\ Len(a \o b) = Len(a) + Len(b)
          /\ \A i \in 1..(Len(a) + Len(b)) :
                (a \o b)[i] = IF i <= Len(a) THEN a[i] ELSE b[i - Len(a)]
      BY <2>1, <2>2, ConcatProperties
    <3>2. Len(a) + Len(b) = Len(rows) - 1
      BY <1>1, <2>1, <2>2
    <3>3. QED
      BY <2>1, <3>1, <3>2
  <2>4. rows' = a \o b
    BY DEF RemoveRow, a, b
  <2>5. ASSUME NEW i \in 1..(Len(rows) - 1)
        PROVE  From(i) \in 1..Len(rows) /\ (a \o b)[i] = rows[From(i)]
    BY <1>1, <2>1, <2>2, <2>3
  <2>6. QED
    BY <2>3, <2>4, <2>5
<1>3. \A i \in 1..Len(rows) : i # k => \E j \in 1..Len(rows') : From(j) = i
  <2> SUFFICES ASSUME NEW i \in 1..Len(rows), i # k
               PROVE  \E j \in 1..Len(rows') : From(j) = i
    OBVIOUS
  <2>1. CASE i < k
    BY <1>1, <1>2, <2>1
  <2>2. CASE i > k
    <3>1. i - 1 \in 1..Len(rows') /\ From(i - 1) = i
      BY <1>1, <1>2, <2>2
    <3>2. QED
      BY <3>1
  <2>3. QED
    BY <2>1, <2>2
<1>4. \A i, j \in 1..Len(rows') : i < j => From(i) < From(j)
  BY <1>1, <1>2
<1>5. \A i \in 1..Len(rows') : From(i) # k
  BY <1>1, <1>2
<1> HIDE DEF From
<1>6. TableOK' /\ Numbered' /\ Known' /\ Ordered'
  <2>1. TableOK' /\ Numbered'
    BY <1>2 DEF TableInv, TableOK, Numbered
  <2>2. Known'
    BY <1>2 DEF TableInv, Known
  <2>3. Ordered'
    BY <1>2, <1>4 DEF TableInv, Ordered
  <2>4. QED
    BY <2>1, <2>2, <2>3
<1>7. ASSUME NEW s \in 1..Len(written), Broken(s) PROVE Broken(s)'
  <2>1. CASE Missing(s)
    BY <1>2, <2>1 DEF Broken, Missing
  <2>2. CASE rows[k].seq = s
    <3>1. \A i \in 1..Len(rows) : i # k => rows[i].seq # s
      BY <1>1, <2>2 DEF TableInv, Ordered, Stored
    <3>2. QED
      BY <1>2, <1>5, <3>1 DEF Broken, Missing
  <2>3. CASE \E i \in 1..Len(rows) : /\ i # k
                                     /\ rows[i].seq = s /\ rows[i].hash # written[s].hash
    <3>1. PICK i \in 1..Len(rows) : /\ i # k
                                    /\ rows[i].seq = s /\ rows[i].hash # written[s].hash
      BY <2>3
    <3>2. PICK j \in 1..Len(rows') : From(j) = i
      BY <1>3, <3>1
    <3>3. rows'[j].seq = s /\ rows'[j].hash # written'[s].hash
      BY <1>2, <3>1, <3>2
    <3>4. QED
      BY <3>3 DEF Broken
  <2>4. QED
    BY <1>7, <2>1, <2>2, <2>3 DEF Broken
<1>8. Linked'
  BY <1>1, <1>7 DEF TableInv, Linked
<1>9. QED
  BY <1>6, <1>8 DEF TableInv

(* A row that changes in place keeps its number and its links.                 *)
LEMMA ChangeTable ==
    ASSUME TableInv, NEW k \in 1..Len(rows), NEW row \in Stored,
           rows' = [rows EXCEPT ![k] = row], written' = written, damage' \in 0..MaxDamage,
           row.seq = rows[k].seq, row.prev = rows[k].prev, row.sig = rows[k].sig,
           row.hash = rows[k].hash \/ Len(rows[k].hash) < Len(row.hash)
    PROVE  TableInv'
<1>1. /\ Len(rows) \in Nat /\ Len(written) \in Nat
      /\ \A i \in 1..Len(rows) : rows[i] \in Stored
      /\ \A n \in 1..Len(written) : written[n] \in Stored
  BY TableType DEF TableInv
<1>2. /\ rows' \in Seq(Stored) /\ Len(rows') = Len(rows) /\ rows'[k] = row
      /\ \A i \in 1..Len(rows) : i # k => rows'[i] = rows[i]
  BY ExceptSeq DEF TableInv, TableOK
<1>3. TableOK' /\ Numbered'
  BY <1>2 DEF TableInv, TableOK, Numbered
<1>4. \A i \in 1..Len(rows) : rows'[i].seq = rows[i].seq
  BY <1>2
<1>5. Ordered'
  BY <1>2, <1>4 DEF TableInv, Ordered
<1>6. /\ Len(row.hash) \in Nat /\ Len(rows[k].hash) \in Nat
      /\ \A n \in 1..Len(written) : Len(written[n].hash) \in Nat
  BY <1>1, LenProperties DEF Stored, Digest
<1>7. Len(rows[k].hash) > 0
  BY <1>1, EmptySeq DEF TableInv, Known, Stored, Digest
<1>8. /\ row.hash # << >>
      /\ \/ row.hash = written[row.seq].hash
         \/ Len(written[row.seq].hash) < Len(row.hash)
      /\ rows[k].hash # written[row.seq].hash => row.hash # written[row.seq].hash
  <2>1. /\ row.seq \in 1..Len(written)
        /\ \/ rows[k].hash = written[row.seq].hash
           \/ Len(written[row.seq].hash) < Len(rows[k].hash)
    BY DEF TableInv, Known
  <2>2. row.hash # << >>
    BY <1>6, <1>7, EmptySeq
  <2>3. QED
    BY <1>6, <2>1, <2>2
<1>9. Known'
  <2> SUFFICES ASSUME NEW i \in 1..Len(rows') PROVE Known!(i)'
    BY DEF Known
  <2>1. CASE i = k
    BY <1>2, <1>8, <2>1 DEF TableInv, Known
  <2>2. CASE i # k
    BY <1>2, <2>2 DEF TableInv, Known
  <2>3. QED
    BY <2>1, <2>2
<1>10. ASSUME NEW s \in 1..Len(written), Broken(s) PROVE Broken(s)'
  <2>1. CASE Missing(s)
    BY <1>2, <1>4, <2>1 DEF Broken, Missing
  <2>2. CASE \E i \in 1..Len(rows) : rows[i].seq = s /\ rows[i].hash # written[s].hash
    <3>1. PICK i \in 1..Len(rows) : rows[i].seq = s /\ rows[i].hash # written[s].hash
      BY <2>2
    <3>2. rows'[i].seq = s /\ rows'[i].hash # written[s].hash
      BY <1>2, <1>8, <3>1
    <3>3. QED
      BY <1>2, <3>2 DEF Broken
  <2>3. QED
    BY <1>10, <2>1, <2>2 DEF Broken
<1>11. Linked'
  BY <1>1, <1>10 DEF TableInv, Linked
<1>12. QED
  BY <1>3, <1>5, <1>9, <1>11 DEF TableInv

LEMMA DamageTable ==
    ASSUME TableInv, NEW k \in 1..Len(rows), Damage(k)
    PROVE  TableInv'
<1>1. written' = written /\ damage' \in 0..MaxDamage
  BY DamageAssumption DEF Damage, TableInv, TableOK
<1>2. /\ rows \in Seq(Stored) /\ rows[k] \in Stored /\ DOMAIN rows = 1..Len(rows)
  BY TableType, LenProperties DEF TableInv, TableOK
<1>3. CASE RemoveRow(k)
  BY <1>1, <1>3, RemoveTable
<1>4. CASE ChangePayload(k)
  <2> DEFINE row == [rows[k] EXCEPT !.msg = MaxRows + 1]
  <2>1. MaxRows + 1 \in 1..(MaxRows + 1)
    BY DamageAssumption
  <2>2. row \in Stored /\ rows' = [rows EXCEPT ![k] = row]
    BY <1>2, <1>4, <2>1 DEF ChangePayload, Stored
  <2>3. /\ row.seq = rows[k].seq /\ row.prev = rows[k].prev /\ row.sig = rows[k].sig
        /\ row.hash = rows[k].hash
    BY <1>2 DEF Stored
  <2> HIDE DEF row
  <2>4. QED
    BY <1>1, <2>2, <2>3, ChangeTable
<1>5. CASE ChangeHash(k)
  <2> DEFINE old == rows[k].hash
             new == Append(old, old[Len(old)])
             row == [rows[k] EXCEPT !.hash = new]
  <2>1. old \in Seq(Content) /\ old # << >>
    BY <1>2 DEF Stored, Digest, TableInv, Known
  <2>2. Len(old) \in Nat /\ Len(old) \in 1..Len(old)
    BY <2>1, EmptySeq
  <2>3. old[Len(old)] \in Content
    BY <2>1, <2>2, ElementOfSeq
  <2>4. new \in Digest /\ Len(old) < Len(new)
    BY <2>1, <2>2, <2>3, AppendProperties DEF Digest
  <2>5. row \in Stored /\ rows' = [rows EXCEPT ![k] = row]
    BY <1>2, <1>5, <2>4 DEF ChangeHash, Stored
  <2>6. /\ row.seq = rows[k].seq /\ row.prev = rows[k].prev /\ row.sig = rows[k].sig
        /\ Len(rows[k].hash) < Len(row.hash)
    BY <1>2, <2>4 DEF Stored
  <2> HIDE DEF row
  <2>7. QED
    BY <1>1, <2>5, <2>6, ChangeTable
<1>6. QED
  BY <1>3, <1>4, <1>5 DEF Damage

LEMMA TableInvariance ==
    TableSpec => []TableInv
<1>1. TableInit => TableInv
  <2> SUFFICES ASSUME TableInit PROVE TableInv
    OBVIOUS
  <2>1. rows = << >> /\ written = << >> /\ Len(rows) = 0 /\ Len(written) = 0
    BY EmptySeq DEF TableInit
  <2>2. TableOK
    BY <2>1, EmptySeq, DamageAssumption DEF TableInit, TableOK
  <2>3. QED
    BY <2>1, <2>2 DEF TableInv, Numbered, Known, Ordered, Linked
<1>2. TableInv /\ [TableNext]_tableVars => TableInv'
  <2> SUFFICES ASSUME TableInv, TableNext \/ UNCHANGED tableVars PROVE TableInv'
    OBVIOUS
  <2>1. CASE UNCHANGED tableVars
    BY <2>1
    DEF tableVars, TableInv, TableOK, Numbered, Known, Ordered, Linked, Broken, Missing
  <2>2. QED
    BY <2>1, WriteTable, DamageTable DEF TableNext
<1>3. QED
  BY <1>1, <1>2, PTL DEF TableSpec

(* The loop over the whole chain has seen the row before, and its number.      *)
LEMMA WholeChain ==
    ASSUME TableInv
    PROVE  /\ Selected(0, 0) = 1..Len(rows)
           /\ \A k \in 1..Len(rows) :
                 /\ k = 1 => /\ PrevSeq(1..Len(rows), k) = 0
                             /\ PrevHash(1..Len(rows), k) = NoHash
                 /\ k > 1 => /\ k - 1 \in 1..Len(rows)
                             /\ PrevSeq(1..Len(rows), k) = rows[k - 1].seq
                             /\ PrevHash(1..Len(rows), k) = rows[k - 1].hash
<1>1. Len(rows) \in Nat
  BY TableType DEF TableInv
<1>2. Selected(0, 0) = 1..Len(rows)
  BY DEF Selected
<1>3. ASSUME NEW k \in 1..Len(rows)
      PROVE  Seen(1..Len(rows), k) = 1..(k - 1)
  BY <1>1 DEF Seen
<1>4. ASSUME NEW k \in 1..Len(rows), k > 1
      PROVE  Seen(1..Len(rows), k) # {} /\ Latest(1..Len(rows), k) = k - 1
  <2>1. k - 1 \in 1..(k - 1) /\ \A i \in 1..(k - 1) : i <= k - 1
    BY <1>1, <1>4
  <2>2. \A j \in 1..(k - 1) : (\A i \in 1..(k - 1) : i <= j) => j = k - 1
    BY <1>1, <2>1
  <2>3. (CHOOSE j \in 1..(k - 1) : \A i \in 1..(k - 1) : i <= j) = k - 1
    BY <2>1, <2>2
  <2>4. QED
    BY <1>3, <2>1, <2>3 DEF Latest
<1>5. QED
  BY <1>1, <1>2, <1>3, <1>4 DEF PrevSeq, PrevHash

(* What is found at a row is in the report, and nothing else is.               *)
LEMMA Findings ==
    ASSUME TableInv
    PROVE  /\ \A k \in 1..Len(rows) :
                 /\ SeqGap(1..Len(rows), k) =>
                       [seq |-> rows[k].seq, reason |-> "seq_gap"] \in VerifyAll
                 /\ PrevMismatch(1..Len(rows), k) =>
                       [seq |-> rows[k].seq, reason |-> "prev_hash_mismatch"] \in VerifyAll
                 /\ HmacMismatch(1..Len(rows), k) =>
                       [seq |-> rows[k].seq, reason |-> "hmac_mismatch"] \in VerifyAll
           /\ \A v \in VerifyAll : \E k \in 1..Len(rows) :
                 /\ v.seq = rows[k].seq
                 /\ \/ v.reason = "seq_gap" /\ SeqGap(1..Len(rows), k)
                    \/ v.reason = "prev_hash_mismatch" /\ PrevMismatch(1..Len(rows), k)
                    \/ v.reason = "hash_mismatch"
                    \/ v.reason = "hmac_mismatch" /\ HmacMismatch(1..Len(rows), k)
<1>1. Selected(0, 0) = 1..Len(rows)
  BY WholeChain
<1>2. QED
  BY <1>1 DEF VerifyAll, Verify, Reported

(* Whatever was written and removed, a link blamed is one whose row before is  *)
(* missing or had its hash overwritten.                                        *)
LEMMA LinksBlamed == ASSUME TableInv PROVE LinkAlarmIsReal
<1> SUFFICES ASSUME NEW v \in VerifyAll, v.reason = "prev_hash_mismatch"
             PROVE  \E s \in 1..(v.seq - 1) : Broken(s)
  BY DEF LinkAlarmIsReal, Broken
<1>1. PICK k \in 1..Len(rows) : v.seq = rows[k].seq /\ PrevMismatch(1..Len(rows), k)
  BY Findings
<1> DEFINE n == rows[k].seq
<1>2. /\ Len(rows) \in Nat /\ Len(written) \in Nat
      /\ n \in 1..Len(written) /\ rows[k].prev = written[n].prev
      /\ \A j \in 1..Len(rows) : rows[j].seq \in 1..Len(written)
      /\ \A j \in 1..Len(rows) : (j < k => rows[j].seq < n) /\ (j > k => rows[j].seq > n)
  BY TableType DEF TableInv, Known, Ordered
<1>3. /\ n = 1 => written[n].prev = NoHash
      /\ n > 1 => written[n].prev = written[n - 1].hash \/ Broken(n - 1)
  BY <1>2 DEF TableInv, Linked
<1> HIDE DEF n
<1>4. CASE k = 1
  <2>1. written[n].prev # NoHash
    BY <1>1, <1>2, <1>4, WholeChain DEF PrevMismatch
  <2>2. n > 1 /\ Missing(n - 1)
    BY <1>2, <1>3, <1>4, <2>1 DEF Missing, n
  <2>3. QED
    BY <1>1, <1>2, <2>2 DEF Broken, n
<1>5. CASE k > 1 /\ rows[k - 1].seq = n - 1
  <2>1. k - 1 \in 1..Len(rows) /\ n > 1 /\ written[n].prev # rows[k - 1].hash
    BY <1>1, <1>2, <1>5, WholeChain DEF PrevMismatch
  <2>2. Broken(n - 1)
    BY <1>3, <1>5, <2>1 DEF Broken
  <2>3. QED
    BY <1>1, <1>2, <2>1, <2>2 DEF n
<1>6. CASE k > 1 /\ rows[k - 1].seq # n - 1
  <2>1. /\ k - 1 \in 1..Len(rows)
        /\ rows[k - 1].seq < n /\ rows[k - 1].seq \in 1..Len(written)
    BY <1>2, <1>6
  <2>2. n > 1 /\ n - 1 \in 1..Len(written)
    BY <1>2, <2>1
  <2>3. \A j \in 1..Len(rows) : rows[j].seq # n - 1
    <3> SUFFICES ASSUME NEW j \in 1..Len(rows), rows[j].seq = n - 1 PROVE FALSE
      OBVIOUS
    <3>1. j < k
      BY <1>2, <2>2 DEF n
    <3>2. j < k - 1
      BY <1>2, <1>6, <2>1, <3>1
    <3>3. rows[j].seq < rows[k - 1].seq
      BY <2>1, <3>2 DEF TableInv, Ordered
    <3>4. QED
      BY <1>2, <1>6, <2>1, <3>3
  <2>4. Broken(n - 1)
    BY <2>2, <2>3 DEF Broken, Missing
  <2>5. n - 1 \in 1..(v.seq - 1)
    BY <1>1, <1>2, <2>2 DEF n
  <2>6. QED
    BY <2>4, <2>5
<1>7. QED
  BY <1>2, <1>4, <1>5, <1>6

(* Every variable of the verifier's table keeps its type.                      *)
THEOREM TableTyped ==
    TableSpec => []TableOK
<1>1. TableInv => TableOK
  BY DEF TableInv
<1>2. QED
  BY <1>1, TableInvariance, PTL

(* A chain that nothing touched raises no alarm about order, links or          *)
(* signatures, however long it is (verifier.go:67-183).                        *)
THEOREM NoFalseAlarms ==
    TableSpec => []NoFalseLinkAlarm
<1>1. TableInv => NoFalseLinkAlarm
  <2> SUFFICES ASSUME TableInv, rows = written, NEW v \in VerifyAll
               PROVE  v.reason \notin {"seq_gap", "prev_hash_mismatch", "hmac_mismatch"}
    BY DEF NoFalseLinkAlarm, ReasonsOf
  <2>1. Len(rows) \in Nat
    BY TableType DEF TableInv
  <2>2. PICK k \in 1..Len(rows) :
           \/ v.reason = "seq_gap" /\ SeqGap(1..Len(rows), k)
           \/ v.reason = "prev_hash_mismatch" /\ PrevMismatch(1..Len(rows), k)
           \/ v.reason = "hash_mismatch"
           \/ v.reason = "hmac_mismatch" /\ HmacMismatch(1..Len(rows), k)
    BY Findings
  <2>3. \A i \in 1..Len(rows) : rows[i].seq = i /\ rows[i].sig = rows[i].hash
    BY DEF TableInv, Numbered
  <2>4. ~ HmacMismatch(1..Len(rows), k)
    BY <2>3 DEF HmacMismatch
  <2>5. ~ SeqGap(1..Len(rows), k)
    BY <2>1, <2>3, WholeChain DEF SeqGap
  <2>6. ~ PrevMismatch(1..Len(rows), k)
    <3>1. CASE k = 1
      BY <3>1, WholeChain DEF PrevMismatch, TableInv, Linked
    <3>2. CASE k > 1
      <4>1. ~ Broken(k - 1)
        BY <2>1, <2>3, <3>2 DEF Broken, Missing
      <4>2. rows[k].prev = rows[k - 1].hash
        BY <3>2, <4>1 DEF TableInv, Linked
      <4>3. QED
        BY <3>2, <4>2, WholeChain DEF PrevMismatch
    <3>3. QED
      BY <2>1, <3>1, <3>2
  <2>7. QED
    BY <2>2, <2>4, <2>5, <2>6
<1>2. QED
  BY <1>1, TableInvariance, PTL

(* A row missing between two others and an overwritten hash are reported,      *)
(* whatever the writer appends to what is left (verifier.go:67-183).           *)
THEOREM DamageFound ==
    TableSpec => []DamageReported
<1>1. TableInv => DamageReported
  <2> SUFFICES ASSUME TableInv PROVE InteriorGapReported /\ ChangedHashReported
    BY DEF DamageReported
  <2>1. /\ Len(rows) \in Nat /\ Len(written) \in Nat
        /\ \A k \in 1..Len(rows) : rows[k].seq \in 1..Len(written)
    BY TableType DEF TableInv, Known
  <2>2. ASSUME NEW s \in 1..Len(written), NEW k \in 2..Len(rows),
               rows[k - 1].seq < s, s < rows[k].seq
        PROVE  [seq |-> rows[k].seq, reason |-> "seq_gap"] \in VerifyAll
    <3>1. k \in 1..Len(rows) /\ k > 1 /\ k - 1 \in 1..Len(rows)
      BY <2>1
    <3>2. rows[k - 1].seq > 0 /\ rows[k].seq # rows[k - 1].seq + 1
      BY <2>1, <2>2, <3>1
    <3>3. SeqGap(1..Len(rows), k)
      BY <3>1, <3>2, WholeChain DEF SeqGap
    <3>4. QED
      BY <3>1, <3>3, Findings
  <2>3. ASSUME NEW k \in 1..Len(rows), rows[k].hash # written[rows[k].seq].hash
        PROVE  [seq |-> rows[k].seq, reason |-> "hmac_mismatch"] \in VerifyAll
    <3>1. rows[k].sig = written[rows[k].seq].hash
      BY <2>1 DEF TableInv, Known, Numbered
    <3>2. HmacMismatch(1..Len(rows), k)
      BY <2>3, <3>1 DEF HmacMismatch
    <3>3. QED
      BY <3>2, Findings
  <2>4. ASSUME NEW k \in 1..Len(rows), rows[k].hash # written[rows[k].seq].hash,
               k < Len(rows), rows[k + 1].prev = written[rows[k].seq].hash
        PROVE  [seq |-> rows[k + 1].seq, reason |-> "prev_hash_mismatch"] \in VerifyAll
    <3>1. k + 1 \in 1..Len(rows) /\ k + 1 > 1 /\ (k + 1) - 1 = k
      BY <2>1, <2>4
    <3>2. PrevHash(1..Len(rows), k + 1) = rows[k].hash
      BY <3>1, WholeChain
    <3>3. PrevMismatch(1..Len(rows), k + 1)
      BY <2>4, <3>2 DEF PrevMismatch
    <3>4. QED
      BY <3>1, <3>3, Findings
  <2>5. ChangedHashReported
    BY <2>3, <2>4 DEF ChangedHashReported
  <2>6. QED
    BY <2>2, <2>5 DEF InteriorGapReported
<1>2. QED
  BY <1>1, TableInvariance, PTL

(* Links are blamed only at a real break, also on a table that was damaged     *)
(* before and between its writes.                                              *)
THEOREM LinkAlarmsReal ==
    TableSpec => []LinkAlarmIsReal
<1>1. TableInv => LinkAlarmIsReal
  BY LinksBlamed
<1>2. QED
  BY <1>1, TableInvariance, PTL
=================================================================================
