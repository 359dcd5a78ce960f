------------------------------- MODULE AuditChain -------------------------------
(* The audit service: the consumers of the usage-events topic                  *)
(* (cmd/auditd/main.go) and the transaction that appends one event to its      *)
(* organization's hash chain (internal/writer/writer.go, migration 0007).      *)
(* The consumption of the topic is ConsumerGroup's: several workers may be     *)
(* writing to the same chain.                                                  *)
EXTENDS AuditEntries, ConsumerGroup, FiniteSets

(* An event: its organization, and the foreign key of its row the database     *)
(* would refuse, if any.                                                       *)
ASSUME EventsAssumption ==
    Events \subseteq [org : Orgs \cup {NoOrg}, fk : {"ok", "org", "actor"}]

VARIABLES
    snap,        \* snap[w]: the snapshot of w's transaction
    seq,         \* seq[w]: the sequence number the upsert returned
    prev,        \* prev[w]: the previous hash the select returned
    lock,        \* lock[o]: the worker whose open transaction locks o's audit_seq row
    nextSeq,     \* nextSeq[o]: the committed audit_seq.next_seq of o; 0: no row
    chain,       \* chain[o]: the committed audit_log_chain rows of o
    failed       \* history: events for which some Write returned an error

txVars == <<snap, seq, prev>>
dbVars == <<lock, nextSeq, chain>>
vars == <<groupVars, snap, seq, prev, lock, nextSeq, chain, failed>>

NoSnap == [next |-> 0, rows |-> << >>]

(* Where a Write can fail, and where its transaction holds the row lock.       *)
InTx    == {"begin", "upsert", "fetch", "insert", "commit"}
Locking == {"fetch", "insert", "commit"}

OrgOf(w) == log[pos[w]].org
FkOf(w)  == log[pos[w]].fk

(* The consumer writes an event unless it does not parse or names no           *)
(* organization; both are the one event with NoOrg.                            *)
Auditable(m) == log[m].org \in Orgs

Recorded(m) == \E o \in Orgs : \E k \in 1..Len(chain[o]) : chain[o][k].msg = m

Init == /\ GroupInit
        /\ snap = [w \in Workers |-> NoSnap]
        /\ seq = [w \in Workers |-> 0]
        /\ prev = [w \in Workers |-> NoHash]
        /\ lock = [o \in Orgs |-> Nobody]
        /\ nextSeq = [o \in Orgs |-> 0]
        /\ chain = [o \in Orgs |-> << >>]
        /\ failed = {}

(* Mutation of EndTx: no deferred Rollback, the row stays locked.              *)
EndTxWithoutRollback(w) ==
    /\ snap' = [snap EXCEPT ![w] = NoSnap]
    /\ seq' = [seq EXCEPT ![w] = 0]
    /\ prev' = [prev EXCEPT ![w] = NoHash]
    /\ UNCHANGED lock

(* The transaction is over: its row lock, snapshot and locals are gone.        *)
EndTx(w) == /\ lock' = [o \in Orgs |-> IF lock[o] = w THEN Nobody ELSE lock[o]]
            /\ snap' = [snap EXCEPT ![w] = NoSnap]
            /\ seq' = [seq EXCEPT ![w] = 0]
            /\ prev' = [prev EXCEPT ![w] = NoHash]

---------------------------------------------------------------------------------
(* The producer and the consumer group: no row changes.                        *)

Publish(e) == Produce(e) /\ UNCHANGED <<txVars, dbVars, failed>>

Assign(w) == Join(w) /\ UNCHANGED <<txVars, dbVars, failed>>

AutoCommit(w) == CommitOffset(w) /\ UNCHANGED <<txVars, dbVars, failed>>

Leave(w) == LeaveGroup(w) /\ UNCHANGED <<txVars, dbVars, failed>>

EndClaim(w) == CloseClaim(w) /\ UNCHANGED <<txVars, dbVars, failed>>

(* The process dies: its connection closes and the database rolls the open     *)
(* transaction back.                                                           *)
Crash(w) == Die(w) /\ EndTx(w) /\ UNCHANGED <<nextSeq, chain, failed>>

---------------------------------------------------------------------------------
(* ConsumeClaim.                                                               *)

(* An event that does not parse or has no organization is marked at once.      *)
SkipEvent(w) == /\ AtMessage(w)
                /\ ~ Auditable(pos[w])
                /\ MarkMessage(w)
                /\ UNCHANGED <<txVars, dbVars, failed>>

(* Mutation of TakeEvent: the event is marked before it is written.            *)
TakeEventMarkFirst(w) ==
    /\ AtMessage(w)
    /\ Auditable(pos[w])
    /\ marked' = [marked EXCEPT ![w] = pos[w] + 1]
    /\ pc' = [pc EXCEPT ![w] = "begin"]
    /\ UNCHANGED <<log, sessionVars, pos, txVars, dbVars, failed>>

TakeEvent(w) == /\ AtMessage(w)
                /\ Auditable(pos[w])
                /\ GoTo(w, "begin")
                /\ UNCHANGED <<txVars, dbVars, failed>>

(* Whatever Write returned, the event is marked.                               *)
DoneEvent(w) == /\ pc[w] = "mark"
                /\ MarkMessage(w)
                /\ UNCHANGED <<txVars, dbVars, failed>>

---------------------------------------------------------------------------------
(* Write: one serializable transaction.                                        *)

(* BeginTx, and the first statement, which takes the transaction's snapshot    *)
(* and then waits for the audit_seq row.                                       *)
BeginTx(w) ==
    /\ pc[w] = "begin"
    /\ snap' = [snap EXCEPT ![w] = [next |-> nextSeq[OrgOf(w)],
                                    rows |-> chain[OrgOf(w)]]]
    /\ GoTo(w, "upsert")
    /\ UNCHANGED <<seq, prev, dbVars, failed>>

(* The next_seq the upsert stores: 2 in a new row, one more in an old one.     *)
Bumped(n) == IF n = 0 THEN 2 ELSE n + 1

(* Mutation of AllocSeq: the update of a row changed since the snapshot is     *)
(* allowed, as below the serializable and repeatable read levels.              *)
AllocSeqUnserialized(w) ==
    /\ pc[w] = "upsert"
    /\ FkOf(w) # "org"
    /\ lock[OrgOf(w)] = Nobody
    /\ lock' = [lock EXCEPT ![OrgOf(w)] = w]
    /\ seq' = [seq EXCEPT ![w] = Bumped(nextSeq[OrgOf(w)]) - 1]
    /\ GoTo(w, "fetch")
    /\ UNCHANGED <<snap, prev, nextSeq, chain, failed>>

(* The upsert gets the row lock, and the row is still the snapshot's.          *)
AllocSeq(w) ==
    /\ pc[w] = "upsert"
    /\ FkOf(w) # "org"
    /\ lock[OrgOf(w)] = Nobody
    /\ nextSeq[OrgOf(w)] = snap[w].next
    /\ lock' = [lock EXCEPT ![OrgOf(w)] = w]
    /\ seq' = [seq EXCEPT ![w] = Bumped(snap[w].next) - 1]
    /\ GoTo(w, "fetch")
    /\ UNCHANGED <<snap, prev, nextSeq, chain, failed>>

(* Mutation of NewestHash: ORDER BY seq_num without DESC.                      *)
OldestHash(rows) == IF rows = << >> THEN NoHash ELSE rows[1].hash

(* SELECT entry_hash ... ORDER BY seq_num DESC LIMIT 1, in the snapshot.       *)
NewestHash(rows) ==
    IF rows = << >> THEN NoHash
    ELSE LET k == CHOOSE i \in 1..Len(rows) :
                      \A j \in 1..Len(rows) : rows[j].seq <= rows[i].seq
         IN  rows[k].hash

FetchPrev(w) ==
    /\ pc[w] = "fetch"
    /\ prev' = [prev EXCEPT ![w] = NewestHash(snap[w].rows)]
    /\ GoTo(w, "insert")
    /\ UNCHANGED <<snap, seq, dbVars, failed>>

(* The foreign keys hold and no committed row has the number: UNIQUE.          *)
InsertRow(w) ==
    /\ pc[w] = "insert"
    /\ FkOf(w) = "ok"
    /\ \A k \in 1..Len(chain[OrgOf(w)]) : chain[OrgOf(w)][k].seq # seq[w]
    /\ GoTo(w, "commit")
    /\ UNCHANGED <<txVars, dbVars, failed>>

(* The transaction commits: the row and the counter become visible together.   *)
Apply(w) ==
    LET o == OrgOf(w)
    IN  /\ chain' = [chain EXCEPT ![o] =
                       Append(@, MakeRow(seq[w], o, pos[w], prev[w]))]
        /\ nextSeq' = [nextSeq EXCEPT ![o] = seq[w] + 1]
        /\ EndTx(w)

Commit(w) ==
    /\ pc[w] = "commit"
    /\ Apply(w)
    /\ GoTo(w, "mark")
    /\ UNCHANGED failed

(* The commit is applied but its acknowledgement is lost: Write returns an     *)
(* error for a row that is in the chain.                                       *)
CommitUnacknowledged(w) ==
    /\ pc[w] = "commit"
    /\ Apply(w)
    /\ failed' = failed \cup {pos[w]}
    /\ GoTo(w, "mark")

(* Mutation of WriteFails: the number was allocated outside the transaction.   *)
WriteFailsNumberKept(w) ==
    /\ failed' = failed \cup {pos[w]}
    /\ nextSeq' = IF seq[w] = 0 THEN nextSeq
                  ELSE [nextSeq EXCEPT ![OrgOf(w)] = seq[w] + 1]
    /\ EndTx(w)
    /\ GoTo(w, "mark")
    /\ UNCHANGED chain

(* Write returns an error, the deferred Rollback has ended the transaction and *)
(* the handler only logs it.                                                   *)
WriteFails(w) ==
    /\ failed' = failed \cup {pos[w]}
    /\ EndTx(w)
    /\ GoTo(w, "mark")
    /\ UNCHANGED <<nextSeq, chain>>

(* The audit_seq row changed after the snapshot: SQLSTATE 40001, not retried.  *)
SerializationFailure(w) ==
    /\ pc[w] = "upsert"
    /\ lock[OrgOf(w)] = Nobody
    /\ nextSeq[OrgOf(w)] # snap[w].next
    /\ WriteFails(w)

(* The organization is unknown to audit_seq, or the row's actor or number is   *)
(* refused by audit_log_chain.                                                 *)
ConstraintViolation(w) ==
    /\ \/ pc[w] = "upsert" /\ FkOf(w) = "org"
       \/ pc[w] = "insert" /\ FkOf(w) # "ok"
       \/ /\ pc[w] = "insert"
          /\ \E k \in 1..Len(chain[OrgOf(w)]) : chain[OrgOf(w)][k].seq = seq[w]
    /\ WriteFails(w)

(* Any statement may fail with the connection, and the commit with a conflict  *)
(* the database finds only then.                                               *)
StatementError(w) == pc[w] \in InTx /\ WriteFails(w)

---------------------------------------------------------------------------------
(* What a worker does as long as its process and the database work.            *)
Handle(w) == \/ SkipEvent(w) \/ TakeEvent(w) \/ DoneEvent(w)
             \/ BeginTx(w) \/ AllocSeq(w) \/ FetchPrev(w) \/ InsertRow(w)
             \/ Commit(w) \/ SerializationFailure(w) \/ ConstraintViolation(w)

Fault(w) == Crash(w) \/ StatementError(w) \/ CommitUnacknowledged(w)

Next == \/ \E e \in Events : Publish(e)
        \/ \E w \in Workers : \/ Assign(w) \/ AutoCommit(w) \/ Leave(w)
                              \/ EndClaim(w) \/ Handle(w) \/ Fault(w)

Spec == Init /\ [][Next]_vars

(* A worker's handler keeps running while its process does, the session        *)
(* commits its marks every second, and an unowned partition is assigned.       *)
Fairness == /\ \A w \in Workers : WF_vars(Handle(w)) /\ WF_vars(AutoCommit(w))
            /\ WF_vars(\E w \in Workers : owner = Nobody /\ Assign(w))

FairSpec == Spec /\ Fairness

---------------------------------------------------------------------------------
(* Correctness.                                                                *)

(* Every variable has its type.                                                *)
TxOK      == /\ snap \in [Workers -> [next : Nat, rows : Seq(Row)]]
             /\ seq \in [Workers -> Nat]
             /\ prev \in [Workers -> Digest]
DbOK      == /\ lock \in [Orgs -> Workers \cup {Nobody}]
             /\ nextSeq \in [Orgs -> Nat]
             /\ chain \in [Orgs -> Seq(Row)]
HistoryOK == failed \subseteq 1..Len(log)

TypeOK == GroupOK(InTx \cup {"mark"}) /\ TxOK /\ DbOK /\ HistoryOK

(* The rows of an organization are numbered 1, 2, 3, ... in commit order, each *)
(* carries the hash of the row before it and its own hash: no fork, no gap and *)
(* no reuse of a number, whatever consumers write at the same time and however *)
(* their transactions end (writer.go:48-130).                                  *)
ChainLinked ==
    \A o \in Orgs : \A k \in 1..Len(chain[o]) :
        /\ chain[o][k].seq = k
        /\ chain[o][k].prev = IF k = 1 THEN NoHash ELSE chain[o][k - 1].hash
        /\ chain[o][k].hash = Hash(k, o, chain[o][k].msg, chain[o][k].prev)

(* The counter stays one ahead of the chain: the number of a transaction that  *)
(* was rolled back is given out again (audit_seq, writer.go:59-64).            *)
CounterAgrees ==
    \A o \in Orgs : nextSeq[o] = IF chain[o] = << >> THEN 0 ELSE Len(chain[o]) + 1

(* A transaction that holds the row lock has the committed chain in its        *)
(* snapshot and the next number, and once it has read it the last hash; one    *)
(* still waiting for the lock either has that chain too or will see a changed  *)
(* counter (writer.go:51-81).                                                  *)
AtTail(w) ==
    /\ pc[w] \in InTx \cup {"mark"} => pos[w] <= Len(log) /\ Auditable(pos[w])
    /\ pc[w] \in Locking => /\ lock[OrgOf(w)] = w
                            /\ snap[w].rows = chain[OrgOf(w)]
                            /\ seq[w] = Len(chain[OrgOf(w)]) + 1
    /\ pc[w] \in {"insert", "commit"} => prev[w] = LastHash(chain[OrgOf(w)])
    /\ pc[w] = "upsert" =>
          /\ snap[w].next <= nextSeq[OrgOf(w)]
          /\ snap[w].next = nextSeq[OrgOf(w)] => snap[w].rows = chain[OrgOf(w)]

WriterAtTail == \A w \in Workers : AtTail(w)

Settled(m) == ~ Auditable(m) \/ Recorded(m) \/ m \in failed \/ m \in passed

(* The group never commits past an event that is neither in a chain nor known  *)
(* to have failed or been passed over at the group's start: no crash, takeover *)
(* or late commit of a former owner loses an event without an error in the log *)
(* (main.go:173-209).                                                          *)
NoSilentLoss == \A m \in 1..Len(log) : m < committed => Settled(m)

(* Committed rows are never changed or removed, and every append is the atomic *)
(* append of the abstract ledger.                                              *)
Ledger == INSTANCE AuditLedger WITH log <- log, chain <- chain
AtomicAppend == Ledger!Spec

(* Every published event is eventually settled, and the group's position moves *)
(* past it unless it was passed over: no lock is held forever and no worker is *)
(* stuck behind another's transaction.                                         *)
EventuallySettled ==
    \A m \in 1..MaxLog :
        Len(log) >= m ~>
            Len(log) >= m /\ Settled(m) /\ (committed > m \/ m \in passed)

=================================================================================
