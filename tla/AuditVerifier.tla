------------------------------ MODULE AuditVerifier -----------------------------
(* The verifier of the audit service (internal/verifier/verifier.go): what it  *)
(* reports of one organization's rows, at any moment in the life of a table    *)
(* that the writer extends and in which rows get damaged or go missing.        *)
(*                                                                             *)
(* Verify is one SELECT, hence one snapshot of the table, and a loop over its  *)
(* rows: a function of the table, defined here as the set of violations. The   *)
(* writer appends atomically, which is what AuditChain shows.                  *)
(* The names of its specification speak of the table, for AuditChain_proofs    *)
(* reads this module beside AuditChain.                                        *)
EXTENDS AuditEntries

CONSTANTS Org,             \* the organization verified
          PayloadText(_),  \* payload::text, the database's text of a stored payload
          MaxRows,         \* bound: rows the writer appends
          MaxDamage,       \* bound: rows damaged or removed
          Times            \* created_at values, the event times set by the proxy

ASSUME OrgAssumption == Org \in Orgs
ASSUME TimesAssumption == Times \subseteq Nat \ {0}
ASSUME DamageAssumption == MaxRows \in Nat /\ MaxDamage \in Nat

VARIABLES rows,      \* the organization's rows of audit_log_chain, by seq_num
          written,   \* history: every row as the writer wrote it
          damage     \* history: number of damages

tableVars == <<rows, written, damage>>

TableInit == rows = << >> /\ written = << >> /\ damage = 0

---------------------------------------------------------------------------------
(* The table.                                                                  *)

(* The writer's append: the number comes from the audit_seq counter, the       *)
(* previous hash from the row with the highest number that is there. sig is    *)
(* the digest hmac_sig signs.                                                  *)
Write(at) ==
    /\ Len(written) < MaxRows
    /\ LET n   == Len(written) + 1
           row == MakeRow(n, Org, n, LastHash(rows))
           full == [seq |-> n, msg |-> n, prev |-> row.prev, hash |-> row.hash,
                    sig |-> row.hash, at |-> at]
       IN  rows' = Append(rows, full) /\ written' = Append(written, full)
    /\ UNCHANGED damage

(* A row is removed, loses its payload, or has its entry_hash overwritten.     *)
RemoveRow(k) == rows' = SubSeq(rows, 1, k - 1) \o SubSeq(rows, k + 1, Len(rows))
ChangePayload(k) == rows' = [rows EXCEPT ![k].msg = MaxRows + 1]
ChangeHash(k) == rows' = [rows EXCEPT ![k].hash = Append(@, @[Len(@)])]

Damage(k) == /\ damage < MaxDamage
             /\ RemoveRow(k) \/ ChangePayload(k) \/ ChangeHash(k)
             /\ damage' = damage + 1
             /\ UNCHANGED written

TableNext ==
    \/ \E at \in Times : Write(at)
    \/ \E k \in 1..Len(rows) : Damage(k)

TableSpec == TableInit /\ [][TableNext]_tableVars

---------------------------------------------------------------------------------
(* Verify.                                                                     *)

(* The positions of the query's rows; 0 stands for an absent start or end.     *)
Selected(start, end) == {k \in 1..Len(rows) : /\ start = 0 \/ rows[k].at >= start
                                              /\ end = 0 \/ rows[k].at <= end}

(* The row the loop has seen before the k-th, if any.                          *)
Seen(sel, k) == {j \in sel : j < k}
Latest(sel, k) == CHOOSE j \in Seen(sel, k) : \A i \in Seen(sel, k) : i <= j

(* The loop variables prevSeq and prevHash at the k-th row.                    *)
PrevSeq(sel, k) == IF Seen(sel, k) = {} THEN 0 ELSE rows[Latest(sel, k)].seq

(* Mutation of PrevHash: prevHash is never updated in the loop.                *)
PrevHashKept(sel, k) == NoHash

PrevHash(sel, k) == IF Seen(sel, k) = {} THEN NoHash ELSE rows[Latest(sel, k)].hash

(* Mutation of SeqGap: prevSeq > 1 for prevSeq > 0, a gap after the first row. *)
SeqGapLate(sel, k) == PrevSeq(sel, k) > 1 /\ rows[k].seq # PrevSeq(sel, k) + 1

(* The four checks of the k-th row.                                            *)
SeqGap(sel, k) == PrevSeq(sel, k) > 0 /\ rows[k].seq # PrevSeq(sel, k) + 1

(* Mutation of PrevMismatch: the row's own entry_hash instead of the last.     *)
PrevMismatchOwn(sel, k) == rows[k].hash # PrevHash(sel, k)

PrevMismatch(sel, k) == rows[k].prev # PrevHash(sel, k)

HashMismatch(sel, k) ==
    Hash(rows[k].seq, Org, PayloadText(rows[k].msg), rows[k].prev) # rows[k].hash

HmacMismatch(sel, k) == rows[k].hash # rows[k].sig

Reported(sel, reason, Check(_, _)) ==
    {[seq |-> rows[k].seq, reason |-> reason] : k \in {j \in sel : Check(sel, j)}}

(* The violations of the report; it is valid when there are none.              *)
Verify(start, end) ==
    LET sel == Selected(start, end)
    IN  Reported(sel, "seq_gap", SeqGap)
        \cup Reported(sel, "prev_hash_mismatch", PrevMismatch)
        \cup Reported(sel, "hash_mismatch", HashMismatch)
        \cup Reported(sel, "hmac_mismatch", HmacMismatch)

VerifyAll == Verify(0, 0)

ReasonsOf(report) == {v.reason : v \in report}

---------------------------------------------------------------------------------
(* Correctness.                                                                *)

(* Every variable has its type.                                                *)
Stored == [seq : 1..MaxRows, msg : 1..(MaxRows + 1), prev : Digest, hash : Digest,
           sig : Digest, at : Times]

TableOK == rows \in Seq(Stored) /\ written \in Seq(Stored) /\ damage \in 0..MaxDamage

Missing(s) == s \in 1..Len(written) /\ \A k \in 1..Len(rows) : rows[k].seq # s

(* A verification of the whole chain raises no false alarm about order, links  *)
(* or signatures: on rows nothing touched it reports none of the three.        *)
NoFalseLinkAlarm ==
    rows = written =>
        ReasonsOf(VerifyAll) \cap {"seq_gap", "prev_hash_mismatch", "hmac_mismatch"} = {}

(* A row missing between two others is reported, at the next row there is,     *)
(* also when the writer has meanwhile linked new rows to what was left.        *)
InteriorGapReported ==
    \A s \in 1..Len(written) : \A k \in 2..Len(rows) :
        Missing(s) /\ rows[k - 1].seq < s /\ s < rows[k].seq =>
            [seq |-> rows[k].seq, reason |-> "seq_gap"] \in VerifyAll

(* A row whose entry_hash was overwritten is reported for its signature, and   *)
(* the row after it for its link when it was linked to the hash before that (a *)
(* row written afterwards links to what it found).                             *)
ChangedHashReported ==
    \A k \in 1..Len(rows) :
        LET asWritten == written[rows[k].seq].hash
        IN  rows[k].hash # asWritten =>
                /\ [seq |-> rows[k].seq, reason |-> "hmac_mismatch"] \in VerifyAll
                /\ k < Len(rows) /\ rows[k + 1].prev = asWritten =>
                      [seq |-> rows[k + 1].seq, reason |-> "prev_hash_mismatch"] \in VerifyAll

(* Both: a verification of the whole chain misses neither (verifier.go:67-183). *)
DamageReported == InteriorGapReported /\ ChangedHashReported

(* Links are blamed only at a real break: a full verification reports          *)
(* prev_hash_mismatch at a row only if the row before it is missing or had its *)
(* hash overwritten.                                                           *)
LinkAlarmIsReal ==
    \A v \in VerifyAll : v.reason = "prev_hash_mismatch" =>
        \E s \in 1..(v.seq - 1) :
            \/ Missing(s)
            \/ \E k \in 1..Len(rows) : rows[k].seq = s /\ rows[k].hash # written[s].hash

(* verifier.go:7: "Compare with stored entry_hash -- mismatch = tampered". An  *)
(* untouched chain would then have no hash mismatch.                           *)
MismatchMeansTampered ==
    rows = written => "hash_mismatch" \notin ReasonsOf(VerifyAll)

=================================================================================
