------------------------------ MODULE AuditEntries ------------------------------
(* The rows of the audit_log_chain table and the hash that links them,         *)
(* shared by the abstract ledger, the writer and the verifier.                 *)
(*                                                                             *)
(* A Kafka usage event is named by its position in the topic. Its payload      *)
(* (provider, model, status, DLP flag, policy decision) is abstracted to that  *)
(* position: two events are two payloads.                                      *)
EXTENDS Integers, Sequences

CONSTANTS Orgs,     \* organizations (rows of the organizations table)
          NoOrg     \* the org of an event the consumer cannot attribute

ASSUME NoOrgAssumption == NoOrg \notin Orgs

(* What an entry's hash covers besides the previous hash.                      *)
Content == [seq : Nat \ {0}, org : Orgs, msg : Nat \ {0}]

(* A digest. SHA-256 is idealised as collision free: a digest is the list of   *)
(* the contents hashed into it, directly or through the previous digest.       *)
Digest == Seq(Content)

(* prev_hash of the first row: the empty string, the digest of nothing.        *)
NoHash == << >>

(* entry_hash = SHA-256(seq | org | event_type | payload | prev_hash)          *)
Hash(seq, org, msg, prev) ==
    Append(prev, [seq |-> seq, org |-> org, msg |-> msg])

(* One row of audit_log_chain. hmac_sig is a function of entry_hash and the    *)
(* one signing key, so it is left out.                                         *)
Row == [seq : Nat \ {0}, msg : Nat \ {0}, prev : Digest, hash : Digest]

MakeRow(seq, org, msg, prev) ==
    [seq |-> seq, msg |-> msg, prev |-> prev, hash |-> Hash(seq, org, msg, prev)]

(* The hash a row added after these rows must carry.                           *)
LastHash(rows) == IF rows = << >> THEN NoHash ELSE rows[Len(rows)].hash
=================================================================================
