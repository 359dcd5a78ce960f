----------------------------- MODULE MCAuditVerifier ----------------------------
(* Instances of AuditVerifier for model checking.                              *)
EXTENDS AuditVerifier

(* The text of a JSONB value is not the JSON the writer hashed: Postgres sorts *)
(* keys by length and separates with blanks where Go's Marshal writes none.    *)
JsonbText(m) == m + MaxRows + 1
=================================================================================
