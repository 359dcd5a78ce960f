------------------------------ MODULE MCAuditChain ------------------------------
(* Instances of AuditChain for model checking.                                 *)
EXTENDS AuditChain

CONSTANTS w1, w2, o1, o2

MCEvents == {[org |-> o1, fk |-> "ok"], [org |-> o2, fk |-> "actor"],
             [org |-> NoOrg, fk |-> "ok"]}
=================================================================================
