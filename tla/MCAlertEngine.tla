----------------------------- MODULE MCAlertEngine ------------------------------
(* Instances of AlertEngine for model checking.                                *)
EXTENDS AlertEngine, TLC

CONSTANTS w1, w2, o1, o2

MCEvents == {[org |-> o1, kind |-> "budget"], [org |-> o1, kind |-> "garbled"],
             [org |-> o2, kind |-> "other"]}

ReadEvents == [kinds |-> {"event"}, read |-> "read"]
MCFilters == {NoFilter, ReadEvents}
UnreadOnly == {[kinds |-> Kinds, read |-> "unread"]}

WorkerSymmetry == Permutations(Workers)
=================================================================================
