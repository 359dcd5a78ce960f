------------------------------ MODULE AuditLedger -------------------------------
(* What the audit service promises: per organization an append-only ledger     *)
(* to which one usage event at a time is added "atomically" (writer.go:48),    *)
(* numbered right after the last entry and carrying the last entry's hash.     *)
(* AuditChain, where an append is five database steps taken by concurrent      *)
(* consumers that crash and fail, is shown to implement this specification.    *)
EXTENDS AuditEntries

CONSTANT Events     \* the events a producer may publish, records with field org

VARIABLES log,      \* the usage-events partition: a sequence of Events
          chain     \* chain[o]: the rows of organization o, in commit order

ledgerVars == <<log, chain>>

Init == /\ log = << >>
        /\ chain = [o \in Orgs |-> << >>]

Publish(e) == /\ log' = Append(log, e)
              /\ UNCHANGED chain

(* The event at position m is recorded, possibly not for the first time.       *)
Record(m) ==
    LET o == log[m].org
    IN  /\ o \in Orgs
        /\ chain' = [chain EXCEPT ![o] =
                       Append(@, MakeRow(Len(@) + 1, o, m, LastHash(@)))]
        /\ UNCHANGED log

Next == \/ \E e \in Events : Publish(e)
        \/ \E m \in 1..Len(log) : Record(m)

Spec == Init /\ [][Next]_ledgerVars
=================================================================================
