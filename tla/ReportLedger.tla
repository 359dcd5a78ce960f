------------------------------ MODULE ReportLedger ------------------------------
(* What the report service promises to whoever asks for a report: it is        *)
(* wanted, then it is available or refused (the file of an available one may   *)
(* expire), and an available one tells the usage of its organization as it was *)
(* at one instant after it was asked for. That it is available is the last     *)
(* word, but for a report left open: it may be withdrawn until it is closed.   *)
(* Available means that the file is sent, not that it is whole. ReportService, *)
(* where a report is a row, a file and a dozen database calls that crash and   *)
(* fail, is shown to implement this specification.                             *)
EXTENDS Integers

CONSTANTS Orgs,     \* the organizations
          Reports   \* the reports that may be asked for

VARIABLES usage,    \* usage[o]: the usage events of organization o
          phase,    \* phase[r]: "absent", "wanted", "available", "expired" or "refused"
          open,     \* the available reports that may still be withdrawn
          about,    \* about[r]: the organization r is about
          least,    \* least[r]: the usage of about[r] when r was asked for
          told      \* told[r]: the usage an available report tells

ledgerVars == <<usage, phase, open, about, least, told>>

Init == /\ usage = [o \in Orgs |-> 0]
        /\ phase = [r \in Reports |-> "absent"]
        /\ open = {}
        /\ about \in [Reports -> Orgs]
        /\ least = [r \in Reports |-> 0]
        /\ told = [r \in Reports |-> 0]

Use(o) == /\ usage' = [usage EXCEPT ![o] = @ + 1]
          /\ UNCHANGED <<phase, open, about, least, told>>

Want(r, o) == /\ phase[r] = "absent"
              /\ phase' = [phase EXCEPT ![r] = "wanted"]
              /\ about' = [about EXCEPT ![r] = o]
              /\ least' = [least EXCEPT ![r] = usage[o]]
              /\ UNCHANGED <<usage, open, told>>

Provide(r) == /\ phase[r] = "wanted"
              /\ phase' = [phase EXCEPT ![r] = "available"]
              /\ \E n \in least[r]..usage[about[r]] : told' = [told EXCEPT ![r] = n]
              /\ open' \in {open, open \cup {r}}
              /\ UNCHANGED <<usage, about, least>>

Refuse(r) == /\ phase[r] = "wanted"
             /\ phase' = [phase EXCEPT ![r] = "refused"]
             /\ UNCHANGED <<usage, open, about, least, told>>

Withdraw(r) == /\ r \in open
               /\ phase' = [phase EXCEPT ![r] = "refused"]
               /\ open' = open \ {r}
               /\ told' = [told EXCEPT ![r] = 0]
               /\ UNCHANGED <<usage, about, least>>

(* What is available stays so.                                                 *)
Close == /\ open' \in SUBSET open
         /\ UNCHANGED <<usage, phase, about, least, told>>

(* The files are lost, all at once, and with them whoever might withdraw them. *)
Expire == /\ open' = {}
          /\ phase' = [r \in Reports |-> IF phase[r] = "available" THEN "expired" ELSE phase[r]]
          /\ UNCHANGED <<usage, about, least, told>>

Next == \/ \E o \in Orgs : Use(o)
        \/ \E r \in Reports : \/ \E o \in Orgs : Want(r, o)
                              \/ Provide(r) \/ Refuse(r) \/ Withdraw(r)
        \/ Close \/ Expire

Spec == Init /\ [][Next]_ledgerVars
=================================================================================
