------------------------- MODULE GatewayServices_proofs -------------------------
(* Proofs about the two services the gateway's routes send requests on to, for *)
(* every set of requests, organizations, reports and keys and every bound: the *)
(* report service, which implements ReportLedger, and the key vault.           *)
EXTENDS ReportService, KeyVault, FiniteSetTheorems, SequenceTheorems, TLAPS

---------------------------------------------------------------------------------
(* The report service. Its inductive invariant:                                *)

(* How far a report is: its row, its file and its document agree with where    *)
(* its generator is, and what it has read is the usage of its organization at  *)
(* an instant since it was asked for.                                          *)
Current(r, n) == n \in least[r]..usage[org[r]]

Progress(r) ==
    /\ least[r] <= usage[org[r]]
    /\ pc[r] = "none" <=> status[r] = "none"
    /\ (\/ pc[r] \in {"none", "insert", "breakdown", "cursor"}
        \/ pc[r] = "catch" /\ status[r] # "ready")
       => shown[r] = 0 /\ total[r] = 0 /\ file[r] = "none"
    /\ pc[r] = "insert" => status[r] = "pending"
    /\ pc[r] \in Working \ {"insert", "catch"} => status[r] = "generating"
    /\ pc[r] = "catch" => \/ status[r] = "generating"
                          \/ status[r] = "ready" /\ file[r] # "none"
    /\ pc[r] \in {"breakdown", "totals"} => format[r] = "pdf"
    /\ pc[r] \in {"cursor", "fetch"} => format[r] = "csv"
    /\ pc[r] = "totals" => Current(r, shown[r])
    /\ pc[r] \in {"fetch", "finish"} => /\ Current(r, total[r]) /\ shown[r] <= total[r]
                                        /\ file[r] # "none"
    /\ pc[r] = "finish" /\ format[r] = "csv" => shown[r] = total[r]
    /\ status[r] = "ready" => /\ shown[r] <= total[r]
                              /\ format[r] = "csv" => shown[r] = total[r]

Usage == IsFiniteSet(Recorded) /\ Cardinality(Recorded) <= MaxUsage

IInv == /\ TypeOK /\ Usage
        /\ \A r \in Reports : Progress(r)

LEMMA InitIInv == Init => IInv
<1> SUFFICES ASSUME Init PROVE IInv
  OBVIOUS
<1> USE ReportsAssumption, BoundsAssumption DEF Init
<1>1. TypeOK
  <2>1. org \in [Reports -> Orgs]
    OBVIOUS
  <2>2. pc \in [Reports -> Working \cup {"none", "done", "gone"}]
    OBVIOUS
  <2>3. usage \in [Orgs -> 0..MaxUsage] /\ crashes \in 0..MaxCrashes
    OBVIOUS
  <2>4. /\ least \in [Reports -> 0..MaxUsage]
        /\ shown \in [Reports -> 0..MaxUsage] /\ total \in [Reports -> 0..MaxUsage]
    OBVIOUS
  <2>5. /\ status \in [Reports -> {"none", "pending", "generating", "ready", "failed"}]
        /\ format \in [Reports -> {"pdf", "csv"}]
        /\ file \in [Reports -> {"none", "part", "whole", "cut"}]
    OBVIOUS
  <2>6. monthly \subseteq Orgs /\ current \in Orgs \cup {"none"} /\ fired \in BOOLEAN /\ reached \subseteq Orgs
    OBVIOUS
  <2>7. QED
    BY <2>1, <2>2, <2>3, <2>4, <2>5, <2>6 DEF TypeOK
<1>2. Usage
  <2>1. Recorded = {}
    BY DEF Recorded
  <2>2. QED
    BY <2>1, FS_EmptySet DEF Usage
<1>3. ASSUME NEW r \in Reports PROVE Progress(r)
  <2>1. usage[org[r]] = 0
    BY <1>1 DEF TypeOK
  <2>2. QED
    BY <2>1 DEF Progress, Working
<1>4. QED
  BY <1>1, <1>2, <1>3 DEF IInv

---------------------------------------------------------------------------------
(* The usage.                                                                  *)

(* There are at most as many rows of one organization as of all.               *)
LEMMA UseFits ==
    ASSUME TypeOK, Usage, NEW o \in Orgs, Cardinality(Recorded) < MaxUsage
    PROVE  usage[o] < MaxUsage
<1>1. usage[o] \in 0..MaxUsage /\ MaxUsage \in Nat
  BY BoundsAssumption DEF TypeOK
<1> DEFINE f == [n \in 1..usage[o] |-> <<o, n>>]
           B == {<<o, n>> : n \in 1..usage[o]}
<1>2. f \in Bijection(1..usage[o], B)
  BY DEF Bijection, Injection, Surjection, IsInjective
<1>3. B \subseteq Recorded
  BY <1>1 DEF Recorded
<1> HIDE DEF f, B
<1>4. IsFiniteSet(1..usage[o]) /\ Cardinality(1..usage[o]) = usage[o]
  <2>1. usage[o] \in Int /\ usage[o] >= 0 /\ 1 \in Int
    BY <1>1
  <2>2. /\ IsFiniteSet(1..usage[o])
        /\ Cardinality(1..usage[o]) = IF 1 > usage[o] THEN 0 ELSE usage[o] - 1 + 1
    BY <2>1, FS_Interval, Zenon
  <2>3. QED
    BY <2>1, <2>2
<1>5. Cardinality(B) = usage[o]
  <2>1. ExistsBijection(1..usage[o], B)
    BY <1>2 DEF ExistsBijection
  <2>2. QED
    BY <1>4, <2>1, FS_Bijection
<1>6. Cardinality(B) <= Cardinality(Recorded)
  BY <1>3, FS_Subset DEF Usage
<1>7. Cardinality(Recorded) \in Nat
  BY FS_CardinalityType DEF Usage
<1>8. QED
  BY <1>1, <1>5, <1>6, <1>7

LEMMA UseIInv == ASSUME IInv, NEW o \in Orgs, Use(o) PROVE IInv'
<1>1. /\ TypeOK /\ Usage /\ Cardinality(Recorded) < MaxUsage
      /\ usage' = [usage EXCEPT ![o] = @ + 1]
      /\ UNCHANGED <<status, org, format, least, file, pc, shown, total, monthly, current, fired,
                     reached, crashes>>
  BY DEF IInv, Use, rowVars, dataVars, cronVars
<1>2. MaxUsage \in Nat /\ usage \in [Orgs -> 0..MaxUsage] /\ usage[o] < MaxUsage
  BY <1>1, UseFits, BoundsAssumption DEF TypeOK
<1>3. /\ usage' \in [Orgs -> 0..MaxUsage]
      /\ \A x \in Orgs : usage[x] <= usage'[x]
  BY <1>1, <1>2
<1>4. TypeOK'
  BY <1>1, <1>3 DEF TypeOK
<1>5. Usage'
  <2>1. Recorded' \subseteq Recorded \cup {<<o, usage[o] + 1>>}
    BY <1>1, <1>2 DEF Recorded
  <2>2. /\ IsFiniteSet(Recorded \cup {<<o, usage[o] + 1>>})
        /\ Cardinality(Recorded \cup {<<o, usage[o] + 1>>}) <= Cardinality(Recorded) + 1
    <3>1. IsFiniteSet(Recorded) /\ Cardinality(Recorded) \in Nat
      BY <1>1, FS_CardinalityType DEF Usage
    <3>2. /\ IsFiniteSet(Recorded \cup {<<o, usage[o] + 1>>})
          /\ \/ Cardinality(Recorded \cup {<<o, usage[o] + 1>>}) = Cardinality(Recorded)
             \/ Cardinality(Recorded \cup {<<o, usage[o] + 1>>}) = Cardinality(Recorded) + 1
      BY <3>1, FS_AddElement
    <3>3. QED
      BY <3>1, <3>2
  <2>3. IsFiniteSet(Recorded') /\ Cardinality(Recorded') <= Cardinality(Recorded) + 1
    <3>1. /\ IsFiniteSet(Recorded')
          /\ Cardinality(Recorded') <= Cardinality(Recorded \cup {<<o, usage[o] + 1>>})
      BY <2>1, <2>2, FS_Subset
    <3>2. /\ Cardinality(Recorded') \in Nat /\ Cardinality(Recorded) \in Nat
          /\ Cardinality(Recorded \cup {<<o, usage[o] + 1>>}) \in Nat
      BY <1>1, <2>2, <3>1, FS_CardinalityType DEF Usage
    <3>3. QED
      BY <2>2, <3>1, <3>2
  <2>4. Cardinality(Recorded) \in Nat /\ Cardinality(Recorded') \in Nat
    BY <1>1, <2>3, FS_CardinalityType DEF Usage
  <2>5. QED
    BY <1>1, <1>2, <2>3, <2>4 DEF Usage
<1>6. ASSUME NEW r \in Reports PROVE Progress(r)'
  <2>1. Progress(r) /\ org[r] \in Orgs /\ least[r] \in Nat
    BY <1>1 DEF IInv, TypeOK
  <2>2. usage[org[r]] \in Nat /\ usage'[org[r]] \in Nat /\ usage[org[r]] <= usage'[org[r]]
    BY <1>2, <1>3, <2>1
  <2>4. least'[r] <= usage'[org'[r]]
    BY <1>1, <2>1, <2>2 DEF Progress
  <2>5. QED
    BY <1>1, <2>1, <2>2, <2>4 DEF Progress, Current
<1>7. QED
  BY <1>4, <1>5, <1>6 DEF IInv

---------------------------------------------------------------------------------
(* The steps of the reports.                                                   *)

(* A report no variable of which changes keeps its progress.                   *)
Same(q) ==
    /\ status'[q] = status[q] /\ org'[q] = org[q] /\ format'[q] = format[q]
    /\ least'[q] = least[q] /\ pc'[q] = pc[q]
    /\ shown'[q] = shown[q] /\ total'[q] = total[q] /\ file'[q] = file[q]

LEMMA SameProgress ==
    ASSUME NEW q \in Reports, Progress(q), Same(q), UNCHANGED usage
    PROVE  Progress(q)'
  BY DEF Same, Progress, Current

(* A step of one report owes the invariant that report's progress.             *)
LEMMA OneReport ==
    ASSUME IInv, NEW r \in Reports, UNCHANGED usage, TypeOK', Progress(r)',
           \A q \in Reports \ {r} : Same(q)
    PROVE  IInv'
<1>1. Usage'
  BY DEF IInv, Usage, Recorded
<1>2. ASSUME NEW q \in Reports PROVE Progress(q)'
  BY SameProgress DEF IInv
<1>3. QED
  BY <1>1, <1>2 DEF IInv

(* A new row: the request is as old as the usage it starts from.               *)
LEMMA InsertProgress ==
    ASSUME IInv, NEW r \in Reports, NEW o \in Orgs, NEW f \in {"pdf", "csv"}, InsertRow(r, o, f),
           UNCHANGED <<usage, file, shown, total, crashes, fired>>,
           monthly' \subseteq Orgs, reached' \subseteq Orgs, current' \in Orgs \cup {"none"}
    PROVE  IInv'
<1>1. TypeOK /\ Progress(r) /\ status[r] = "none"
  BY DEF IInv, InsertRow
<1>2. /\ status' = [status EXCEPT ![r] = "pending"]
      /\ org' = [org EXCEPT ![r] = o] /\ format' = [format EXCEPT ![r] = f]
      /\ least' = [least EXCEPT ![r] = usage[o]]
      /\ pc' = [pc EXCEPT ![r] = "insert"] \/ pc' = [pc EXCEPT ![r] = "gone"]
  BY DEF InsertRow, Go
<1>3. TypeOK'
  BY <1>1, <1>2 DEF TypeOK, Working
<1>4. \A q \in Reports \ {r} : Same(q)
  BY <1>1, <1>2 DEF Same, TypeOK
<1>5. Progress(r)'
  <2>1. /\ shown'[r] = 0 /\ total'[r] = 0 /\ file'[r] = "none" /\ pc'[r] \in {"insert", "gone"}
        /\ status'[r] = "pending" /\ org'[r] = o /\ least'[r] = usage[o] /\ usage[o] \in Nat
    BY <1>1, <1>2, BoundsAssumption DEF Progress, TypeOK
  <2>2. QED
    BY <2>1 DEF Progress, Working
<1>6. QED
  BY <1>3, <1>4, <1>5, OneReport

LEMMA AskIInv ==
    ASSUME IInv, NEW r \in Asked, NEW o \in Orgs, NEW f \in AskedFormats, AskReport(r, o, f)
    PROVE  IInv'
<1>1. r \in Reports /\ f \in {"pdf", "csv"}
  BY ReportsAssumption DEF Reports
<1>2. /\ InsertRow(r, o, f)
      /\ UNCHANGED <<usage, file, shown, total, crashes, fired, monthly, reached, current>>
  BY DEF AskReport, dataVars, cronVars
<1>3. QED
  BY <1>1, <1>2, InsertProgress DEF IInv, TypeOK

(* What a FETCH gives, and what a short one leaves.                            *)
LEMMA FetchFits ==
    ASSUME TypeOK, NEW r \in Reports, shown[r] <= total[r]
    PROVE  /\ shown[r] + FetchSize(r) \in 0..MaxUsage
           /\ shown[r] + FetchSize(r) <= total[r]
           /\ FetchSize(r) < Batch => shown[r] + FetchSize(r) = total[r]
<1>1. shown[r] \in 0..MaxUsage /\ total[r] \in 0..MaxUsage /\ MaxUsage \in Nat /\ Batch \in Nat \ {0}
  BY BoundsAssumption DEF TypeOK
<1>2. QED
  BY <1>1 DEF FetchSize

LEMMA GenerateIInv == ASSUME IInv, NEW r \in Reports, Generate(r) PROVE IInv'
<1> USE DEF Go, rowVars, dataVars, cronVars
<1>1. TypeOK /\ Progress(r) /\ Working \subseteq Working \cup {"none", "done", "gone"}
  BY DEF IInv
<1>2. /\ usage \in [Orgs -> 0..MaxUsage] /\ org[r] \in Orgs /\ usage[org[r]] \in 0..MaxUsage
      /\ least[r] \in Nat /\ usage[org[r]] \in Nat /\ format[r] \in {"pdf", "csv"}
      /\ least[r] <= usage[org[r]]
  BY <1>1, BoundsAssumption DEF TypeOK, Progress
<1>3. CASE MarkGenerating(r)
  <2>1. TypeOK'
    BY <1>1, <1>3 DEF MarkGenerating, TypeOK, Working, PDFQueries
  <2>2. \A q \in Reports \ {r} : Same(q)
    BY <1>1, <1>3 DEF MarkGenerating, TypeOK, Same
  <2>3. Progress(r)'
    BY <1>1, <1>2, <1>3 DEF MarkGenerating, TypeOK, Progress, Working, PDFQueries
  <2>4. QED
    BY <1>3, <2>1, <2>2, <2>3, OneReport DEF MarkGenerating
<1>4. CASE FirstQuery(r)
  <2>1. TypeOK'
    BY <1>1, <1>2, <1>4 DEF FirstQuery, Query, TypeOK, Working, PDFQueries
  <2>2. \A q \in Reports \ {r} : Same(q)
    BY <1>1, <1>4 DEF FirstQuery, Query, TypeOK, Same
  <2>3. Progress(r)'
    BY <1>1, <1>2, <1>4 DEF FirstQuery, Query, TypeOK, Progress, Current, Working, PDFQueries
  <2>4. QED
    BY <1>4, <2>1, <2>2, <2>3, OneReport DEF FirstQuery
<1>5. CASE SecondQuery(r)
  <2>1. TypeOK'
    BY <1>1, <1>2, <1>5 DEF SecondQuery, Query, RenderPDF, TypeOK, Working, PDFQueries
  <2>2. \A q \in Reports \ {r} : Same(q)
    BY <1>1, <1>5 DEF SecondQuery, Query, RenderPDF, TypeOK, Same
  <2>3. Progress(r)'
    BY <1>1, <1>2, <1>5
    DEF SecondQuery, Query, RenderPDF, TypeOK, Progress, Current, Working, PDFQueries
  <2>4. QED
    BY <1>5, <2>1, <2>2, <2>3, OneReport DEF SecondQuery
<1>6. CASE OpenCursor(r)
  <2>1. TypeOK'
    BY <1>1, <1>2, <1>6 DEF OpenCursor, TypeOK, Working
  <2>2. \A q \in Reports \ {r} : Same(q)
    BY <1>1, <1>6 DEF OpenCursor, TypeOK, Same
  <2>3. Progress(r)'
    BY <1>1, <1>2, <1>6 DEF OpenCursor, TypeOK, Progress, Current, Working
  <2>4. QED
    BY <1>6, <2>1, <2>2, <2>3, OneReport DEF OpenCursor
<1>7. CASE Fetch(r)
  <2>1. /\ pc[r] = "fetch" /\ shown[r] <= total[r]
        /\ shown[r] + FetchSize(r) \in 0..MaxUsage
        /\ shown[r] + FetchSize(r) <= total[r]
        /\ FetchSize(r) < Batch => shown[r] + FetchSize(r) = total[r]
    BY <1>1, <1>7, FetchFits DEF Fetch, Progress
  <2>2. /\ shown' = [shown EXCEPT ![r] = shown[r] + FetchSize(r)]
        /\ UNCHANGED <<usage, status, org, format, least, file, total, crashes, monthly, current, fired, reached>>
        /\ \/ FetchSize(r) < Batch /\ pc' = [pc EXCEPT ![r] = "finish"]
           \/ pc' = pc
    BY <1>7 DEF Fetch
  <2>3. TypeOK'
    BY <1>1, <2>1, <2>2 DEF TypeOK, Working
  <2>4. \A q \in Reports \ {r} : Same(q)
    BY <1>1, <2>2 DEF TypeOK, Same
  <2>5. Progress(r)'
    BY <1>1, <2>1, <2>2 DEF TypeOK, Progress, Current, Working
  <2>6. QED
    BY <2>2, <2>3, <2>4, <2>5, OneReport
<1>8. CASE MarkReady(r)
  <2>1. TypeOK'
    BY <1>1, <1>8 DEF MarkReady, TypeOK, Working
  <2>2. \A q \in Reports \ {r} : Same(q)
    BY <1>1, <1>8 DEF MarkReady, TypeOK, Same
  <2>3. Progress(r)'
    <3>1. format[r] # "csv" \/ shown[r] = total[r]
      BY <1>1, <1>8 DEF MarkReady, Progress
    <3>2. QED
      BY <1>1, <1>2, <1>8, <3>1 DEF MarkReady, TypeOK, Progress, Working
  <2>4. QED
    BY <1>8, <2>1, <2>2, <2>3, OneReport DEF MarkReady
<1>9. CASE MarkFailed(r)
  <2>1. TypeOK'
    BY <1>1, <1>9, BoundsAssumption DEF MarkFailed, TypeOK, Working
  <2>2. \A q \in Reports \ {r} : Same(q)
    BY <1>1, <1>9 DEF MarkFailed, TypeOK, Same
  <2>3. Progress(r)'
    BY <1>1, <1>2, <1>9 DEF MarkFailed, TypeOK, Progress, Working
  <2>4. QED
    BY <1>9, <2>1, <2>2, <2>3, OneReport DEF MarkFailed
<1>10. QED
  BY <1>3, <1>4, <1>5, <1>6, <1>7, <1>8, <1>9 DEF Generate

(* A failed step leaves the row as it was, or, of a failed report, says so; a  *)
(* stream writes what it was handed.                                           *)
LEMMA FaultIInv == ASSUME IInv, NEW r \in Reports, Fault(r) \/ Flush(r) PROVE IInv'
<1> USE DEF Go, rowVars, dataVars, cronVars
<1>1. TypeOK /\ Progress(r)
  BY DEF IInv
<1>2. CASE MarkFails(r) \/ MarkFailedFails(r) \/ ReadyUnacknowledged(r)
  <2>1. TypeOK' /\ UNCHANGED usage
    BY <1>1, <1>2 DEF MarkFails, MarkFailedFails, Stopped, ReadyUnacknowledged, TypeOK, Working
  <2>2. \A q \in Reports \ {r} : Same(q)
    BY <1>1, <1>2 DEF MarkFails, MarkFailedFails, ReadyUnacknowledged, TypeOK, Same
  <2>3. Progress(r)'
    <3>1. CASE MarkFails(r)
      BY <1>1, <3>1 DEF MarkFails, TypeOK, Progress, Working
    <3>2. CASE MarkFailedFails(r)
      BY <1>1, <3>2 DEF MarkFailedFails, Stopped, TypeOK, Progress, Working
    <3>3. CASE ReadyUnacknowledged(r)
      BY <1>1, <3>3 DEF ReadyUnacknowledged, TypeOK, Progress, Working
    <3>4. QED
      BY <1>2, <3>1, <3>2, <3>3
  <2>4. QED
    BY <2>1, <2>2, <2>3, OneReport
<1>3. CASE Throw(r)
  <2>1. TypeOK' /\ UNCHANGED usage
    BY <1>1, <1>3, BoundsAssumption DEF Throw, TypeOK, Working
  <2>2. \A q \in Reports \ {r} : Same(q)
    BY <1>1, <1>3 DEF Throw, TypeOK, Same
  <2>3. Progress(r)'
    BY <1>1, <1>3 DEF Throw, TypeOK, Progress, Working
  <2>4. QED
    BY <2>1, <2>2, <2>3, OneReport
<1>4. CASE WriteFailsLate(r) \/ Flush(r)
  <2>1. TypeOK' /\ UNCHANGED usage
    BY <1>1, <1>4 DEF WriteFailsLate, Flush, TypeOK
  <2>2. \A q \in Reports \ {r} : Same(q)
    BY <1>1, <1>4 DEF WriteFailsLate, Flush, TypeOK, Same
  <2>3. Progress(r)'
    BY <1>1, <1>4 DEF WriteFailsLate, Flush, TypeOK, Progress, Current, Working
  <2>4. QED
    BY <2>1, <2>2, <2>3, OneReport
<1>5. QED
  BY <1>2, <1>3, <1>4 DEF Fault

(* A death takes what the generators read; the rows stay, and what they tell.  *)
LEMMA CrashIInv == ASSUME IInv, Crash PROVE IInv'
<1>1. TypeOK /\ \A r \in Reports : Progress(r)
  BY DEF IInv
<1>2. /\ UNCHANGED <<usage, status, org, format, least, fired, reached>>
      /\ crashes < MaxCrashes /\ crashes' = crashes + 1 /\ monthly' = {} /\ current' = "none"
      /\ pc' = [r \in Reports |-> IF Live(r) THEN Stopped(r) ELSE pc[r]]
      /\ shown' = [r \in Reports |-> IF Unfinished(r) THEN 0 ELSE shown[r]]
      /\ total' = [r \in Reports |-> IF Unfinished(r) THEN 0 ELSE total[r]]
  BY DEF Crash, rowVars
<1>3. PICK kept \in BOOLEAN :
         file' = [r \in Reports |-> IF ~kept \/ Unfinished(r) THEN "none"
                                    ELSE IF file[r] = "part" THEN "cut" ELSE file[r]]
  BY DEF Crash
<1>4. TypeOK'
  <2>1. crashes' \in 0..MaxCrashes
    BY <1>1, <1>2, BoundsAssumption DEF TypeOK
  <2>2. /\ shown' \in [Reports -> 0..MaxUsage] /\ total' \in [Reports -> 0..MaxUsage]
        /\ pc' \in [Reports -> Working \cup {"none", "done", "gone"}]
    BY <1>1, <1>2, BoundsAssumption DEF TypeOK, Stopped
  <2>3. file' \in [Reports -> {"none", "part", "whole", "cut"}]
    BY <1>1, <1>3 DEF TypeOK
  <2>4. QED
    BY <1>1, <1>2, <2>1, <2>2, <2>3 DEF TypeOK
<1>5. Usage'
  BY <1>2 DEF IInv, Usage, Recorded
<1>6. ASSUME NEW r \in Reports PROVE Progress(r)'
  <2>1. CASE Unfinished(r)
    <3>1. pc'[r] = "gone" /\ shown'[r] = 0 /\ total'[r] = 0
      BY <1>2, <2>1 DEF Unfinished, Stopped
    <3>2. status[r] \notin {"none", "ready"}
      BY <1>1, <2>1 DEF Progress, Unfinished, Live, Working
    <3>3. QED
      BY <1>1, <1>2, <3>1, <3>2 DEF Progress, Working
  <2>2. CASE ~Unfinished(r)
    <3>1. /\ shown'[r] = shown[r] /\ total'[r] = total[r] /\ status'[r] = status[r]
          /\ \/ ~Live(r) /\ pc'[r] = pc[r]
             \/ status[r] = "ready" /\ pc'[r] = "done"
      BY <1>2, <2>2 DEF Unfinished, Stopped
    <3>2. file[r] = "none" => file'[r] = "none"
      BY <1>3
    <3>3. QED
      BY <1>1, <1>2, <3>1, <3>2 DEF Progress, Live, Working
  <2>3. QED
    BY <2>1, <2>2
<1>7. QED
  BY <1>4, <1>5, <1>6 DEF IInv

(* The monthly run inserts a row or moves on.                                  *)
LEMMA QuietIInv ==
    ASSUME IInv, UNCHANGED <<usage, rowVars, file, pc, dataVars>>,
           monthly' \subseteq Orgs, current' \in Orgs \cup {"none"}, fired' \in BOOLEAN,
           reached' \subseteq Orgs, UNCHANGED crashes
    PROVE  IInv'
<1>1. TypeOK'
  BY DEF IInv, TypeOK, rowVars, dataVars
<1>2. Usage'
  BY DEF IInv, Usage, Recorded
<1>3. \A r \in Reports : Progress(r)'
  BY DEF IInv, Progress, Current, rowVars, dataVars
<1>4. QED
  BY <1>1, <1>2, <1>3 DEF IInv

LEMMA MonthlyIInv == ASSUME IInv, Monthly PROVE IInv'
<1>1. monthly \subseteq Orgs /\ current \in Orgs \cup {"none"} /\ reached \subseteq Orgs /\ fired \in BOOLEAN
  BY DEF IInv, TypeOK
<1>2. CASE FireMonthly \/ OrgDone
  BY <1>1, <1>2, QuietIInv DEF FireMonthly, OrgDone
<1>3. ASSUME NEW o \in Orgs, NextOrg(o) PROVE IInv'
  <2>1. /\ monthly' \subseteq Orgs /\ reached' \subseteq Orgs /\ o \in Reports
        /\ UNCHANGED <<usage, file, dataVars, fired, crashes>>
    BY <1>1, <1>3 DEF NextOrg, Reports
  <2>2. CASE InsertRow(o, o, "pdf") /\ current' = o
    BY <2>1, <2>2, InsertProgress DEF dataVars
  <2>3. CASE UNCHANGED <<rowVars, pc, current>>
    BY <1>1, <2>1, <2>3, QuietIInv
  <2>4. QED
    BY <1>3, <2>2, <2>3 DEF NextOrg
<1>4. QED
  BY <1>2, <1>3 DEF Monthly

LEMMA NextIInv == IInv /\ [Next]_vars => IInv'
<1> SUFFICES ASSUME IInv, [Next]_vars PROVE IInv'
  OBVIOUS
<1>1. CASE Next
  BY <1>1, UseIInv, AskIInv, GenerateIInv, FaultIInv, CrashIInv, MonthlyIInv DEF Next
<1>2. CASE UNCHANGED vars
  <2>1. /\ UNCHANGED <<usage, rowVars, file, pc, dataVars>>
        /\ UNCHANGED <<monthly, current, fired, reached, crashes>>
    BY <1>2 DEF vars, cronVars
  <2>2. QED
    BY <2>1, QuietIInv DEF IInv, TypeOK
<1>3. QED
  BY <1>1, <1>2

LEMMA Invariance == Spec => []IInv
<1>1. QED
  BY InitIInv, NextIInv, PTL DEF Spec

---------------------------------------------------------------------------------
(* Every variable keeps its type: no document shows or totals more usage than  *)
(* was ever recorded.                                                          *)
THEOREM TypeCorrect == Spec => []TypeOK
<1>1. IInv => TypeOK
  BY DEF IInv
<1>2. QED
  BY <1>1, Invariance, PTL

(* A ready document is consistent: a PDF's rows add up to no more than its     *)
(* totals, a CSV has every row of its snapshot, whatever usage is recorded     *)
(* while it is made and for every size of a FETCH (pdf.ts, csv.ts).            *)
THEOREM DocumentsWhole == Spec => []DocumentConsistent
<1>1. IInv => DocumentConsistent
  BY DEF IInv, Progress, DocumentConsistent
<1>2. QED
  BY <1>1, Invariance, PTL

---------------------------------------------------------------------------------
(* The monthly run. That it comes to nobody twice needs that it has nobody     *)
(* before or behind it until its schedule fires.                               *)
InTurn == MonthlyInTurn /\ (~fired => reached = {} /\ monthly = {})

(* The generators and what becomes of files start no report and leave the run  *)
(* alone.                                                                      *)
LEMMA GeneratorsInTurn ==
    ASSUME IInv, InTurn, NEW r \in Reports, Generate(r) \/ Fault(r) \/ Flush(r)
    PROVE  InTurn'
<1>1. UNCHANGED cronVars
  BY DEF Generate, MarkGenerating, FirstQuery, SecondQuery, RenderPDF, OpenCursor,
         Fetch, MarkReady, MarkFailed, Fault, MarkFails, Throw, ReadyUnacknowledged,
         MarkFailedFails, WriteFailsLate, Flush
<1>2. \A o \in Reports : Live(o)' => Live(o)
  <2>1. \/ UNCHANGED pc
        \/ pc[r] \in Working /\ \E label : pc' = [pc EXCEPT ![r] = label]
    BY DEF Generate, MarkGenerating, FirstQuery, SecondQuery, Query, RenderPDF,
           OpenCursor, Fetch, MarkReady, MarkFailed, Fault, MarkFails, Throw,
           ReadyUnacknowledged, MarkFailedFails, WriteFailsLate, Flush, Go, PDFQueries, Working
  <2>2. QED
    BY <2>1 DEF IInv, TypeOK, Live
<1>3. QED
  BY <1>1, <1>2 DEF InTurn, MonthlyInTurn, cronVars, Reports

(* In every reachable state the monthly run is in turn: the loop's await makes *)
(* the next report wait for the last (cron.ts:50-66).                          *)
THEOREM MonthlyOneByOne == Spec => []MonthlyInTurn
<1>1. Init => InTurn
  BY DEF Init, InTurn, MonthlyInTurn, Live, Working, Reports
<1>2. IInv /\ InTurn /\ [Next]_vars => InTurn'
  <2> SUFFICES ASSUME IInv, InTurn, [Next]_vars PROVE InTurn'
    OBVIOUS
  <2> USE DEF InTurn, MonthlyInTurn
  <2>1. CASE UNCHANGED vars
    BY <2>1 DEF vars, rowVars, cronVars, dataVars, Live
  <2>2. ASSUME NEW o \in Orgs, Use(o) PROVE InTurn'
    BY <2>2 DEF Use, cronVars, Live
  <2>3. ASSUME NEW r \in Asked, NEW o \in Orgs, NEW f \in AskedFormats,
               AskReport(r, o, f)
        PROVE  InTurn'
    <3>1. r \notin Orgs /\ \A q \in Orgs : pc'[q] = pc[q]
      BY <2>3, ReportsAssumption
      DEF AskReport, InsertRow, Go, IInv, TypeOK, Reports
    <3>2. QED
      BY <2>3, <3>1 DEF AskReport, cronVars, Live
  <2>4. CASE \E r \in Reports : Generate(r) \/ Fault(r) \/ Flush(r)
    BY <2>4, GeneratorsInTurn
  <2>5. CASE Crash
    BY <2>5 DEF Crash, Stopped, Live, Working, Reports
  <2>6. CASE FireMonthly
    BY <2>6 DEF FireMonthly, rowVars, dataVars, Live
  <2>7. CASE OrgDone
    BY <2>7 DEF OrgDone, rowVars, dataVars, Live
  <2>8. ASSUME NEW o \in Orgs, NextOrg(o) PROVE InTurn'
    <3>1. \A q \in Orgs : ~Live(q)
      BY <2>8, ReportsAssumption DEF NextOrg
    <3>2. \A q \in Orgs \ {o} : pc'[q] = pc[q]
      BY <2>8 DEF NextOrg, InsertRow, Go, IInv, TypeOK, Reports
    <3>3. Live(o)' => current' = o
      BY <2>8, <3>1 DEF NextOrg, Live
    <3>4. monthly' \cap reached' = {} /\ fired /\ fired'
      BY <2>8 DEF NextOrg
    <3>5. \A q \in Orgs : Live(q)' => current' = q
      BY <3>1, <3>2, <3>3 DEF Live
    <3>6. QED
      BY <3>4, <3>5
  <2>9. QED
    BY <2>1, <2>2, <2>3, <2>4, <2>5, <2>6, <2>7, <2>8 DEF Next, Monthly
<1>3. InTurn => MonthlyInTurn
  BY DEF InTurn
<1>4. QED
  BY <1>1, <1>2, <1>3, Invariance, PTL DEF Spec

---------------------------------------------------------------------------------
(* The refinement: what a client learns by polling is the ledger.              *)

(* The phase of a report is what its row and its file make of it.              *)
PhaseOf(row, document) ==
    IF row = "none" THEN "absent"
    ELSE IF row = "failed" THEN "refused"
    ELSE IF row # "ready" THEN "wanted"
    ELSE IF document = "none" THEN "expired" ELSE "available"

Phase == [r \in Reports |-> SeenPhase(r)]
Open == {r \in Reports : status[r] = "ready" /\ pc[r] = "catch"}
Told == [r \in Reports |-> IF status[r] = "ready" THEN total[r] ELSE 0]

LEMMA SeenIsPhase ==
    ASSUME TypeOK, TypeOK', NEW r \in Reports
    PROVE  /\ SeenPhase(r) = PhaseOf(status[r], file[r])
           /\ SeenPhase(r)' = PhaseOf(status'[r], file'[r])
<1>1. /\ status[r] \in {"none", "pending", "generating", "ready", "failed"}
      /\ status'[r] \in {"none", "pending", "generating", "ready", "failed"}
  BY DEF TypeOK
<1>2. SeenPhase(r) = PhaseOf(status[r], file[r])
  <2>1. CASE status[r] = "none"
    BY <2>1 DEF SeenPhase, Answer, Download, Listed, PhaseOf
  <2>2. CASE status[r] \in {"pending", "generating", "failed"}
    BY <2>2 DEF SeenPhase, Answer, Download, Listed, PhaseOf
  <2>3. CASE status[r] = "ready" /\ file[r] = "none"
    BY <2>3 DEF SeenPhase, Answer, Download, Listed, PhaseOf
  <2>4. CASE status[r] = "ready" /\ file[r] # "none"
    BY <2>4 DEF SeenPhase, Answer, Download, Listed, PhaseOf
  <2>5. QED
    BY <1>1, <2>1, <2>2, <2>3, <2>4
<1>3. SeenPhase(r)' = PhaseOf(status'[r], file'[r])
  <2>1. CASE status'[r] = "none"
    BY <2>1 DEF SeenPhase, Answer, Download, Listed, PhaseOf
  <2>2. CASE status'[r] \in {"pending", "generating", "failed"}
    BY <2>2 DEF SeenPhase, Answer, Download, Listed, PhaseOf
  <2>3. CASE status'[r] = "ready" /\ file'[r] = "none"
    BY <2>3 DEF SeenPhase, Answer, Download, Listed, PhaseOf
  <2>4. CASE status'[r] = "ready" /\ file'[r] # "none"
    BY <2>4 DEF SeenPhase, Answer, Download, Listed, PhaseOf
  <2>5. QED
    BY <1>1, <2>1, <2>2, <2>3, <2>4
<1>4. QED
  BY <1>2, <1>3

LEMMA InitLedger == Init => Ledger!Init
<1> SUFFICES ASSUME Init PROVE Ledger!Init
  OBVIOUS
<1>1. \A r \in Reports : SeenPhase(r) = "absent"
  BY DEF Init, SeenPhase, Answer, Download, Listed
<1>2. org \in [Reports -> Orgs]
  BY ReportsAssumption DEF Init
<1>3. QED
  BY <1>1, <1>2 DEF Init, Ledger!Init

(* A step that changes no phase and no total of a ready report is none of the  *)
(* ledger's.                                                                   *)
LEMMA PhaseStays ==
    ASSUME TypeOK, TypeOK',
           \A r \in Reports : PhaseOf(status'[r], file'[r]) = PhaseOf(status[r], file[r]),
           \A r \in Reports : status'[r] = "ready" <=> status[r] = "ready",
           \A r \in Reports : status[r] = "ready" => total'[r] = total[r]
    PROVE  UNCHANGED <<Phase, Told>>
<1>1. \A r \in Reports : SeenPhase(r)' = SeenPhase(r)
  BY SeenIsPhase
<1>2. QED
  BY <1>1 DEF Phase, Told

(* A report is open as long as its row and its generator say so.               *)
LEMMA OpenStays ==
    ASSUME \A r \in Reports : status'[r] = "ready" <=> status[r] = "ready",
           \A r \in Reports : status[r] = "ready" => (pc'[r] = "catch" <=> pc[r] = "catch")
    PROVE  UNCHANGED Open
  BY DEF Open

(* A report that becomes wanted, available or refused leaves the others be.    *)
LEMMA PhaseOfOne ==
    ASSUME TypeOK, TypeOK', NEW r \in Reports, NEW p,
           PhaseOf(status'[r], file'[r]) = p,
           \A q \in Reports \ {r} : status'[q] = status[q] /\ file'[q] = file[q] /\ total'[q] = total[q]
    PROVE  /\ Phase' = [Phase EXCEPT ![r] = p]
           /\ Told' = [Told EXCEPT ![r] = IF status'[r] = "ready" THEN total'[r] ELSE 0]
           /\ Phase[r] = PhaseOf(status[r], file[r])
<1>1. /\ \A q \in Reports \ {r} : SeenPhase(q)' = SeenPhase(q)
      /\ SeenPhase(r)' = p /\ SeenPhase(r) = PhaseOf(status[r], file[r])
  BY SeenIsPhase
<1>2. QED
  BY <1>1 DEF Phase, Told

LEMMA WantStep ==
    ASSUME IInv, IInv', NEW r \in Reports, NEW o \in Orgs, NEW f, InsertRow(r, o, f),
           UNCHANGED <<usage, file, total>>
    PROVE  Ledger!Want(r, o)
<1>1. TypeOK /\ TypeOK'
  BY DEF IInv
<1>2. /\ status[r] = "none" /\ status' = [status EXCEPT ![r] = "pending"]
      /\ org' = [org EXCEPT ![r] = o] /\ least' = [least EXCEPT ![r] = usage[o]]
      /\ status'[r] = "pending"
  BY <1>1 DEF InsertRow, TypeOK
<1>3. PhaseOf(status'[r], file'[r]) = "wanted" /\ PhaseOf(status[r], file[r]) = "absent"
  BY <1>2 DEF PhaseOf
<1>4. \A q \in Reports \ {r} : status'[q] = status[q] /\ file'[q] = file[q] /\ total'[q] = total[q]
  BY <1>1, <1>2 DEF TypeOK
<1>5. Phase' = [Phase EXCEPT ![r] = "wanted"] /\ Phase[r] = "absent"
  BY <1>1, <1>3, <1>4, PhaseOfOne
<1>6. Told' = Told
  BY <1>2, <1>4 DEF Told
<1>7. Open' = Open
  BY <1>1, <1>2 DEF InsertRow, Go, Open, TypeOK
<1>8. QED
  BY <1>2, <1>5, <1>6, <1>7 DEF Ledger!Want, Phase, Open, Told

(* What an available report tells is the total it read on its way; without the *)
(* answer to its last UPDATE its generator leaves it open.                     *)
LEMMA ProvideStep ==
    ASSUME IInv, IInv', NEW r \in Reports, MarkReady(r) \/ ReadyUnacknowledged(r)
    PROVE  Ledger!Provide(r)
<1>1. TypeOK /\ TypeOK' /\ Progress(r)
  BY DEF IInv
<1>2. /\ pc[r] = "finish" /\ status' = [status EXCEPT ![r] = "ready"] /\ status'[r] = "ready"
      /\ UNCHANGED <<usage, org, least, file, total>>
      /\ pc' = [pc EXCEPT ![r] = "done"] \/ pc' = [pc EXCEPT ![r] = "catch"]
  BY <1>1 DEF MarkReady, ReadyUnacknowledged, Go, dataVars, TypeOK
<1>3. status[r] = "generating" /\ Current(r, total[r]) /\ file[r] # "none"
  BY <1>1, <1>2 DEF Progress, Working
<1>4. PhaseOf(status'[r], file'[r]) = "available" /\ PhaseOf(status[r], file[r]) = "wanted"
  BY <1>2, <1>3 DEF PhaseOf
<1>5. \A q \in Reports \ {r} : status'[q] = status[q] /\ file'[q] = file[q] /\ total'[q] = total[q]
  BY <1>1, <1>2 DEF TypeOK
<1>6. /\ Phase' = [Phase EXCEPT ![r] = "available"] /\ Phase[r] = "wanted"
      /\ Told' = [Told EXCEPT ![r] = total[r]]
  BY <1>1, <1>2, <1>4, <1>5, PhaseOfOne
<1>7. \E n \in least[r]..usage[org[r]] : Told' = [Told EXCEPT ![r] = n]
  BY <1>3, <1>6 DEF Current
<1>8. Open' = Open \/ Open' = Open \cup {r}
  <2>1. /\ \A q \in Reports \ {r} : status'[q] = status[q] /\ pc'[q] = pc[q]
        /\ status[r] # "ready" /\ pc'[r] \in {"done", "catch"}
    BY <1>1, <1>2, <1>3 DEF TypeOK
  <2>2. QED
    BY <1>2, <2>1 DEF Open
<1>9. QED
  BY <1>2, <1>6, <1>7, <1>8 DEF Ledger!Provide, Phase, Open, Told

(* The catch refuses a report that is wanted, and withdraws one that is open.  *)
LEMMA RefuseStep ==
    ASSUME IInv, IInv', NEW r \in Reports, MarkFailed(r)
    PROVE  Ledger!Refuse(r) \/ Ledger!Withdraw(r)
<1>1. TypeOK /\ TypeOK' /\ Progress(r)
  BY DEF IInv
<1>2. /\ pc[r] = "catch" /\ status' = [status EXCEPT ![r] = "failed"] /\ status'[r] = "failed"
      /\ pc' = [pc EXCEPT ![r] = "done"] /\ total' = [total EXCEPT ![r] = 0]
      /\ file' = [file EXCEPT ![r] = "none"] /\ UNCHANGED <<usage, org, least>>
  BY <1>1 DEF MarkFailed, Go, TypeOK
<1>3. \A q \in Reports \ {r} : /\ status'[q] = status[q] /\ file'[q] = file[q]
                              /\ total'[q] = total[q] /\ pc'[q] = pc[q]
  BY <1>1, <1>2 DEF TypeOK
<1>4. PhaseOf(status'[r], file'[r]) = "refused"
  BY <1>2 DEF PhaseOf
<1>5. /\ Phase' = [Phase EXCEPT ![r] = "refused"] /\ Phase[r] = PhaseOf(status[r], file[r])
      /\ Told' = [Told EXCEPT ![r] = 0]
  BY <1>1, <1>2, <1>3, <1>4, PhaseOfOne
<1>6. CASE status[r] = "generating"
  <2>1. Phase[r] = "wanted"
    BY <1>5, <1>6 DEF PhaseOf
  <2>2. Told' = Told /\ Open' = Open
    BY <1>2, <1>3, <1>6 DEF Told, Open
  <2>3. Ledger!Refuse(r)
    BY <1>2, <1>5, <2>1, <2>2 DEF Ledger!Refuse, Phase, Open, Told
  <2>4. QED
    BY <2>3
<1>7. CASE status[r] = "ready"
  <2>1. r \in Open /\ Open' = Open \ {r}
    BY <1>2, <1>3, <1>7 DEF Open
  <2>2. Ledger!Withdraw(r)
    BY <1>2, <1>5, <2>1 DEF Ledger!Withdraw, Phase, Open, Told
  <2>3. QED
    BY <2>2
<1>8. QED
  BY <1>1, <1>2, <1>6, <1>7 DEF Progress

(* With the catch's UPDATE not made, an open report stays available for good.  *)
LEMMA CloseStep ==
    ASSUME IInv, IInv', NEW r \in Reports, MarkFailedFails(r)
    PROVE  Ledger!Close
<1>1. TypeOK /\ TypeOK' /\ UNCHANGED <<usage, status, org, least, file, total>>
  BY DEF IInv, MarkFailedFails, rowVars, dataVars
<1>2. UNCHANGED <<Phase, Told>>
  BY <1>1, PhaseStays
<1>3. Open' \in SUBSET Open
  <2>1. \A q \in Reports : pc'[q] = "catch" => pc[q] = "catch"
    BY <1>1 DEF MarkFailedFails, Go, Stopped, TypeOK
  <2>2. QED
    BY <1>1, <2>1 DEF Open
<1>4. QED
  BY <1>1, <1>2, <1>3 DEF Ledger!Close, Phase, Open, Told

(* A death in a new pod expires what was available; in the old one the files   *)
(* of finished reports stay, be they cut.                                      *)
LEMMA ExpireStep ==
    ASSUME IInv, IInv', Crash
    PROVE  Ledger!Expire \/ Ledger!Close
<1>1. TypeOK /\ TypeOK' /\ \A r \in Reports : Progress(r)
  BY DEF IInv
<1>2. /\ UNCHANGED <<usage, status, org, least>>
      /\ pc' = [r \in Reports |-> IF Live(r) THEN Stopped(r) ELSE pc[r]]
      /\ total' = [r \in Reports |-> IF Unfinished(r) THEN 0 ELSE total[r]]
  BY DEF Crash, rowVars
<1>3. PICK kept \in BOOLEAN :
         file' = [r \in Reports |-> IF ~kept \/ Unfinished(r) THEN "none"
                                    ELSE IF file[r] = "part" THEN "cut" ELSE file[r]]
  BY DEF Crash
<1>4. \A r \in Reports : status[r] = "ready" => ~Unfinished(r) /\ total'[r] = total[r]
  BY <1>2 DEF Unfinished
<1>5. Told' = Told /\ Open' = {} /\ Open' \in SUBSET Open
  <2>1. \A r \in Reports : pc'[r] # "catch"
    BY <1>2 DEF Live, Stopped, Working
  <2>2. QED
    BY <1>2, <1>4, <2>1 DEF Told, Open
<1>6. CASE kept
  <2>1. \A r \in Reports : status[r] = "ready" => (file'[r] = "none" <=> file[r] = "none")
    BY <1>3, <1>4, <1>6
  <2>2. \A r \in Reports : PhaseOf(status'[r], file'[r]) = PhaseOf(status[r], file[r])
    BY <1>2, <2>1 DEF PhaseOf
  <2>3. Phase' = Phase
    BY <1>1, <1>2, <1>4, <2>2, PhaseStays
  <2>4. Ledger!Close
    BY <1>2, <1>5, <2>3 DEF Ledger!Close, Phase, Open, Told
  <2>5. QED
    BY <2>4
<1>7. CASE ~kept
  <2>1. \A r \in Reports : file'[r] = "none"
    BY <1>3, <1>7
  <2>2. ASSUME NEW r \in Reports
        PROVE  SeenPhase(r)' = IF SeenPhase(r) = "available" THEN "expired" ELSE SeenPhase(r)
    <3>1. /\ SeenPhase(r)' = PhaseOf(status[r], "none")
          /\ SeenPhase(r) = PhaseOf(status[r], file[r])
      BY <1>1, <1>2, <2>1, SeenIsPhase
    <3>2. QED
      BY <3>1 DEF PhaseOf
  <2>3. Ledger!Expire
    BY <1>2, <1>5, <2>2 DEF Ledger!Expire, Open, Told
  <2>4. QED
    BY <2>3
<1>8. QED
  BY <1>6, <1>7

(* What a generator does before its last step is not seen.                     *)
LEMMA QuietStep ==
    ASSUME IInv, IInv', NEW r \in Reports,
           \/ MarkGenerating(r) \/ FirstQuery(r) \/ SecondQuery(r) \/ OpenCursor(r) \/ Fetch(r)
           \/ MarkFails(r) \/ Throw(r) \/ WriteFailsLate(r) \/ Flush(r)
    PROVE  UNCHANGED <<usage, Phase, Open, org, least, Told>>
<1> USE DEF rowVars, dataVars
<1>1. TypeOK /\ TypeOK' /\ Progress(r)
  BY DEF IInv
<1>2. UNCHANGED <<usage, org, least>>
  BY DEF MarkGenerating, FirstQuery, SecondQuery, OpenCursor, Fetch, MarkFails, Throw,
         WriteFailsLate, Flush
<1>3. CASE MarkGenerating(r) \/ MarkFails(r)
  <2>1. /\ status[r] = "pending" /\ UNCHANGED <<file, total>>
        /\ status' \in {status, [status EXCEPT ![r] = "generating"]}
        /\ \A q \in Reports \ {r} : pc'[q] = pc[q]
    BY <1>1, <1>3 DEF MarkGenerating, MarkFails, Go, Progress, TypeOK
  <2>2. \A q \in Reports : /\ PhaseOf(status'[q], file'[q]) = PhaseOf(status[q], file[q])
                           /\ status'[q] = "ready" <=> status[q] = "ready"
    BY <1>1, <2>1 DEF PhaseOf, TypeOK
  <2>3. UNCHANGED Open
    BY <2>1, <2>2, OpenStays
  <2>4. QED
    BY <1>1, <1>2, <2>1, <2>2, <2>3, PhaseStays
<1>4. CASE FirstQuery(r) \/ SecondQuery(r) \/ OpenCursor(r) \/ Fetch(r) \/ Throw(r)
  <2>1. UNCHANGED status
    BY <1>4 DEF FirstQuery, SecondQuery, OpenCursor, Fetch, Throw
  <2>2. status[r] # "ready" /\ status[r] # "none"
    BY <1>1, <1>4
    DEF FirstQuery, SecondQuery, Query, PDFQueries, OpenCursor, Fetch, Throw, Progress, Working
  <2>3. \A q \in Reports \ {r} : file'[q] = file[q] /\ total'[q] = total[q] /\ pc'[q] = pc[q]
    BY <1>1, <1>4
    DEF FirstQuery, SecondQuery, Query, RenderPDF, OpenCursor, Fetch, Throw, Go, TypeOK
  <2>4. \A q \in Reports : PhaseOf(status'[q], file'[q]) = PhaseOf(status[q], file[q])
    BY <2>1, <2>2, <2>3 DEF PhaseOf
  <2>5. UNCHANGED Open
    BY <2>1, <2>2, <2>3, OpenStays
  <2>6. QED
    BY <1>1, <1>2, <2>1, <2>2, <2>3, <2>4, <2>5, PhaseStays
<1>5. CASE WriteFailsLate(r) \/ Flush(r)
  <2>1. /\ UNCHANGED <<status, pc, total>>
        /\ \A q \in Reports : file'[q] = "none" <=> file[q] = "none"
    BY <1>1, <1>5 DEF WriteFailsLate, Flush, TypeOK
  <2>2. \A q \in Reports : PhaseOf(status'[q], file'[q]) = PhaseOf(status[q], file[q])
    BY <2>1 DEF PhaseOf
  <2>3. UNCHANGED Open
    BY <2>1, OpenStays
  <2>4. QED
    BY <1>1, <1>2, <2>1, <2>2, <2>3, PhaseStays
<1>6. QED
  BY <1>3, <1>4, <1>5

(* Rows, files, crashes and failures implement the ledger, for every set of    *)
(* organizations and reports: a report is wanted, then available or refused,   *)
(* tells the usage of its organization at an instant since it was asked for,   *)
(* and only one that its generator took for failed can still be withdrawn.     *)
THEOREM LedgerImplemented == Spec => ImplementsLedger
<1>1. IInv /\ IInv' /\ [Next]_vars => [Ledger!Next]_(Ledger!ledgerVars)
  <2> SUFFICES ASSUME IInv, IInv', [Next]_vars
               PROVE  Ledger!Next \/ UNCHANGED <<usage, Phase, Open, org, least, Told>>
    BY DEF Ledger!ledgerVars, Phase, Open, Told
  <2>1. TypeOK /\ TypeOK'
    BY DEF IInv
  <2>2. CASE UNCHANGED <<usage, status, org, least, file, pc, total>>
    BY <2>1, <2>2, PhaseStays, OpenStays
  <2>3. ASSUME NEW o \in Orgs, Use(o) PROVE Ledger!Next
    <3>1. UNCHANGED <<status, org, least, file, pc, total>> /\ usage' = [usage EXCEPT ![o] = @ + 1]
      BY <2>3 DEF Use, rowVars, dataVars
    <3>2. UNCHANGED <<Phase, Open, Told>>
      BY <2>1, <3>1, PhaseStays, OpenStays
    <3>3. Ledger!Use(o)
      BY <3>1, <3>2 DEF Ledger!Use, Phase, Open, Told
    <3>4. QED
      BY <3>3 DEF Ledger!Next
  <2>4. ASSUME NEW r \in Asked, NEW o \in Orgs, NEW f \in AskedFormats, AskReport(r, o, f)
        PROVE  Ledger!Next
    <3>1. r \in Reports /\ InsertRow(r, o, f) /\ UNCHANGED <<usage, file, total>>
      BY <2>4 DEF AskReport, dataVars, Reports
    <3>2. Ledger!Want(r, o)
      BY <3>1, WantStep
    <3>3. QED
      BY <3>1, <3>2 DEF Ledger!Next
  <2>5. ASSUME NEW r \in Reports, Generate(r) \/ Fault(r) \/ Flush(r)
        PROVE  Ledger!Next \/ UNCHANGED <<usage, Phase, Open, org, least, Told>>
    <3>1. CASE MarkReady(r) \/ ReadyUnacknowledged(r)
      BY <3>1, ProvideStep DEF Ledger!Next
    <3>2. CASE MarkFailed(r)
      BY <3>2, RefuseStep DEF Ledger!Next
    <3>3. CASE MarkFailedFails(r)
      BY <3>3, CloseStep DEF Ledger!Next
    <3>4. QED
      BY <2>5, <3>1, <3>2, <3>3, QuietStep DEF Generate, Fault
  <2>6. CASE Crash
    BY <2>6, ExpireStep DEF Ledger!Next
  <2>7. CASE Monthly
    <3>1. CASE FireMonthly \/ OrgDone
      BY <2>2, <3>1 DEF FireMonthly, OrgDone, rowVars, dataVars
    <3>2. ASSUME NEW o \in Orgs, NextOrg(o)
          PROVE  Ledger!Next \/ UNCHANGED <<usage, Phase, Open, org, least, Told>>
      <4>1. UNCHANGED <<usage, file, total>> /\ o \in Reports
        BY <3>2 DEF NextOrg, dataVars, Reports
      <4>2. CASE InsertRow(o, o, "pdf")
        <5>1. Ledger!Want(o, o)
          BY <4>1, <4>2, WantStep
        <5>2. QED
          BY <4>1, <5>1 DEF Ledger!Next
      <4>3. CASE UNCHANGED <<rowVars, pc>>
        BY <2>2, <4>1, <4>3 DEF rowVars
      <4>4. QED
        BY <3>2, <4>2, <4>3 DEF NextOrg
    <3>3. QED
      BY <2>7, <3>1, <3>2 DEF Monthly
  <2>8. CASE UNCHANGED vars
    BY <2>2, <2>8 DEF vars, rowVars, dataVars
  <2>9. QED
    BY <2>3, <2>4, <2>5, <2>6, <2>7, <2>8 DEF Next
<1>2. QED
  BY InitLedger, <1>1, Invariance, PTL DEF Spec, ImplementsLedger, Ledger!Spec

---------------------------------------------------------------------------------
(* The key vault. Its inductive invariant:                                     *)

InLog(q) == q \in rotated[req[q].key]

(* What a request knows of the table: its key is there unless the request has  *)
(* yet to create it, and its answer is kept.                                   *)
Local(q) ==
    /\ req[q].pc = "new" <=> req[q].op = "none"
    /\ req[q].op # "create" \/ req[q].pc = "store" => key[q].state = "none"
    /\ req[q].op = "create" => req[q].key = q
    /\ req[q].op \in {"rotate", "delete"} => req[q].key \in Keys
    /\ req[q].pc = "read" => req[q].op = "create" /\ key[q].state # "none"
    /\ req[q].pc \in {"begin", "log", "commit"} => req[q].op = "rotate"
    /\ req[q].answer # 0 => req[q].pc = "done"
    /\ req[q].answer = 201 => req[q].op = "create" /\ key[q].state # "none"
    /\ req[q].answer = 200 => req[q].op = "rotate" /\ InLog(q)
    /\ req[q].answer = 204 /\ req[q].own =>
          req[q].op = "delete" /\ key[req[q].key].state = "inactive"

(* The log names only rotations of the key that are over, so that whether one  *)
(* of them changed the key is settled.                                         *)
LogTold ==
    \A k \in Ids : \A q \in rotated[k] :
        req[q].op = "rotate" /\ req[q].pc = "done" /\ req[q].key = k

(* What a rotation saw in the log at its BEGIN is over too: the secret that is *)
(* being stored is one that no rotation in the log has seen.                   *)
SeenTold == \A p \in Requests : \A q \in seen[p] : req[q].pc = "done"

LogInv == LogTold /\ SeenTold /\ SecretMatchesLog

(* A transaction past its UPDATE has the row, and nobody else does.            *)
Rotating(q) == req[q].pc \in {"log", "commit"} /\ req[q].own

RowsHeld ==
    \A k \in Ids, q \in Requests : lock[k] = q <=> Rotating(q) /\ req[q].key = k

VaultInv ==
    /\ VaultOK
    /\ \A q \in Requests : Local(q)
    /\ LogInv
    /\ RowsHeld

---------------------------------------------------------------------------------
LEMMA InitVaultInv == VaultInit => VaultInv
<1> SUFFICES ASSUME VaultInit PROVE VaultInv
  OBVIOUS
<1>1. VaultOK
  BY EmptySeq DEF VaultInit, VaultOK, Ids, Key, Request
<1>2. ASSUME NEW q \in Requests PROVE Local(q)
  <2>1. req[q].op = "none" /\ req[q].pc = "new" /\ req[q].answer = 0
    BY DEF VaultInit
  <2>2. key[q].state = "none"
    BY NobodyAssumption DEF VaultInit, Ids
  <2>3. QED
    BY <2>1, <2>2 DEF Local
<1>3. /\ \A k \in Ids : rotated[k] = {} /\ lock[k] = Nobody /\ key[k].secret = k
      /\ \A q \in Requests : seen[q] = {}
  BY DEF VaultInit
<1>4. LogInv
  BY <1>3 DEF LogInv, LogTold, SeenTold, SecretMatchesLog, OwnRotations, Keys
<1>5. RowsHeld
  BY <1>3, NobodyAssumption DEF VaultInit, RowsHeld, Rotating
<1>6. QED
  BY <1>1, <1>2, <1>4, <1>5 DEF VaultInv

(* What no step takes back: a key that is there or inactive, a row of the log. *)
TableGrows ==
    \A k \in Ids :
        /\ key[k].state # "none" => key'[k].state # "none"
        /\ key[k].state = "inactive" => key'[k].state = "inactive"
        /\ rotated[k] \subseteq rotated'[k]

(* A step of another request leaves what a request knows as it was.            *)
LEMMA LocalFrame ==
    ASSUME VaultOK, TableGrows, NEW p \in Requests, Local(p), req'[p] = req[p],
           key[p].state = "none" => key'[p].state = "none"
    PROVE  Local(p)'
<1>1. p \in Ids /\ req[p].key \in Ids
  BY DEF VaultOK, Ids, Request
<1>2. InLog(p) => InLog(p)'
  BY <1>1 DEF InLog, TableGrows
<1>3. req[p].key \in Keys => (req[p].key \in Keys)'
  BY <1>1 DEF Keys, TableGrows
<1>4. QED
  BY <1>1, <1>2, <1>3 DEF Local, TableGrows

(* A step that changes neither the log nor the request of any row in it keeps  *)
(* what the log tells; a rotation that begins sees what is in the log.         *)
LEMMA LogFrame ==
    ASSUME VaultOK, LogInv, UNCHANGED rotated, NEW q \in Requests, req[q].pc # "done",
           \A p \in Requests \ {q} : req'[p] = req[p] /\ seen'[p] = seen[p],
           \A p \in seen'[q] : p \in seen[q] \/ \E k \in Ids : p \in rotated[k],
           \A k \in Keys : key'[k].secret = key[k].secret,
           \A k \in Ids \ Keys : key'[k].state # "none" => key'[k].secret = k /\ rotated[k] = {}
    PROVE  LogInv'
<1>1. ASSUME NEW k \in Ids, NEW p \in rotated[k]
      PROVE  /\ p \in Requests /\ p # q /\ req[p].pc = "done"
             /\ req'[p] = req[p] /\ seen'[p] = seen[p]
  <2>1. p \in Requests
    BY DEF VaultOK
  <2>2. QED
    BY <2>1 DEF LogInv, LogTold
<1>2. LogTold'
  BY <1>1 DEF LogInv, LogTold
<1>3. SeenTold'
  <2> SUFFICES ASSUME NEW p \in Requests, NEW r \in seen'[p] PROVE req'[r].pc = "done"
    BY DEF SeenTold
  <2>1. r \in seen[p] \/ \E k \in Ids : r \in rotated[k]
    OBVIOUS
  <2>2. r \in Requests /\ req[r].pc = "done"
    BY <1>1, <2>1 DEF LogInv, SeenTold, VaultOK
  <2>3. QED
    BY <2>2
<1>4. \A k \in Ids : OwnRotations(k)' = OwnRotations(k)
  BY <1>1 DEF OwnRotations
<1>5. SecretMatchesLog'
  <2> SUFFICES ASSUME NEW k \in Keys'
               PROVE  IF OwnRotations(k)' = {} THEN key'[k].secret = k
                      ELSE \E r \in OwnRotations(k)' :
                              /\ key'[k].secret = r
                              /\ \A p \in OwnRotations(k)' : r \notin seen'[p]
    BY DEF SecretMatchesLog
  <2>1. k \in Ids /\ key'[k].state # "none" /\ OwnRotations(k)' = OwnRotations(k)
    BY <1>4 DEF Keys
  <2>2. \A p \in OwnRotations(k) : seen'[p] = seen[p]
    BY <1>1, <2>1 DEF OwnRotations
  <2>3. CASE k \in Keys
    BY <2>1, <2>2, <2>3 DEF LogInv, SecretMatchesLog
  <2>4. CASE k \notin Keys
    <3>1. OwnRotations(k) = {} /\ key'[k].secret = k
      BY <2>1, <2>4 DEF OwnRotations
    <3>2. QED
      BY <2>1, <3>1
  <2>5. QED
    BY <2>3, <2>4
<1>6. QED
  BY <1>2, <1>3, <1>5 DEF LogInv

(* A key that is not there has no log: only keys that are there are rotated.   *)
LEMMA NoKeyNoLog ==
    ASSUME VaultInv, NEW k \in Ids \ Keys
    PROVE  rotated[k] = {}
<1> SUFFICES ASSUME NEW q \in rotated[k] PROVE FALSE
  OBVIOUS
<1>1. q \in Requests /\ req[q].op = "rotate" /\ req[q].key = k
  BY DEF VaultInv, VaultOK, LogInv, LogTold
<1>2. QED
  BY <1>1 DEF VaultInv, Local

(* A step of q that keeps the others' knowledge and re-establishes q's own.    *)
LEMMA StepKeeps ==
    ASSUME VaultInv, NEW q \in Requests, VaultOK', TableGrows,
           \A p \in Requests \ {q} : /\ req'[p] = req[p]
                                     /\ key[p].state = "none" => key'[p].state = "none",
           Local(q)', LogInv', RowsHeld'
    PROVE  VaultInv'
<1>1. ASSUME NEW p \in Requests \ {q} PROVE Local(p)'
  BY LocalFrame DEF VaultInv
<1>2. QED
  BY <1>1 DEF VaultInv

(* The locks are as they were when q's transaction neither begins nor ends.    *)
LEMMA RowsFrame ==
    ASSUME VaultInv, NEW q \in Requests, UNCHANGED lock,
           \A p \in Requests \ {q} : req'[p] = req[p],
           Rotating(q)' <=> Rotating(q), req'[q].key = req[q].key \/ ~Rotating(q)
    PROVE  RowsHeld'
<1> SUFFICES ASSUME NEW k \in Ids, NEW p \in Requests
             PROVE  lock'[k] = p <=> Rotating(p)' /\ req'[p].key = k
  BY DEF RowsHeld
<1>1. lock[k] = p <=> Rotating(p) /\ req[p].key = k
  BY DEF VaultInv, RowsHeld
<1>2. QED
  BY <1>1 DEF Rotating

(* When it ends, its row is free and no other.                                 *)
LEMMA RowsFreed ==
    ASSUME VaultInv, NEW q \in Requests, Unlock(q), ~Rotating(q)',
           \A p \in Requests \ {q} : req'[p] = req[p]
    PROVE  RowsHeld' /\ lock' \in [Ids -> Requests \cup {Nobody}]
<1>1. lock' \in [Ids -> Requests \cup {Nobody}]
  BY DEF VaultInv, VaultOK, Unlock
<1>2. ASSUME NEW k \in Ids, NEW p \in Requests
      PROVE  lock'[k] = p <=> Rotating(p)' /\ req'[p].key = k
  <2>1. lock[k] = p <=> Rotating(p) /\ req[p].key = k
    BY DEF VaultInv, RowsHeld
  <2>2. lock'[k] = IF lock[k] = q THEN Nobody ELSE lock[k]
    BY DEF Unlock
  <2>3. p # Nobody
    BY NobodyAssumption
  <2>4. QED
    BY <2>1, <2>2, <2>3 DEF Rotating
<1>3. QED
  BY <1>1, <1>2 DEF RowsHeld

---------------------------------------------------------------------------------
(* A handler that goes on or replies changes its own place and answer only.    *)
Moved(q, at, answer) ==
    /\ req' \in [Requests -> Request]
    /\ \A p \in Requests \ {q} : req'[p] = req[p]
    /\ req'[q].op = req[q].op /\ req'[q].key = req[q].key /\ req'[q].own = req[q].own
    /\ req'[q].pc = at /\ req'[q].answer = answer

LEMMA GoMoves ==
    ASSUME VaultInv, NEW q \in Requests, NEW at \in {"store", "read", "log", "commit"},
           req[q].pc # "done", GoOn(q, at)
    PROVE  Moved(q, at, 0)
<1>1. req \in [Requests -> Request] /\ req[q].answer = 0
  BY DEF VaultInv, VaultOK, Local
<1>2. req' = [req EXCEPT ![q] = [req[q] EXCEPT !.pc = at]]
  BY DEF GoOn
<1>3. [req[q] EXCEPT !.pc = at] \in Request
  BY <1>1 DEF Request
<1>4. QED
  BY <1>1, <1>2, <1>3 DEF Moved, Request

(* A key with another secret is one too.                                       *)
LEMMA RotatedKey ==
    ASSUME NEW r \in Key, NEW q \in Ids
    PROVE  [r EXCEPT !.secret = q] \in Key
BY DEF Key

LEMMA ReplyMoves ==
    ASSUME VaultInv, NEW q \in Requests, NEW code \in {200, 201, 204, 500}, Reply(q, code)
    PROVE  Moved(q, "done", code)
<1>1. req \in [Requests -> Request]
  BY DEF VaultInv, VaultOK
<1>2. req' = [req EXCEPT ![q] = [req[q] EXCEPT !.pc = "done", !.answer = code]]
  BY DEF Reply
<1>3. [req[q] EXCEPT !.pc = "done", !.answer = code] \in Request
  <2>1. req[q] \in Request /\ [req[q] EXCEPT !.pc = "done"] \in Request
    BY <1>1 DEF Request
  <2>2. PICK r \in Request : r = [req[q] EXCEPT !.pc = "done"]
    BY <2>1
  <2>3. [r EXCEPT !.answer = code] \in Request
    BY DEF Request
  <2>4. [req[q] EXCEPT !.pc = "done", !.answer = code] = [r EXCEPT !.answer = code]
    BY <1>1, <2>2 DEF Request
  <2>5. QED
    BY <2>3, <2>4
<1>4. QED
  BY <1>1, <1>2, <1>3 DEF Moved, Request

---------------------------------------------------------------------------------
(* The steps. A request that arrives asks for a key that is there, or for its  *)
(* own, which is not.                                                          *)
LEMMA AskVaultInv ==
    ASSUME VaultInv, NEW q \in Requests,
           \/ AskCreate(q)
           \/ \E k \in Keys, own \in BOOLEAN : AskRotate(q, k, own) \/ AskDelete(q, k, own)
    PROVE  VaultInv'
<1>1. PICK op \in {"create", "rotate", "delete"}, k \in Ids, own \in BOOLEAN :
        /\ Ask(q, op, k, own)
        /\ op = "create" => k = q
        /\ op # "create" => k \in Keys
  BY DEF AskCreate, AskRotate, AskDelete, Ids, Keys
<1> DEFINE at == IF op = "rotate" THEN "begin" ELSE "store"
<1>2. /\ req[q].pc = "new" /\ UNCHANGED <<key, lock, rotated, begun, seen>>
      /\ req' = [req EXCEPT ![q] = [op |-> op, key |-> k, own |-> own, answer |-> 0, pc |-> at]]
  BY <1>1 DEF Ask
<1>3. VaultOK'
  <2>1. [op |-> op, key |-> k, own |-> own, answer |-> 0, pc |-> at] \in Request
    BY DEF Request
  <2>2. QED
    BY <1>2, <2>1 DEF VaultInv, VaultOK
<1>4. req'[q] = [op |-> op, key |-> k, own |-> own, answer |-> 0, pc |-> at]
      /\ \A p \in Requests \ {q} : req'[p] = req[p]
  BY <1>2 DEF VaultInv, VaultOK
<1>5. Local(q)'
  <2>1. req[q].op = "none" /\ key[q].state = "none"
    BY <1>2 DEF VaultInv, Local
  <2>2. QED
    BY <1>1, <1>2, <1>4, <2>1 DEF Local, Keys
<1>6. LogInv'
  <2>1. \A j \in Keys : key'[j].secret = key[j].secret
    BY <1>2
  <2>2. \A j \in Ids \ Keys : key'[j].state = "none"
    BY <1>2 DEF Keys
  <2>3. QED
    BY <1>2, <1>4, <2>1, <2>2, LogFrame DEF VaultInv
<1>7. RowsHeld'
  BY <1>2, <1>4, RowsFrame DEF Rotating
<1>8. TableGrows
  BY <1>2 DEF TableGrows
<1>9. QED
  BY <1>2, <1>3, <1>4, <1>5, <1>6, <1>7, <1>8, StepKeeps

(* The INSERT stores a key that was not there, with no rotation in its log.    *)
LEMMA InsertVaultInv ==
    ASSUME VaultInv, NEW q \in Requests, InsertKey(q) \/ InsertFails(q)
    PROVE  VaultInv'
<1>1. /\ At(q, "create", "store") /\ UNCHANGED <<lock, rotated, begun, seen>>
      /\ \/ Moved(q, "read", 0) /\ StoreKey(q)
         \/ Moved(q, "done", 500) /\ (StoreKey(q) \/ UNCHANGED key)
  BY GoMoves, ReplyMoves DEF InsertKey, InsertFails, At
<1>2. VaultOK'
  <2>1. key' \in [Ids -> Key]
    <3>1. q \in Ids /\ [state |-> "active", secret |-> q] \in Key
      BY DEF Ids, Key
    <3>2. QED
      BY <1>1, <3>1 DEF VaultInv, VaultOK, StoreKey
  <2>2. QED
    BY <1>1, <2>1 DEF VaultInv, VaultOK, Moved
<1>3. /\ q \in Ids /\ key[q].state = "none"
      /\ \A k \in Ids \ {q} : key'[k] = key[k]
      /\ StoreKey(q) => key'[q] = [state |-> "active", secret |-> q]
  BY <1>1 DEF VaultInv, VaultOK, Local, At, StoreKey, Ids
<1>4. Local(q)'
  BY <1>1, <1>3 DEF VaultInv, VaultOK, Local, At, Moved
<1>5. LogInv'
  <2>1. \A k \in Ids \ Keys : key'[k].state # "none" => key'[k].secret = k /\ rotated[k] = {}
    BY <1>1, <1>3, NoKeyNoLog DEF Keys
  <2>2. \A k \in Keys : key'[k].secret = key[k].secret
    BY <1>1, <1>3 DEF Keys
  <2>3. QED
    BY <1>1, <2>1, <2>2, LogFrame DEF VaultInv, At, Moved
<1>6. RowsHeld'
  BY <1>1, RowsFrame DEF Rotating, At, Moved
<1>7. TableGrows
  BY <1>1, <1>3 DEF TableGrows
<1>8. QED
  BY <1>1, <1>2, <1>3, <1>4, <1>5, <1>6, <1>7, StepKeeps DEF Ids, Moved

(* A rotation begins: it sees in the log what is there.                        *)
LEMMA BeginVaultInv ==
    ASSUME VaultInv, NEW q \in Requests, BeginRotation(q)
    PROVE  VaultInv'
<1>1. /\ At(q, "rotate", "begin") /\ Moved(q, "store", 0) /\ UNCHANGED <<key, lock, rotated>>
      /\ begun' = Append(begun, q) /\ seen' = [seen EXCEPT ![q] = rotated[req[q].key]]
  BY GoMoves DEF BeginRotation, At
<1>2. req[q].key \in Ids /\ req[q].pc = "begin" /\ req[q].op = "rotate"
  BY <1>1 DEF At, VaultInv, VaultOK, Request
<1>3. /\ rotated[req[q].key] \in SUBSET Requests
      /\ seen'[q] = rotated[req[q].key]
      /\ \A p \in Requests \ {q} : seen'[p] = seen[p]
  BY <1>1, <1>2 DEF VaultInv, VaultOK
<1>4. VaultOK'
  BY <1>1, <1>3, AppendProperties DEF VaultInv, VaultOK, Moved
<1>5. Local(q)'
  BY <1>1, <1>2 DEF VaultInv, Local, Moved, InLog, Keys
<1>6. LogInv'
  <2>1. \A k \in Ids \ Keys : key'[k].state = "none"
    BY <1>1 DEF Keys
  <2>2. \A p \in Requests \ {q} : req'[p] = req[p] /\ seen'[p] = seen[p]
    BY <1>1, <1>3 DEF Moved
  <2>3. QED
    BY <1>1, <1>2, <1>3, <2>1, <2>2, LogFrame DEF VaultInv
<1>7. RowsHeld'
  BY <1>1, <1>2, RowsFrame DEF Rotating, Moved
<1>8. TableGrows
  BY <1>1 DEF TableGrows
<1>9. QED
  BY <1>1, <1>4, <1>5, <1>6, <1>7, <1>8, StepKeeps DEF Moved

(* A step that changes no row of the table nor of the log.                     *)
LEMMA QuietVaultInv ==
    ASSUME VaultInv, NEW q \in Requests, ReadKey(q) \/ LogRotation(q) \/ UpdateSecret(q)
    PROVE  VaultInv'
<1>1. /\ UNCHANGED <<key, rotated, begun, seen>>
      /\ \/ At(q, "create", "read") /\ UNCHANGED lock /\ Moved(q, "done", 201)
         \/ At(q, "create", "read") /\ UNCHANGED lock /\ Moved(q, "done", 500)
         \/ At(q, "rotate", "log") /\ UNCHANGED lock /\ Moved(q, "commit", 0)
         \/ UpdateSecret(q) /\ Moved(q, "log", 0)
  BY GoMoves, ReplyMoves DEF ReadKey, LogRotation, UpdateSecret, At
<1>2. /\ req[q].op \in {"create", "rotate"} /\ req[q].pc # "done" /\ req[q].key \in Ids
      /\ UpdateSecret(q) => req[q].op = "rotate" /\ req[q].pc = "store"
  BY <1>1 DEF UpdateSecret, At, VaultInv, VaultOK, Request
<1>3. RowsHeld' /\ lock' \in [Ids -> Requests \cup {Nobody}]
  <2>1. CASE UNCHANGED lock
    <3>1. Rotating(q)' <=> Rotating(q)
      <4>1. UpdateSecret(q) => ~req[q].own
        BY <1>2, <2>1, NobodyAssumption DEF UpdateSecret, VaultInv, VaultOK
      <4>2. QED
        BY <1>1, <1>2, <4>1 DEF Rotating, At, Moved
    <3>2. QED
      BY <1>1, <2>1, <3>1, RowsFrame DEF Moved, VaultInv, VaultOK
  <2>2. CASE UpdateSecret(q) /\ req[q].own
    <3>1. /\ lock[req[q].key] = Nobody /\ lock' = [lock EXCEPT ![req[q].key] = q]
          /\ Moved(q, "log", 0)
      BY <1>1, <2>2 DEF UpdateSecret, At
    <3>2. lock' \in [Ids -> Requests \cup {Nobody}]
      BY <1>2, <3>1 DEF VaultInv, VaultOK
    <3>3. ASSUME NEW k \in Ids, NEW p \in Requests
          PROVE  lock'[k] = p <=> Rotating(p)' /\ req'[p].key = k
      <4>1. lock[k] = p <=> Rotating(p) /\ req[p].key = k
        BY DEF VaultInv, RowsHeld
      <4>2. p # Nobody /\ ~Rotating(q)
        BY <1>2, <2>2, NobodyAssumption DEF Rotating
      <4>3. lock'[k] = IF k = req[q].key THEN q ELSE lock[k]
        BY <3>1 DEF VaultInv, VaultOK
      <4>4. Rotating(q)' /\ req'[q].key = req[q].key
        BY <2>2, <3>1 DEF Rotating, Moved
      <4>5. p # q => (Rotating(p)' <=> Rotating(p)) /\ req'[p].key = req[p].key
        BY <3>1 DEF Rotating, Moved
      <4>6. QED
        BY <3>1, <4>1, <4>2, <4>3, <4>4, <4>5
    <3>4. QED
      BY <3>2, <3>3 DEF RowsHeld
  <2>3. QED
    BY <1>1, <2>1, <2>2 DEF UpdateSecret
<1>4. VaultOK'
  BY <1>1, <1>3 DEF VaultInv, VaultOK, Moved
<1>5. Local(q)'
  BY <1>1, <1>2 DEF VaultInv, Local, At, Moved, Keys
<1>6. LogInv'
  <2>1. \A k \in Ids \ Keys : key'[k].state = "none"
    BY <1>1 DEF Keys
  <2>2. QED
    BY <1>1, <1>2, <2>1, LogFrame DEF VaultInv, Moved
<1>7. TableGrows
  BY <1>1 DEF TableGrows
<1>8. QED
  BY <1>1, <1>3, <1>4, <1>5, <1>6, <1>7, StepKeeps DEF Moved
(* What a committed rotation leaves: its row in the key's log and, in a key of *)
(* the caller's own, its secret.                                               *)
LEMMA RotatedRows ==
    ASSUME VaultInv, NEW q \in Requests, req[q].op = "rotate", Rotated(q)
    PROVE  /\ key' \in [Ids -> Key] /\ rotated' \in [Ids -> SUBSET Requests]
           /\ \A k \in Ids : key'[k].state = key[k].state
           /\ \A k \in Ids : key'[k].secret = IF req[q].own /\ k = req[q].key THEN q ELSE key[k].secret
           /\ \A k \in Ids \ {req[q].key} : rotated'[k] = rotated[k]
           /\ rotated'[req[q].key] = rotated[req[q].key] \cup {q}
<1> DEFINE c == req[q].key
<1>1. c \in Ids /\ q \in Ids /\ key \in [Ids -> Key] /\ rotated \in [Ids -> SUBSET Requests]
  BY DEF VaultInv, VaultOK, Request, Ids
<1>2. key[c] \in Key /\ [key[c] EXCEPT !.secret = q] \in Key
  BY <1>1, RotatedKey
<1>3. /\ key' \in [Ids -> Key]
      /\ \A k \in Ids : key'[k].state = key[k].state
      /\ \A k \in Ids : key'[k].secret = IF req[q].own /\ k = c THEN q ELSE key[k].secret
  <2>1. CASE req[q].own
    <3>1. key' = [key EXCEPT ![c] = [key[c] EXCEPT !.secret = q]]
      BY <2>1 DEF Rotated
    <3>2. key' \in [Ids -> Key]
      BY <1>1, <1>2, <3>1
    <3>3. \A k \in Ids : key'[k] = IF k = c THEN [key[c] EXCEPT !.secret = q] ELSE key[k]
      BY <1>1, <3>1
    <3>4. [key[c] EXCEPT !.secret = q].state = key[c].state
          /\ [key[c] EXCEPT !.secret = q].secret = q
      BY <1>2 DEF Key
    <3>5. QED
      BY <2>1, <3>2, <3>3, <3>4
  <2>2. CASE ~req[q].own
    BY <1>1, <2>2 DEF Rotated
  <2>3. QED
    BY <2>1, <2>2
<1>4. rotated' = [rotated EXCEPT ![c] = rotated[c] \cup {q}]
  BY <1>1 DEF Rotated
<1>5. QED
  BY <1>1, <1>3, <1>4

(* The rotation that commits was in no log before, and no rotation has seen it *)
(* there.                                                                      *)
LEMMA RotatedLog ==
    ASSUME VaultInv, NEW q \in Requests, req[q].op = "rotate", req[q].pc # "done",
           Rotated(q), NEW code, Moved(q, "done", code), UNCHANGED seen
    PROVE  LogInv' /\ InLog(q)' /\ TableGrows
<1> DEFINE c == req[q].key
<1>1. /\ c \in Ids /\ c \in Keys
      /\ \A k \in Ids : key'[k].state = key[k].state
      /\ \A k \in Ids : key'[k].secret = IF req[q].own /\ k = c THEN q ELSE key[k].secret
      /\ \A k \in Ids \ {c} : rotated'[k] = rotated[k]
      /\ rotated'[c] = rotated[c] \cup {q}
  BY RotatedRows DEF VaultInv, Local, Keys
<1>2. ASSUME NEW k \in Ids, NEW p \in rotated[k]
      PROVE  p \in Requests /\ p # q /\ req'[p] = req[p]
  <2>1. p \in Requests
    BY DEF VaultInv, VaultOK
  <2>2. p # q
    BY DEF VaultInv, LogInv, LogTold
  <2>3. QED
    BY <2>1, <2>2 DEF Moved
<1>3. req'[q].op = "rotate" /\ req'[q].pc = "done" /\ req'[q].key = c /\ req'[q].own = req[q].own
  BY DEF Moved
<1>4. LogTold'
  <2> SUFFICES ASSUME NEW k \in Ids, NEW p \in rotated'[k]
               PROVE  req'[p].op = "rotate" /\ req'[p].pc = "done" /\ req'[p].key = k
    BY DEF LogTold
  <2>1. p \in rotated[k] \/ (p = q /\ k = c)
    BY <1>1
  <2>2. QED
    BY <1>2, <1>3, <2>1 DEF VaultInv, LogInv, LogTold
<1>5. \A p \in Requests : q \notin seen[p]
  BY DEF VaultInv, LogInv, SeenTold
<1>6. SeenTold'
  <2> SUFFICES ASSUME NEW p \in Requests, NEW r \in seen[p] PROVE req'[r].pc = "done"
    BY DEF SeenTold
  <2>1. r \in Requests /\ r # q /\ req[r].pc = "done"
    BY <1>5 DEF VaultInv, VaultOK, LogInv, SeenTold
  <2>2. QED
    BY <2>1 DEF Moved
<1>7. InLog(q)' /\ TableGrows
  BY <1>1, <1>3 DEF InLog, TableGrows
<1>8. ASSUME NEW k \in Keys'
      PROVE  IF OwnRotations(k)' = {} THEN key'[k].secret = k
             ELSE \E r \in OwnRotations(k)' : /\ key'[k].secret = r
                                             /\ \A p \in OwnRotations(k)' : r \notin seen'[p]
  <2>1. k \in Ids /\ k \in Keys
    BY <1>1 DEF Keys
  <2>2. \A p \in OwnRotations(k)' : p \in Requests
    BY <1>1, <1>2, <2>1 DEF OwnRotations
  <2>3. CASE k = c /\ req[q].own
    <3>1. q \in OwnRotations(k)' /\ key'[k].secret = q
      BY <1>1, <1>3, <2>3 DEF OwnRotations
    <3>2. QED
      BY <1>5, <2>2, <3>1
  <2>4. CASE ~(k = c /\ req[q].own)
    <3>1. OwnRotations(k)' = OwnRotations(k)
      <4>1. CASE k # c
        BY <1>1, <1>2, <2>1, <4>1 DEF OwnRotations
      <4>2. CASE k = c
        <5>1. ~req'[q].own
          BY <1>3, <2>4, <4>2
        <5>2. QED
          BY <1>1, <1>2, <2>1, <4>2, <5>1 DEF OwnRotations
      <4>3. QED
        BY <4>1, <4>2
    <3>2. key'[k].secret = key[k].secret
      BY <1>1, <2>1, <2>4
    <3>3. QED
      BY <2>1, <3>1, <3>2 DEF VaultInv, LogInv, SecretMatchesLog
  <2>5. QED
    BY <2>3, <2>4
<1>9. SecretMatchesLog'
  BY <1>8 DEF SecretMatchesLog
<1>10. QED
  BY <1>4, <1>6, <1>7, <1>9 DEF LogInv

(* A rotation that ends, committed or rolled back.                             *)
LEMMA RotateVaultInv ==
    ASSUME VaultInv, NEW q \in Requests, CommitRotation(q) \/ RotationFails(q)
    PROVE  VaultInv'
<1>1. PICK code \in {200, 500} :
        /\ Moved(q, "done", code) /\ Unlock(q) /\ UNCHANGED <<begun, seen>>
        /\ Rotated(q) \/ (code = 500 /\ UNCHANGED <<key, rotated>>)
  <2>1. CASE CommitRotation(q)
    BY <2>1, ReplyMoves DEF CommitRotation
  <2>2. CASE RotationFails(q)
    BY <2>2, ReplyMoves DEF RotationFails
  <2>3. QED
    BY <2>1, <2>2
<1>2. req[q].op = "rotate" /\ req[q].pc # "done" /\ req[q].key \in Keys
  BY DEF CommitRotation, RotationFails, At, VaultInv, Local
<1>3. RowsHeld' /\ lock' \in [Ids -> Requests \cup {Nobody}]
  BY <1>1, RowsFreed DEF Moved, Rotating
<1>4. /\ key' \in [Ids -> Key] /\ rotated' \in [Ids -> SUBSET Requests]
      /\ \A k \in Ids : key'[k].state = key[k].state
  BY <1>1, <1>2, RotatedRows DEF VaultInv, VaultOK
<1>5. LogInv' /\ TableGrows /\ (InLog(q)' \/ code = 500)
  <2>1. CASE Rotated(q)
    BY <1>1, <1>2, <2>1, RotatedLog
  <2>2. CASE code = 500 /\ UNCHANGED <<key, rotated>>
    <3>1. \A k \in Ids \ Keys : key'[k].state = "none"
      BY <2>2 DEF Keys
    <3>2. LogInv'
      <4>1. req[q].pc # "done"
        BY <1>2
      <4>2. \A p \in Requests \ {q} : req'[p] = req[p] /\ seen'[p] = seen[p]
        BY <1>1 DEF Moved
      <4>3. QED
        BY <1>1, <2>2, <3>1, <4>1, <4>2, LogFrame DEF VaultInv
    <3>3. TableGrows
      BY <2>2 DEF TableGrows
    <3>4. QED
      BY <2>2, <3>2, <3>3
  <2>3. QED
    BY <1>1, <2>1, <2>2
<1>6. VaultOK'
  BY <1>1, <1>3, <1>4 DEF VaultInv, VaultOK, Moved
<1>7. Local(q)'
  <2>1. /\ req'[q].op = "rotate" /\ req'[q].key = req[q].key /\ req'[q].pc = "done"
        /\ req'[q].answer = code
    BY <1>1, <1>2 DEF Moved
  <2>2. (req[q].key \in Keys)'
    BY <1>2, <1>4, <2>1 DEF Keys
  <2>3. code = 200 => InLog(q)'
    BY <1>5
  <2>4. key'[q].state = "none"
    BY <1>2, <1>4 DEF VaultInv, Local, Ids
  <2>5. QED
    BY <2>1, <2>2, <2>3, <2>4 DEF Local
<1>8. QED
  BY <1>1, <1>3, <1>4, <1>5, <1>6, <1>7, StepKeeps DEF Moved, Ids

(* A deactivation changes the state of the caller's own key and nothing else.  *)
LEMMA DeactivateVaultInv ==
    ASSUME VaultInv, NEW q \in Requests, Deactivate(q) \/ DeactivateFails(q)
    PROVE  VaultInv'
<1> DEFINE c == req[q].key
<1>1. PICK code \in {204, 500} :
        /\ Moved(q, "done", code) /\ UNCHANGED <<lock, rotated, begun, seen>>
        /\ Deactivated(q) \/ (code = 500 /\ UNCHANGED key)
  <2>1. CASE Deactivate(q)
    BY <2>1, ReplyMoves DEF Deactivate
  <2>2. CASE DeactivateFails(q)
    BY <2>2, ReplyMoves DEF DeactivateFails
  <2>3. QED
    BY <2>1, <2>2
<1>2. req[q].op = "delete" /\ req[q].pc = "store" /\ c \in Keys /\ c \in Ids
  BY DEF Deactivate, DeactivateFails, At, VaultInv, Local, Keys
<1>3. /\ key' \in [Ids -> Key]
      /\ \A k \in Ids : key'[k].secret = key[k].secret
      /\ \A k \in Ids : \/ key'[k].state = key[k].state
                        \/ k = c /\ key'[k].state = "inactive"
      /\ req[q].own => code = 500 \/ key'[c].state = "inactive"
  <2>1. CASE Deactivated(q) /\ req[q].own
    <3>1. key \in [Ids -> Key] /\ key[c] \in Key
      BY <1>2 DEF VaultInv, VaultOK
    <3>2. key' = [key EXCEPT ![c] = [key[c] EXCEPT !.state = "inactive"]]
      BY <2>1 DEF Deactivated
    <3>3. /\ [key[c] EXCEPT !.state = "inactive"] \in Key
          /\ [key[c] EXCEPT !.state = "inactive"].state = "inactive"
          /\ [key[c] EXCEPT !.state = "inactive"].secret = key[c].secret
      BY <3>1 DEF Key
    <3>4. key' \in [Ids -> Key]
      BY <1>2, <3>1, <3>2, <3>3
    <3>5. /\ key'[c] = [key[c] EXCEPT !.state = "inactive"]
          /\ \A k \in Ids \ {c} : key'[k] = key[k]
      BY <1>2, <3>1, <3>2
    <3>6. key'[c].state = "inactive" /\ key'[c].secret = key[c].secret
      BY <3>3, <3>5
    <3>7. \A k \in Ids : key'[k].secret = key[k].secret
      BY <3>5, <3>6
    <3>8. QED
      BY <3>4, <3>5, <3>6, <3>7
  <2>2. CASE UNCHANGED key /\ (code = 500 \/ ~req[q].own)
    <3>1. key' \in [Ids -> Key]
      BY <2>2 DEF VaultInv, VaultOK
    <3>2. \A k \in Ids : key'[k] = key[k]
      BY <2>2
    <3>3. QED
      BY <2>2, <3>1, <3>2
  <2>3. QED
    BY <1>1, <2>1, <2>2 DEF Deactivated
<1>4. LogInv'
  <2>1. \A k \in Ids \ Keys : key'[k].state = "none"
    BY <1>2, <1>3 DEF Keys
  <2>2. \A k \in Keys : key'[k].secret = key[k].secret
    BY <1>3 DEF Keys
  <2>3. QED
    BY <1>1, <1>2, <2>1, <2>2, LogFrame DEF VaultInv, Moved
<1>5. RowsHeld'
  BY <1>1, <1>2, RowsFrame DEF Moved, Rotating
<1>6. TableGrows
  BY <1>1, <1>2, <1>3 DEF TableGrows, Keys
<1>7. VaultOK'
  BY <1>1, <1>3 DEF VaultInv, VaultOK, Moved
<1>8. Local(q)'
  <2>1. /\ req'[q].op = "delete" /\ req'[q].key = c /\ req'[q].pc = "done"
        /\ req'[q].answer = code /\ req'[q].own = req[q].own
    BY <1>1, <1>2 DEF Moved
  <2>2. (req[q].key \in Keys)'
    BY <1>2, <1>3, <2>1 DEF Keys
  <2>3. key[q].state = "none" /\ q \in Ids
    BY <1>2 DEF VaultInv, Local, Ids
  <2>4. key'[q].state = "none"
    BY <1>2, <1>3, <2>3 DEF Keys
  <2>5. QED
    BY <1>3, <2>1, <2>2, <2>4 DEF Local
<1>9. \A p \in Requests : key[p].state = "none" => key'[p].state = "none"
  BY <1>2, <1>3 DEF Keys, Ids
<1>10. QED
  BY <1>1, <1>4, <1>5, <1>6, <1>7, <1>8, <1>9, StepKeeps DEF Moved

(* Every step keeps the invariant.                                             *)
LEMMA NextVaultInv == VaultInv /\ [VaultNext]_vaultVars => VaultInv'
<1> SUFFICES ASSUME VaultInv, [VaultNext]_vaultVars PROVE VaultInv'
  OBVIOUS
<1>1. CASE VaultNext
  <2>1. PICK q \in Requests :
           \/ AskCreate(q)
           \/ \E k \in Keys, own \in BOOLEAN : AskRotate(q, k, own) \/ AskDelete(q, k, own)
           \/ Handle(q) \/ VaultFault(q)
    BY <1>1 DEF VaultNext
  <2>2. CASE \/ AskCreate(q)
             \/ \E k \in Keys, own \in BOOLEAN : AskRotate(q, k, own) \/ AskDelete(q, k, own)
    BY <2>2, AskVaultInv
  <2>3. CASE Handle(q)
    BY <2>3, InsertVaultInv, BeginVaultInv, QuietVaultInv, RotateVaultInv, DeactivateVaultInv DEF Handle
  <2>4. CASE VaultFault(q)
    BY <2>4, InsertVaultInv, RotateVaultInv, DeactivateVaultInv DEF VaultFault
  <2>5. QED
    BY <2>1, <2>2, <2>3, <2>4
<1>2. CASE UNCHANGED vaultVars
  <2>1. UNCHANGED <<key, lock, rotated, begun, req, seen>>
    BY <1>2 DEF vaultVars
  <2>2. VaultOK' /\ (\A q \in Requests : Local(q)')
    BY <2>1 DEF VaultInv, VaultOK, Local, InLog, Keys
  <2>3. LogTold' /\ SeenTold' /\ RowsHeld'
    BY <2>1 DEF VaultInv, LogInv, LogTold, SeenTold, RowsHeld, Rotating
  <2>4. SecretMatchesLog'
    BY <2>1 DEF VaultInv, LogInv, SecretMatchesLog, OwnRotations, Keys
  <2>5. QED
    BY <2>2, <2>3, <2>4 DEF VaultInv, LogInv
<1>3. QED
  BY <1>1, <1>2

LEMMA VaultInvariance == VaultSpec => []VaultInv
<1>1. VaultInit /\ [][VaultNext]_vaultVars => []VaultInv
  BY InitVaultInv, NextVaultInv, PTL
<1>2. QED
  BY <1>1, PTL DEF VaultSpec

---------------------------------------------------------------------------------
(* Every variable keeps its type.                                              *)
THEOREM VaultTyped == VaultSpec => []VaultOK
<1>1. VaultInv => VaultOK
  BY DEF VaultInv
<1>2. QED
  BY <1>1, VaultInvariance, PTL

(* A key's secret is that of a rotation in its log after which no other in it  *)
(* began, whatever rotations and deactivations overlap, fail or lose their     *)
(* answer: it needs that a rotation sees in the log only what is over.         *)
THEOREM SecretsLogged == VaultSpec => []SecretMatchesLog
<1>1. VaultInv => SecretMatchesLog
  BY DEF VaultInv, LogInv
<1>2. QED
  BY <1>1, VaultInvariance, PTL

(* An answer given is kept: the key is there, its rotation is in the log, the  *)
(* deactivated key stays inactive.                                             *)
THEOREM AnswersKept == VaultSpec => []AnswersHold
<1>1. VaultInv => AnswersHold
  <2> SUFFICES ASSUME VaultInv, NEW q \in Requests, req[q].own
               PROVE  LET k == req[q].key
                      IN  /\ req[q].answer = 201 => key[q].state # "none"
                          /\ req[q].answer = 200 => q \in rotated[k]
                          /\ req[q].answer = 204 => key[k].state = "inactive"
    BY DEF AnswersHold
  <2>1. Local(q)
    BY DEF VaultInv
  <2>2. QED
    BY <2>1 DEF Local, InLog
<1>2. QED
  BY <1>1, VaultInvariance, PTL

(* Two rotations past their UPDATE never work on the same row (store.go:152):  *)
(* the lock that the UPDATE takes and only the transaction's end gives back    *)
(* keeps them apart.                                                           *)
RowLocked ==
    \A p, q \in Requests : Rotating(p) /\ Rotating(q) /\ req[p].key = req[q].key => p = q

THEOREM RowLockExclusive == VaultSpec => []RowLocked
<1>1. VaultInv => RowLocked
  <2> SUFFICES ASSUME VaultInv, NEW p \in Requests, NEW q \in Requests,
                      Rotating(p), Rotating(q), req[p].key = req[q].key
               PROVE  p = q
    BY DEF RowLocked
  <2>1. req[p].key \in Ids
    BY DEF VaultInv, VaultOK, Request
  <2>2. lock[req[p].key] = p /\ lock[req[p].key] = q
    BY <2>1 DEF VaultInv, RowsHeld
  <2>3. QED
    BY <2>2
<1>2. QED
  BY <1>1, VaultInvariance, PTL
=================================================================================
