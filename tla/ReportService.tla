----------------------------- MODULE ReportService ------------------------------
(* The report service (src/index.ts, scheduler/cron.ts, the renderers) and the *)
(* gateway's routes to it (routes/reports.ts): reports that are asked for run  *)
(* side by side, the ones of the monthly run one after the other, each as a    *)
(* row of generated_reports, a file and a generator between them. Any database *)
(* call may fail, and the process may die with every generator it runs.        *)
(* Usage events are counted, not looked at; one usage row counts 1.            *)
EXTENDS Integers, Sequences, FiniteSets

CONSTANTS Orgs,        \* the active organizations
          Asked,       \* the reports that may be asked for
          AskedFormats,\* the formats they may be asked for in
          MaxUsage,    \* bound: usage events of all organizations
          MaxCrashes,  \* bound: deaths of the process
          Batch        \* rows of a FETCH

(* The monthly report of an organization goes by the organization's name.      *)
Reports == Asked \cup Orgs

ASSUME ReportsAssumption ==
    /\ Asked \cap Orgs = {} /\ Orgs # {} /\ "none" \notin Orgs
    /\ AskedFormats \subseteq {"pdf", "csv"}
ASSUME BoundsAssumption == MaxUsage \in Nat /\ MaxCrashes \in Nat /\ Batch \in Nat \ {0}

VARIABLES
    usage,     \* usage[o]: the rows of o in usage_events
    status,    \* status[r]: the row of generated_reports; "none": no row
    org,       \* org[r]: its org_id
    format,    \* format[r]: "pdf" or "csv"
    file,      \* file[r]: "none", "part" (buffers not yet on disk), "whole" or "cut"
    pc,        \* pc[r]: where r's generator is
    shown,     \* shown[r]: the usage in the rows of the document
    total,     \* total[r]: the usage in its totals, or that the cursor runs over
    monthly,   \* the organizations the monthly run has before it
    current,   \* the monthly report that is being generated, or "none"
    fired,     \* the schedule has fired
    crashes,   \* deaths so far
    least,     \* history: least[r]: the usage when r was asked for
    reached    \* history: the organizations whose turn came in the monthly run

rowVars == <<status, org, format, least>>
dataVars == <<shown, total>>
cronVars == <<monthly, current, fired, reached>>
vars == <<usage, rowVars, file, pc, dataVars, cronVars, crashes>>

Working == {"insert", "breakdown", "totals", "cursor", "fetch", "finish", "catch"}
Live(r) == pc[r] \in Working

Init == /\ usage = [o \in Orgs |-> 0]
        /\ status = [r \in Reports |-> "none"]
        /\ org = [r \in Reports |-> IF r \in Orgs THEN r ELSE CHOOSE o \in Orgs : TRUE]
        /\ format = [r \in Reports |-> "pdf"]
        /\ file = [r \in Reports |-> "none"]
        /\ pc = [r \in Reports |-> "none"]
        /\ shown = [r \in Reports |-> 0]
        /\ total = [r \in Reports |-> 0]
        /\ monthly = {}
        /\ current = "none"
        /\ fired = FALSE
        /\ crashes = 0
        /\ least = [r \in Reports |-> 0]
        /\ reached = {}

Go(r, label) == pc' = [pc EXCEPT ![r] = label]

(* A generator that stops is done when the row says how it ended.              *)
Stopped(r) == IF status[r] = "ready" THEN "done" ELSE "gone"

(* The rows of usage_events.                                                   *)
Recorded == {e \in Orgs \X (1..MaxUsage) : e[2] <= usage[e[1]]}

(* The cost engine records a request.                                          *)
Use(o) == /\ Cardinality(Recorded) < MaxUsage
          /\ usage' = [usage EXCEPT ![o] = @ + 1]
          /\ UNCHANGED <<rowVars, file, pc, dataVars, cronVars, crashes>>

---------------------------------------------------------------------------------
(* generateReport: the row, the document, the row again. An UPDATE or INSERT    *)
(* that fails may have been made, its answer lost.                             *)

(* The INSERT; with its answer lost nobody generates the report.               *)
InsertRow(r, o, f) ==
    /\ status[r] = "none"
    /\ status' = [status EXCEPT ![r] = "pending"]
    /\ org' = [org EXCEPT ![r] = o]
    /\ format' = [format EXCEPT ![r] = f]
    /\ least' = [least EXCEPT ![r] = usage[o]]
    /\ \E label \in {"insert", "gone"} : Go(r, label)

(* POST /reports/generate, which the gateway sends on with the caller's        *)
(* organization; a refused body or an INSERT that is not made leaves nothing.  *)
AskReport(r, o, f) ==
    /\ r \in Asked
    /\ InsertRow(r, o, f)
    /\ UNCHANGED <<usage, file, dataVars, cronVars, crashes>>

(* Mutation of PDFQueries: the other way round.                                *)
TotalsFirst == <<"totals", "breakdown">>

(* The queries of generatePDFReport, in their order.                           *)
PDFQueries == <<"breakdown", "totals">>

MarkGenerating(r) ==
    /\ pc[r] = "insert"
    /\ status' = [status EXCEPT ![r] = "generating"]
    /\ Go(r, IF format[r] = "pdf" THEN PDFQueries[1] ELSE "cursor")
    /\ UNCHANGED <<usage, org, format, least, file, dataVars, cronVars, crashes>>

(* That UPDATE is outside the try: its failure leaves the row as it is.        *)
MarkFails(r) == /\ pc[r] = "insert"
                /\ status' \in {status, [status EXCEPT ![r] = "generating"]}
                /\ Go(r, "gone")
                /\ UNCHANGED <<usage, org, format, least, file, dataVars, cronVars, crashes>>

(* generatePDFReport: two queries outside a transaction, two snapshots. (Of    *)
(* more than twenty labels the breakdown lists the largest: it shows less.)    *)
Query(r, q) ==
    /\ pc[r] = q
    /\ IF q = "breakdown"
          THEN shown' = [shown EXCEPT ![r] = usage[org[r]]] /\ UNCHANGED total
          ELSE total' = [total EXCEPT ![r] = usage[org[r]]] /\ UNCHANGED shown

FirstQuery(r) == /\ Query(r, PDFQueries[1])
                 /\ Go(r, PDFQueries[2])
                 /\ UNCHANGED <<usage, rowVars, file, cronVars, crashes>>

(* renderPDF resolves at the end of the document, which is when the last of it *)
(* has been handed to the file's stream.                                       *)
RenderPDF(r) == /\ file' = [file EXCEPT ![r] = "part"]
                /\ Go(r, "finish")

SecondQuery(r) == /\ Query(r, PDFQueries[2])
                  /\ RenderPDF(r)
                  /\ UNCHANGED <<usage, rowVars, cronVars, crashes>>

(* streamCSV: BEGIN and DECLARE fix the snapshot the cursor runs over.         *)
OpenCursor(r) ==
    /\ pc[r] = "cursor"
    /\ total' = [total EXCEPT ![r] = usage[org[r]]]
    /\ file' = [file EXCEPT ![r] = "part"]
    /\ Go(r, "fetch")
    /\ UNCHANGED <<usage, rowVars, shown, cronVars, crashes>>

FetchSize(r) == IF total[r] - shown[r] < Batch THEN total[r] - shown[r] ELSE Batch

(* One FETCH; a short one is the last, then COMMIT and the end of the stream.  *)
Fetch(r) ==
    /\ pc[r] = "fetch"
    /\ shown' = [shown EXCEPT ![r] = @ + FetchSize(r)]
    /\ IF FetchSize(r) < Batch THEN Go(r, "finish") ELSE UNCHANGED pc
    /\ UNCHANGED <<usage, rowVars, file, total, cronVars, crashes>>

(* stat and the last UPDATE.                                                   *)
MarkReady(r) == /\ pc[r] = "finish"
                /\ status' = [status EXCEPT ![r] = "ready"]
                /\ Go(r, "done")
                /\ UNCHANGED <<usage, org, format, least, file, dataVars, cronVars, crashes>>

(* A query, the connection, the rendering or stat fails, or the last UPDATE is *)
(* not made: what was read is forgotten, and no row will name the file.        *)
Throw(r) == /\ pc[r] \in Working \ {"insert", "catch"}
            /\ Go(r, "catch")
            /\ shown' = [shown EXCEPT ![r] = 0]
            /\ total' = [total EXCEPT ![r] = 0]
            /\ file' = [file EXCEPT ![r] = "none"]
            /\ UNCHANGED <<usage, rowVars, cronVars, crashes>>

(* The last UPDATE is made and its answer is lost: the row is ready, names the *)
(* file, and the generator is in its catch.                                    *)
ReadyUnacknowledged(r) ==
    /\ pc[r] = "finish"
    /\ status' = [status EXCEPT ![r] = "ready"]
    /\ Go(r, "catch")
    /\ UNCHANGED <<usage, org, format, least, file, dataVars, cronVars, crashes>>

(* The catch overwrites whatever the row says; no answer names the file then.  *)
MarkFailed(r) == /\ pc[r] = "catch"
                 /\ status' = [status EXCEPT ![r] = "failed"]
                 /\ Go(r, "done")
                 /\ shown' = [shown EXCEPT ![r] = 0]
                 /\ total' = [total EXCEPT ![r] = 0]
                 /\ file' = [file EXCEPT ![r] = "none"]
                 /\ UNCHANGED <<usage, org, format, least, cronVars, crashes>>

(* The UPDATE of the catch is not made: the row stays generating, or ready.    *)
MarkFailedFails(r) == /\ pc[r] = "catch"
                      /\ Go(r, Stopped(r))
                      /\ UNCHANGED <<usage, rowVars, file, dataVars, cronVars, crashes>>

---------------------------------------------------------------------------------
(* The file's stream, and the process.                                         *)

(* What was handed to the stream is on disk and the stream has finished.       *)
Flush(r) == /\ file[r] = "part"
            /\ pc[r] = "finish" \/ status[r] = "ready"
            /\ file' = [file EXCEPT ![r] = "whole"]
            /\ UNCHANGED <<usage, rowVars, pc, dataVars, cronVars, crashes>>

(* A write fails after renderPDF resolved: its reject comes too late. (While a *)
(* PDF is rendered this is Throw; for a CSV nobody listens: Crash.)            *)
WriteFailsLate(r) == /\ file[r] = "part" /\ format[r] = "pdf"
                     /\ pc[r] = "finish" \/ status[r] = "ready"
                     /\ file' = [file EXCEPT ![r] = "cut"]
                     /\ UNCHANGED <<usage, rowVars, pc, dataVars, cronVars, crashes>>

(* A document that no row names when the process dies.                         *)
Unfinished(r) == Live(r) /\ status[r] # "ready"

(* The process dies, of an unhandled stream error too, and is started again;   *)
(* in a new pod its directory is empty. Nobody looks for unfinished rows.      *)
Crash == /\ crashes < MaxCrashes
         /\ crashes' = crashes + 1
         /\ pc' = [r \in Reports |-> IF Live(r) THEN Stopped(r) ELSE pc[r]]
         /\ \E kept \in BOOLEAN :
              file' = [r \in Reports |->
                         IF ~kept \/ Unfinished(r) THEN "none"
                         ELSE IF file[r] = "part" THEN "cut" ELSE file[r]]
         /\ shown' = [r \in Reports |-> IF Unfinished(r) THEN 0 ELSE shown[r]]
         /\ total' = [r \in Reports |-> IF Unfinished(r) THEN 0 ELSE total[r]]
         /\ monthly' = {} /\ current' = "none"
         /\ UNCHANGED <<usage, rowVars, fired, reached>>

---------------------------------------------------------------------------------
(* startMonthlyScheduler.                                                      *)

(* The schedule fires; the query for the active organizations may fail.        *)
FireMonthly == /\ ~fired
               /\ fired' = TRUE
               /\ monthly' \in {Orgs, {}}
               /\ UNCHANGED <<usage, rowVars, file, pc, dataVars, current, reached, crashes>>

(* Mutation of NextOrg: the loop's calls are not awaited, as in a forEach.      *)
NextOrgAtOnce(o) ==
    /\ o \in monthly
    /\ monthly' = monthly \ {o}
    /\ reached' = reached \cup {o}
    /\ \/ InsertRow(o, o, "pdf") /\ current' = o
       \/ UNCHANGED <<rowVars, pc, current>>
    /\ UNCHANGED <<usage, file, dataVars, fired, crashes>>

NextOrg(o) ==
    /\ o \in monthly /\ current = "none"
    /\ monthly' = monthly \ {o}
    /\ reached' = reached \cup {o}
    /\ \/ InsertRow(o, o, "pdf") /\ current' = o
       \/ UNCHANGED <<rowVars, pc, current>>      \* the INSERT is not made
    /\ UNCHANGED <<usage, file, dataVars, fired, crashes>>

(* Mutation of OrgDone: an error of one organization's report ends the run.    *)
OrgDoneOrStop ==
    /\ current # "none" /\ ~Live(current)
    /\ current' = "none"
    /\ monthly' = IF status[current] = "ready" THEN monthly ELSE {}
    /\ UNCHANGED <<usage, rowVars, file, pc, dataVars, fired, reached, crashes>>

(* The report of the turn has ended, well or in the loop's catch.              *)
OrgDone == /\ current # "none" /\ ~Live(current)
           /\ current' = "none"
           /\ UNCHANGED <<usage, rowVars, file, pc, dataVars, monthly, fired, reached, crashes>>

---------------------------------------------------------------------------------
(* GET /reports/:id/download.                                                  *)

(* Mutation of Download: a report that has a file is sent.                     *)
DownloadByFile(r) ==
    CASE status[r] = "none" -> [code |-> 404, body |-> "not_found"]
      [] file[r] # "none" -> [code |-> 200, body |-> file[r]]
      [] OTHER -> [code |-> 202, body |-> status[r]]

(* The service's answer at this moment; the file is streamed as it is.         *)
Download(r) ==
    CASE status[r] = "none" -> [code |-> 404, body |-> "not_found"]
      [] status[r] \notin {"none", "ready"} -> [code |-> 202, body |-> status[r]]
      [] status[r] = "ready" /\ file[r] = "none" -> [code |-> 410, body |-> "file_expired"]
      [] OTHER -> [code |-> 200, body |-> file[r]]

(* What the gateway makes of it: a file or a status passes, an error's body    *)
(* does not.                                                                   *)
Answer(r) == LET sent == Download(r)
             IN  IF sent.code \in {200, 202} THEN sent
                 ELSE [code |-> sent.code, body |-> "failed_download"]

(* GET /reports: an organization sees every row it has, whatever its status.   *)
Listed(o) == {r \in Reports : status[r] # "none" /\ org[r] = o}

---------------------------------------------------------------------------------
Generate(r) == \/ MarkGenerating(r) \/ FirstQuery(r) \/ SecondQuery(r)
               \/ OpenCursor(r) \/ Fetch(r)
               \/ MarkReady(r) \/ MarkFailed(r)

Fault(r) == \/ MarkFails(r) \/ Throw(r) \/ ReadyUnacknowledged(r)
            \/ MarkFailedFails(r) \/ WriteFailsLate(r)

Monthly == FireMonthly \/ OrgDone \/ \E o \in Orgs : NextOrg(o)

Next == \/ \E o \in Orgs : Use(o)
        \/ \E r \in Asked, o \in Orgs, f \in AskedFormats : AskReport(r, o, f)
        \/ \E r \in Reports : Generate(r) \/ Fault(r) \/ Flush(r)
        \/ Crash
        \/ Monthly

Spec == Init /\ [][Next]_vars

(* A running generator and the loop of the monthly run go on, as Node's event  *)
(* loop and a database that answers or fails let them.                         *)
Fairness == /\ \A r \in Reports : WF_vars(Generate(r))
            /\ WF_vars(OrgDone \/ \E o \in Orgs : NextOrg(o))

FairSpec == Spec /\ Fairness

---------------------------------------------------------------------------------
TypeOK ==
    /\ usage \in [Orgs -> 0..MaxUsage] /\ least \in [Reports -> 0..MaxUsage]
    /\ status \in [Reports -> {"none", "pending", "generating", "ready", "failed"}]
    /\ org \in [Reports -> Orgs]
    /\ format \in [Reports -> {"pdf", "csv"}]
    /\ file \in [Reports -> {"none", "part", "whole", "cut"}]
    /\ pc \in [Reports -> Working \cup {"none", "done", "gone"}]
    /\ shown \in [Reports -> 0..MaxUsage] /\ total \in [Reports -> 0..MaxUsage]
    /\ monthly \subseteq Orgs /\ current \in Orgs \cup {"none"} /\ fired \in BOOLEAN
    /\ crashes \in 0..MaxCrashes /\ reached \subseteq Orgs

(* A ready PDF's rows never add up to more than its totals, so no share is     *)
(* above 100%, and a ready CSV has every row of its snapshot: usage recorded   *)
(* between the queries, or while the cursor runs, does not tear a document.    *)
DocumentConsistent ==
    \A r \in Reports : status[r] = "ready" =>
        /\ shown[r] <= total[r]
        /\ format[r] = "csv" => shown[r] = total[r]

(* The monthly run has one report at work at a time and a run comes to no      *)
(* organization twice, whatever fails, ends late or dies with the process      *)
(* (cron.ts:50-66): no two documents are built in memory together for it.      *)
MonthlyInTurn == /\ \A o \in Orgs : Live(o) => current = o
                 /\ monthly \cap reached = {}

(* Every report that is asked for comes to be ready or failed, or is orphaned. *)
EveryReportEnds ==
    \A r \in Reports : status[r] = "pending" ~>
                        status[r] \in {"ready", "failed"} \/ pc[r] = "gone"

(* A monthly run gives every organization its turn, whatever becomes of the    *)
(* reports of the others, unless the process dies.                             *)
MonthlyRunCompletes == monthly # {} ~> reached = Orgs \/ crashes > 0

(* Both: one failing report, query or organization stops no other work         *)
(* (index.ts:58-97, cron.ts:31-74).                                            *)
WorkEnds == EveryReportEnds /\ MonthlyRunCompletes

(* What a client of the gateway learns by polling is the abstract ledger.      *)
SeenPhase(r) ==
    LET got == Answer(r)
    IN  CASE got.code = 404 /\ r \notin Listed(org[r]) -> "absent"
          [] got.code = 410 -> "expired"
          [] got.code = 200 -> "available"
          [] got.code = 202 /\ got.body = "failed" -> "refused"
          [] OTHER -> "wanted"

Ledger == INSTANCE ReportLedger WITH
              phase <- [r \in Reports |-> SeenPhase(r)],
              open <- {r \in Reports : status[r] = "ready" /\ pc[r] = "catch"},
              about <- org,
              told <- [r \in Reports |-> IF status[r] = "ready" THEN total[r] ELSE 0]

(* Rows, files, crashes and failures implement the ledger: a report is wanted, *)
(* then available or refused, tells the usage of its organization at an        *)
(* instant between the request and the answer, and stays what it is; only one  *)
(* that its generator took for failed can still be withdrawn (index.ts:81-91). *)
ImplementsLedger == Ledger!Spec

(* renderPDF: "Returns a Promise that resolves when the PDF is fully written": *)
(* what a client downloads of a ready report is the whole document.            *)
ReadyIsWritten == \A r \in Reports : status[r] = "ready" => file[r] \in {"whole", "none"}
=================================================================================
