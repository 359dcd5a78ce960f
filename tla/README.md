# AI-GCM: models and proofs

TLA+ specifications of the parts of AI-GCM in which order, concurrency and failure
decide whether an organization's data is right: what the proxy answers and reports,
what the services make of its events, how the replicas share PostgreSQL, Redis, Kafka
and ClickHouse, what survives a crash, and what a browser keeps of a session. TLC checks
the models on small instances; TLAPS proves for every value of the constants all the safety
properties, action properties and refinements that the passing runs check.

Source paths are relative to the repository root (`src/...` in `PROJECT.json`, whose
`map` names the lines behind every definition).

## 1. The system

```
 web app ─HTTP─> api-gateway, auth-service        clients ──HTTP──> proxy ──HTTP──> AI providers
                                                                     │ Redis: response cache
                              Kafka: usage-events, alert-events <────┘
      ┌───────────────┬───────────────┬────────────────┐
 audit-service    cost-engine  analytics-processor  alert-engine ──HTTP──> ml-service
      │               │ alerts ───────┼──────────────> │
  PostgreSQL      PostgreSQL      ClickHouse      e-mail, PostgreSQL
      ▲               ▲               ▲                ▲
      └── api-gateway ┴───────────────┴────────────────┘
           │     └── report-service (PostgreSQL, files), key-vault (PostgreSQL)
 auth-service (PostgreSQL; Redis: sessions)
```

Each service runs in two or three replicas, the report service in one
(`infrastructure/k8s/base`). A component's state is what it keeps; "right" is what its
properties say.

| Component | State | Operations | What is hard | What must be right | Module |
|---|---|---|---|---|---|
| Kafka consumption of the Go services (`ConsumeClaim` of each) | topic, committed offset, assignment | take, mark, commit, join, leave, die | a former owner still at a message; marks lost or committed late | nothing committed past that was not handled | `ConsumerGroup` |
| audit-service, writer | `audit_log_chain`, `audit_seq` | append an event to its organization's hash chain in one serializable transaction | two writers, stale snapshots, failed statements, lost commit acknowledgements | no fork, gap or reused number; no silent loss | `AuditLedger`, `AuditChain` |
| audit-service, verifier | none | walk a chain and report violations | a table being extended while damaged | no false alarm, no missed damage | `AuditVerifier` |
| cost-engine | `usage_events`, `budget_spend` | record the cost, charge the budgets, check them | three autocommit statements with failures, lost answers, redelivery, the end of the month, budgets created and deactivated between them | every cost accounted; a budget's spend current | `CostEngine` |
| proxy | response cache | look up, decide, route or stream, store, publish | concurrent requests for one key, clients that leave, broken streams, a dead process, a slow or absent broker | billed as served; cached replies are real replies; the policies hold | `ProxyPipeline`, `Authz` |
| auth-service | users, refresh sessions | register, login, rotate, log out | GET and DEL of a rotation are two commands; failures between PostgreSQL and Redis | a dropped session stays dropped; logout is final; the inactive get nothing | `AuthSessions` |
| analytics-processor | an in-memory batch, three ClickHouse tables | batch, flush, merge, backfill | one batch shared by several claims, marked before it is written; merges and backfills in any order | every row accounted; the aggregates tell no more than the rows | `Analytics` |
| alert-engine | `alert_events` | mail, ask the ML service, store | redelivery; one of three steps failing | mailed and stored; no copies but by redelivery | `AlertEngine` |
| report-service | `generated_reports`, files | generate, monthly run, download | usage recorded between two queries, a crash between the states of a report | a ready report is consistent; what clients see only goes forward, unless the last update's answer was lost | `ReportLedger`, `ReportService` |
| key-vault | `api_keys`, `key_rotation_log` | create, rotate, deactivate | overlapping rotations, whose log is ordered by their starts; lost answers | the stored secret is one the log tells of and nobody has overwritten | `KeyVault` |
| api-gateway | none | routes to the above | pages of a list that grows; writes between another service's statements | as the service behind the route | in the modules of those services |
| web application, session | localStorage, a copy in each tab | load, guard, sign in, sign up, sign out | answers that come after the page is left, two tabs | token and user of one sign-in; no screen that waits for ever | `WebConsole` |
| web application, dashboard | state of the mounted page, theme | filters, notices, modals, timers, theme | timers of earlier clicks, three places that set the theme, one storage for all tabs | nothing undone, no tick that stays, the theme shown is the theme this tab chose | `WebScreens` |
| ml-service | model registry | train, predict, readiness | training beside predictions | a prediction by one training | not modelled |

## 2. Modules

**`ConsumerGroup`** is the one-partition consumer group all Go services use: `Produce`,
`Join`, `CommitOffset`, `LeaveGroup`, `CloseClaim`, `Die`, and the helpers of a handler
(`AtMessage`, `GoTo`, `MarkMessage`). The partition has one owner, but a worker that lost
it goes on with its message, so two workers may handle the same one. The proxy keys
messages by organization, so one partition holds all of an organization's events.
`AuditChain`, `CostEngine`, `Analytics` and `AlertEngine` extend it.

**`AuditEntries`** has the rows and their digests; **`AuditLedger`** is the abstract
specification: one event at a time is appended to its organization's ledger.
**`AuditChain`** has `writer.Write` statement by statement (`BeginTx`, `AllocSeq`,
`FetchPrev`, `InsertRow`, `Commit`) with the snapshot, the row lock of `audit_seq`, the
serialization failure of a changed row, constraint violations, connection errors, and a
commit whose acknowledgement is lost. It implements `AuditLedger` (`AtomicAppend`, the
identity mapping on `log` and `chain`). SHA-256 is idealised: a digest is the list of
what was hashed into it. A payload is the position of its event.

**`AuditVerifier`** has `Verify` as a set of violations of a table that the writer
extends (`Write`) and that loses rows, payloads and hashes (`Damage`). `PayloadText` is
the database's text of a stored JSON value. The walk is a condition on the rows that
`Verify` selects and not a recursion, so that it can be reasoned about.

**`CostEngine`** has the three statements of `process` as steps, with the failures of
each, the ones whose answer is lost among them, and the gateway's `CreateBudget` and
`DeactivateBudget`. `CheckBudgets` reads and does nothing: the driver of `go.mod` returns an
`INTEGER[]` as bytes, which do not scan into a `*[]int64` (`checker.go:64-75`), so every budget
row is skipped, no alert is published and no hard limit seen. What would follow from an alert is
not modelled. Costs are whole numbers; price tables are left out. **`Sums`** has their `Total`.

**`Authz`** has the rules of `authz.rego` as operators of a document and a request, with
Rego's undefined references; `deny_reasons` is a partial object whose values are true, and
`ExtractReasons` is what the handler makes of it. **`ProxyPipeline`** has `ServeHTTP`, one action per step that
reads or writes what others share. `written` is what a handler gave to net/http, `delivered`
what the client has read: they differ until the handler returns. `Kafka[r]` is how
`NewPublisher` ended in the replica that serves `r`; every replica has its own.
`Policies` is the document the policies see. The service gives them none (`EmptyData`);
`Loaded` is a document a deployment with a store would give them.

**`AuthSessions`** has each await of the four routes as a step, two commands for the
rotation's GET and DEL, `Abort` at every await, replies that do not arrive, expiry and
eviction. A session is the number of its creation and a cookie is its session.

**`Analytics`** has the consumer's batch (`TakeEvent` marks the message as it enters), its
`Flush` by size, ticker or `Cleanup`, and `FlushFails`, whose batch is gone although its
block may be in the table. `RacedTake` and `RacedFlush` are the outcomes of two claims of
one session that append to the slice at once, a data race: an element is overwritten, or a
flushed slice comes back. A row the driver refuses leaves no block to send, so that all the
batch is lost with it. A block writes `raw` and, through the two materialized views,
`daily` and `hourly`; `MergeDaily` adds the rows of a `SummingMergeTree` up, `MergeHourly`
keeps the last row of a `ReplacingMergeTree`, and both happen at any time. Time is counted in
half hours, so that a backfill's window can start in the middle of an hour. A row is counted,
its figures are not looked at.

**`AlertEngine`** has `processEvent` as mail, anomaly check and insert, each with its failure,
and the gateway's routes on the table: a dashboard walks the list page by page
(`OpenList` with a `Filter`, `NextPage`, with the ties of `created_at` in any order) and
acknowledges alerts while more of them are stored. `Filter` has the conditions on what an alert
keeps and the one on `is_read`, which an acknowledgement changes. `z.coerce.boolean` turns every
non-empty text into true: `is_read=false` lists the read ones, only `is_read=` the unread.

**`ReportLedger`** is the abstract specification of reports: wanted, then available or refused,
telling the usage of one instant after the request. That is the last word but for the reports in
`open`, which may be withdrawn until they are closed: those whose last UPDATE was made and its
answer lost, so that the catch is about to overwrite `ready` with `failed`
(`ReadyUnacknowledged`, `MarkFailed`).
**`ReportService`** has every await of `generateReport` and of the two renderers, the CSV
cursor's snapshot, the file that reaches the disk after the row says `ready`, the monthly run
over the organizations, downloads, and a death of the process that leaves generators
orphaned. It implements the ledger under a mapping that reads off what a client of the
gateway gets as an answer (`SeenPhase`).

**`KeyVault`** has `Store.Create`, the transaction of `Store.Rotate` with the row lock
PostgreSQL takes for its UPDATE, and `Store.Deactivate`, with statements that fail and
answers that are lost. `BeginRotation` is a step of its own, for `rotated_at` is `NOW()`, the
start of the transaction, however long its UPDATE waits: `begun` is that order, `rotated` the log
as a set, and `seen` what a rotation could see in it at its start. A ciphertext is the name of the
request that brought its key.

**`WebConsole`** has the zustand store as localStorage plus a copy in each tab that never hears
of the other's writes, `AuthGuard`'s effect, the login and sign-up forms, whose requests and
single-sign-on timer outlive the page, and the fallback to a demo session. **`WebScreens`** has
one action for each control of the dashboard that changes state, and the theme as saved,
preferred by the system, held by the provider and painted on the root, with another tab that
saves its own (`OtherTabToggles`); `ours` says that nobody has since this tab read or wrote it.
Notices, keys and
periods are small sets; numbers and layout are left out.

The `MC` modules give the constants their small sets, `_proofs` modules hold the theorems.
Two of these read several specifications side by side: `GatewayServices_proofs` the report
service and the key vault, `Console_proofs` the auth service, the browser's session and the
screens. The names of those that share a proof module are therefore their own (`VaultSpec`,
`ConsoleSpec`, `ScreenSpec`, `StoreLogout`, `OpenPage`...).
A definition commented "Mutation of X" is X with a plausible slip; `PROJECT.json` pairs
each with the property it breaks. They are in no specification.

## 3. What is checked

Every run ends in under four minutes on two workers. "States" are distinct states, after
symmetry where the run uses it.

| Run (module, cfg) | Instance and bounds | States | What it shows |
|---|---|---|---|
| `audit_chain` (MCAuditChain, AuditChain.cfg) | 2 workers, 2 organizations, 3 published events, 2 assignments, fairness | 444,650 | types; chains linked, counter one ahead, nothing lost silently; refinement of `AuditLedger`; every event is eventually settled and committed past |
| `audit_verifier` (MCAuditVerifier, AuditVerifier.cfg) | 4 rows, 2 damages, 2 times | 3,693 | no false alarm about order or links; interior gaps and changed hashes are reported; a link alarm is real |
| `cost_engine` (MCCostEngine, CostEngine.cfg) | 2 workers, a budget of the organization and one of a team, 2 published, 2 assignments, 2 months, overflow at 5 | 2,421,252 | every cost in a budget, on its way or missed for a known reason; nothing unbilled silently; a budget there from the start misses nothing without a failure |
| `proxy_pipeline` (MCProxyPipeline, ProxyPipeline.cfg) | 2 requests of 9 kinds, `Loaded`, one replica with Kafka and one whose publisher is nil, deaths, fairness | 353,840 | billing, cache and replies agree with what the provider did; nothing denied reaches a provider, though evaluation fails open; every request ends |
| `auth_sessions` (MCAuthSessions, AuthSessions.cfg) | 4 requests, 3 sessions, 1 user | 345,493 | dropped for good, one successor unless raced, logout final, inactive locked out |
| `analytics` (MCAnalytics, Analytics.cfg) | 2 workers, 2 published events of 3 kinds, 2 hours, batch of 2, 2 assignments, 1 race, 1 backfill | 3,663,592 | what is committed past is in the table, in a live batch or known to be lost; copies bounded by assignments and races; daily sums exact and hourly rows never above the truth, however merged |
| `alerts` (MCAlertEngine, AlertEngine.cfg) | 2 workers, 2 organizations, 2 published events of 3 kinds, 2 assignments, 1 anomaly, 1 acknowledgement | 3,265,914 | alerts committed past were stored and mailed or the failure logged; one copy per delivery; a dashboard that pages to the end of any list but that of the unread misses none |
| `reports` (MCReportService, ReportService.cfg) | 2 organizations, one CSV asked for and the two monthly PDFs, 1 usage event, 1 death, FETCH of 1, fairness | 208,421 | documents are consistent; the monthly run makes one at a time; refinement of `ReportLedger`; every report ends or is orphaned, the monthly run reaches everyone |
| `keys` (MCKeyVault, KeyVault.cfg) | 3 requests, 1 key from before, fairness | 79,382 | the stored secret is that of a logged rotation that no other followed; what a caller was told holds; nobody waits for ever at a row |
| `web_console` (MCWebConsole, WebConsole.cfg) | 2 tabs, 2 addresses, 2 requests or timers, fairness | 107,748 | a session is of one sign-in; a sign-out by the last writer leaves nothing to be read; every spinner and form settles |
| `web_screens` (MCWebScreens, WebScreens.cfg) | 3 notices, 2 periods, 2 keys, 2 timers, fairness | 6,560 | no tick stays; nothing read or dismissed comes back; the theme painted is the theme this tab chose |

One run is expected to be violated, for a comment says what the code does not do:
`verifier_mismatch` (VerifierMismatch.cfg, `MismatchMeansTampered`). `verifier.go:7` says
"mismatch = tampered", but the `payload::text` that `Verify` hashes is PostgreSQL's own text of
a JSON value and not the text `Write` hashed: an untouched row has a `hash_mismatch`.

More configurations of this kind, each with one violated property, are run by hand
(`tlc -config X.cfg` with the MC module):

| Configuration (module) | Property | What the code does |
|---|---|---|
| CostTeamSpend.cfg (MCCostEngine) | `TeamSpendCurrent` | team budgets are checked but never charged |
| ProxyLeak.cfg (MCProxyPipeline) | `NoLeakForwarded` | "blocks data leaks" (`README.md:4`), but with no document every flagged prompt is forwarded |
| ProxyGemini.cfg (MCProxyPipeline) | `NoLeakForwarded` | a prompt in Gemini's format is not found, so not scanned, whatever the policies |
| ProxyNoKafka.cfg (MCProxyPipeline) | `ServedWithoutKafka` | "usage events will be dropped" (`cmd/proxy/main.go:58`), but the nil publisher panics and the reply is lost |
| ProxyHeld.cfg (MCProxyPipeline) | `ReplyNotHeld` | a reply waits for the broker |
| ProxyStreamCut.cfg (MCProxyPipeline) | `PartialStreamCounted` | a stream that breaks reports no tokens |
| AnalyticsBackfill.cfg (MCAnalytics) | `BackfillFillsGaps` | "backfills any gaps" (`hourly.go:5`), but the window starts in the middle of an hour, whose row is replaced by a smaller one |
| AlertUnread.cfg (MCAlertEngine) | `UnreadPagingMissesNothing` | an acknowledgement takes an alert out of a list of the unread, the next ones move up, and one moves past the next page's offset |
| ReportWritten.cfg (MCReportService) | `ReadyIsWritten` | "resolves when the PDF is fully written" (`pdf.ts:41`), but the row is `ready` while the file's stream has yet to write |
| WebDemo.cfg (MCWebConsole) | `DemoOnlyWhenDown` | "If auth service is not running locally" (`login/page.tsx:78`; `signup/page.tsx:114` alike), but a refusal signs in to a demo session as well |

`NewestRowIsStored` of `KeyVault` needs no configuration of its own: in the place of the properties
of KeyVault.cfg it is violated. What the index on `(key_id, rotated_at DESC)` suggests
(`0006_keys.sql:33`), that the newest row of the log is the stored secret's, is not so when the
rotation that began first commits last.

Divergences seen in the models without a configuration:

- "All other thresholds trigger alerts only." (`checker.go:35`), but no row of `budgets` scans
  (`checker.go:64-75`), so no threshold is ever alerted.
- "deny_reasons returned to client on block" (`evaluator.go:98`), but `extractReasons` looks for
  strings among values that are `true` and finds none (`DenialsUnexplained`).
- A registration accepts an e-mail that another organization has (`index.ts:70` of the auth service
  says otherwise).
- `refresh.ts:36` "prevents replay after rotation", while two overlapping rotations both succeed
  (`raced` in `OneSuccessor` is exactly that case).
- A dashboard that stops at the `total` of its first page can miss an alert (the comment at
  `NextPage`).
- A report can be `ready`, be downloaded, and be `failed` a moment later (`Withdraw`).
- Two tabs can show different themes, and the one saved is that of the last toggle.

### Bounds

`MaxLog`, `MaxRebalances`, `MaxMonths`, `SpendCap`, `MaxRows`, `MaxDamage`, `MaxTokens`,
`MaxSessions`, `MaxClock`, `MaxBackfills`, `MaxRaces`, `MaxAnomalies`, `MaxAcks`, `MaxUsage`,
`MaxCrashes`, `MaxRequests` and `MaxTimers` bound counters that the code does not bound; each
is a guard of one action (of a damage, a publication, an assignment...). They are small, and
chosen so that the hard cases fit. Two workers are the fewest that collide, and two assignments
give a takeover in which the former owner is still at its message, or a crash and a
redelivery. Three events give the audit chain a predecessor, a failed write and a redelivery;
two published costs against `SpendCap = 5` overflow `spent_usd` when the first is delivered
twice. Three sessions give a rotation that races and a successor of it; four rows and two
damages give a gap with damage next to it. Four half hours and a window of two give a backfill
that cuts an hour in two; a batch of two can be flushed full, by the ticker or at the end of the
session. One usage event can fall between any two queries of three reports. Three requests at one
key give two rotations that wait for a third, two tabs give a sign-out in one and an answer in the
other, and two timers give a tick that an earlier click's timer ends. The theorems have no bounds
but those of the constants' assumptions.

Workers are interchangeable in every property and action, and so are the requests and
the slugs of the auth service; the runs `auth_sessions`, `cost_engine`, `analytics` and `alerts`, of invariants and
action properties only, use them as symmetry sets. Runs with a liveness property use none.
`CHECK_DEADLOCK FALSE` stands where the system may really stop: every request done or
every bound reached. The two web runs check deadlock: a user can always do something.

### Fairness

Nothing is fair about crashes, errors, takeovers, users or publications.

- `AuditChain`: a handler whose process lives goes on (a goroutine), the session commits
  marks periodically (sarama's `AutoCommit`), and the group assigns an unowned partition.
  `EventuallySettled` is false without the rollback of a failed transaction, whose lock
  every other writer would wait for.
- `ProxyPipeline`: a handler's goroutine goes on, and a call of a provider ends.
  The second is not the code's doing, for no `http.Client` has a timeout; it is assumed.
- `ReportService`: a generator's promise goes on (Node's event loop), by answering or by
  throwing, and the monthly loop takes its next organization. A crash is not fair, and
  `WorkEnds` says that a report ends unless its process died: nothing looks for orphans.
- `KeyVault`: strong fairness of each handler: it is disabled while another transaction holds
  the row, and PostgreSQL queues those that wait for a lock.
- `WebConsole`: React runs the effects of what it renders, timers fire, and a browser ends
  every fetch. `WebScreens`: a timer fires.

## 4. What is proved

TLAPS proves, for all constants that satisfy the named assumptions (`NobodyAssumption`,
`EventsAssumption`, `BudgetsAssumption`, `CallOK`, `ScreensAssumption`...), which only say
what kind of thing each constant is:

| Module | Theorems |
|---|---|
| `AuditChain_proofs` | writer: `TypeCorrect`, `ChainIntegrity`, `CounterIntegrity`, `TailOwnership`, `LocksReleased`, `NothingLostSilently`, `Refinement` (`Spec => AtomicAppend`); verifier: `TableTyped`, `NoFalseAlarms`, `DamageFound`, `LinkAlarmsReal` |
| `CostEngine_proofs` | `TypeCorrect`, `NothingUnbilledSilently`, `CostsAccounted`, `SpendIsCurrent` |
| `ProxyPipeline_proofs` | `TypeCorrect`, `PoliciesHold`, `BillingFaithful`, `CacheFaithful`, `RepliesAgree`, `EmptyDataAllowsAll`, `DenialsUnexplained` |
| `Analytics_proofs` | `TypeCorrect`, `RowsAccounted`, `TablesExact` |
| `AlertEngine_proofs` | `TypeCorrect`, `AlertsNotLost`, `CopiesCounted`, `PagingComplete` |
| `GatewayServices_proofs` | reports: `TypeCorrect`, `DocumentsWhole`, `MonthlyOneByOne`, `LedgerImplemented` (`Spec => ImplementsLedger`); keys: `VaultTyped`, `RowLockExclusive`, `SecretsLogged`, `AnswersKept` |
| `Console_proofs` | auth service: `TypeCorrect`, `DroppedStayDropped`, `RotationSingle`, `LogoutIsFinal`, `InactiveRefused`; browser: `SessionsWhole`, `WriterReloadsSame`; screens: `ScreensTyped`, `DocumentFits`, `TicksAreTimed`, `ReadingsStay` |
| `ConsumerGroup_proofs` | lemmas on the group's types, on what its steps keep, and on sums, for the four services that consume |

The arguments:

- **AuditChain**, `IInv == TypeOK /\ ChainLinked /\ CounterAgrees /\ WriterAtTail`. A
  commit keeps the chain linked only because the lock holder's number and previous hash
  are those of the chain's end. That survives another worker's commit because a waiting
  worker whose snapshot is old will find the counter changed. `Refinement` maps `Commit` and
  `CommitUnacknowledged` to `Record`, `Publish` to `Publish`, all else to stutters.
  `LocksReleased` says what `EventuallySettled` rests on: whoever waits for a row waits for a
  transaction that has statements left and waits for nobody.
- **NoSilentLoss, NoUnbilledCommit, NoAlertLost and EveryRowAccounted** speak of the committed
  offset. Their strengthening says the same of every worker's position and marks, which later
  become the offset, and uses `Covered` of `ConsumerGroup_proofs`: no step of the group moves a
  mark beyond what a handler has finished or a start has passed over.
- **AuditVerifier**, `TableInv`: the rows left are rows that were written, in their order
  (`Known`, `Ordered`), a changed hash is one that was hashed from more than the row it
  replaced, and a link that does not fit has a missing or changed row before it (`Linked`).
  Each alarm of `Verify` is then traced to one damage, and each damage to an alarm.
- **CostEngine**, `TypeOK` with every handler's position inside the topic (`InTopic`):
  otherwise a failed message need not be one. For `CostsAccounted` the sums are sizes of sets of
  units (`Sums`), not recursive folds: a step that adds a cost to one side adds one set of units
  there, and one lemma per step shows the same for the other side. `SpendIsCurrent` adds that a
  budget there from the start and still active has missed nothing unless a message of its
  organization failed (`NothingMissed`); `CostsAccounted` gives the sum.
- **ProxyPipeline**, `RequestInv` for each request (what its handler knows at each label,
  `Agrees` for the event and reply at hand) and `CacheInv`: an entry of the cache was filled
  by a request that has since left the provider, so that its charge does not change any more.
  `DenialsUnexplained` is a fact about the rules and `extractReasons`, for every document and request.
- **Analytics**: a batch holds only messages its handler is past (`Held`); what is behind a
  position is written, batched or lost (`Promised`); and the rows of a message plus the
  handlers that may still write it never exceed assignments and races (`Counted`), which the
  bound on copies alone does not give, for a flush adds a row without an assignment. `Tabled`
  adds that no message has a row before it is published; then a merge of parts adds up to the
  same day, and an hour that is written again is never above the rows.
- **AlertEngine**: `Counted` is the same argument for each of a handler's three steps; `Stored`
  numbers the copies of a row, and `Told` is the promise behind the position. `PagingComplete`
  rests on `Walk`: of an alert still due, more alerts than the offset are not older, and rows
  are only added, so that the next pages still come to it. A filter other than that of the unread
  never lets a row out of its list: what an alert is does not change, and a read one stays read.
- **ReportService**, `Progress` for each report: row, file and document agree with where its
  generator is, and what it has read is the usage of its organization at an instant since the
  request (`Current`); a generator in its catch may have left a row that is ready. `LedgerImplemented`
  maps `open` to just these reports, so that `MarkFailed` of one is `Withdraw`, and maps the steps that a client can see (`SeenPhase`)
  to the ledger's, all others to stutters. `MonthlyOneByOne` needs that nobody is before or behind
  the run until its schedule fires (`InTurn`).
- **KeyVault**: a request that is past its UPDATE holds the lock of its row and no other does
  (`RowsHeld`), and a rotation sees in the log only those that are over (`SeenTold`), so that no
  rotation in the log has seen the one that commits. What a caller
  was told keeps true because the table only grows (`TableGrows`).
- **AuthSessions**, `Local` for each request and `Lineage`: a session with a successor is
  deleted, a closed one is in nobody's hands, one in two hands was raced for.
  `OneSuccessor` alone is not inductive: it has to know that a session being exchanged
  has no successor yet.
- **WebConsole**: an answered request has the address its form sent and, if it was accepted, an
  account (`CallOK`); without it a late answer could put anybody's user beside a token.
- **WebScreens**: the type of the mounted page's state, which depends on the page, and that a
  tick has a timer (`TickTimed`), the safety behind `TicksEnd`: with a fair timer no tick stays.
  `ThemeFits` is inductive with it: every step that changes one of the three themes sets the others.

Model-checked only: the liveness properties `EventuallySettled`, `EveryRequestEnds`,
`WorkEnds`, `EveryRequestAnswered`, `EveryScreenSettles` and `TicksEnd`, which need fairness and
ENABLED and are beyond the prover, and the violated properties of section 3. The type
invariants of the modules whose run lists none are proved; they hold on the runs' instances too.

## 5. What is not modelled

- Hashing, encryption, signatures, prices, regular expressions of the DLP scanner and
  token estimates: data that the models reduce to what the properties tell apart.
- `budget.rego`: no query evaluates it. `WriteBatch` of the audit writer, Google sign-in
  and TOTP: nothing calls them.
- The gateway's routes that are one query each (audit entries, budgets, keys, summaries), and
  its check of a token. The SDKs hold no state between calls.
- The landing page, its animations and shaders; the figures and the layout of the dashboard,
  whose pages call no service.
- The ML service: numerical estimators of external libraries. `AlertEngine` takes any answer of
  it; its registry, replaced while predictions read it, is listed as a hazard.
- A partition is one log; events of different partitions do not interact, except in the
  analytics processor, where the claims of other partitions are the races.
- A broker that loses acknowledged messages, a PostgreSQL that loses commits, a Redis
  that runs scripts: assumed not to happen, or not used.
- Deployment files and partition DDL: the models take from them the numbers of replicas and what
  is a refused row.

## 6. Plan

The modules are written and their safety is proved. What is left:

1. What liveness rests on and safety can say, as `LocksReleased` and `TicksAreTimed` do for two
   of the six properties: the screens of `WebConsole` (a busy form has a request under way), the
   requests of `ProxyPipeline`, and the reports of `ReportService` (one at work has a generator
   or was orphaned by a crash).
2. What the violated configurations show, as theorems about the code as it is: with the
   document the service has, every flagged prompt is forwarded unless it fails for another
   reason; a list of unread alerts misses none that nobody acknowledged.
3. A registry of the ML service, and a composition of proxy, audit service and cost engine over
   one topic, if a reader needs them more than one of the runs there are.
