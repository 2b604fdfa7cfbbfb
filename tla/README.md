# A verification project for the Vungu RDC spatial data portal

The portal is the backend of a rural district council in Zimbabwe: a Fastify
server (`server.js`, `src/`) on PostgreSQL/PostGIS. Citizens apply for
development permits, reserve stands and pay fees; officers circulate, inspect
and determine the applications, allocate stands and keep the land register; a
worker tells the council's ERP of every change of the register.

The server keeps no state of its own worth the name: everything is in the
database, and every request is a few statements with `await`s between them. A
statement outside `pg.transact` or an explicit `BEGIN` commits by itself. So
the hard part of this code is the same everywhere: **what one request has read
is acted on later, while other requests, callbacks, workers and operators do the
same, and a server may die between any two statements.** The models are built
around that: one action per statement that another request can come before.

This directory holds TLA+ modules that model those parts of the system, TLC
configurations that check them on small instances, and proofs, checked by
TLAPS, that the most important properties hold for instances of every size.

Paths below are relative to the repository's root, except those of this directory.

## 1. Inventory

| component | source | state | modelled |
|---|---|---|---|
| GMS outbox, ERP adapter, delivery worker | `src/services/gms/outbox.js`, `erpAdapter.js`, `src/routes/gms-integration.js` | `integration.outbox_event`, row locks, calls under way | `GmsOutbox`, `ErpDelivery` |
| Permit workflow, committee, certificate, appeals | `src/config/permitWorkflow.js`, `src/routes/development-management.js`, `appeals.js` | `permit_application`, `committee_meeting`, `agenda_item`, `stage_inspection`, `occupation_certificate`, `application_appeal` | `PermitWorkflow` (partly) |
| Payments and gateway drivers | `src/routes/payments.js`, `src/services/paymentDriver.js` | `payments`, the gateway's own record, fees released | `Payments`, `ReceiptBook` (partly) |
| Stands and their allocation | `src/routes/stands.js`, migrations 062, 105, 107, 172 | `stands`, `stand_allocation`, row locks | `StandAllocation`, `LandRegister` (partly) |
| GMS inbound events, reconciliation | `src/services/gms/inbound.js`, `reconciliation.js` | `inbound_event`, `account_link`, `billing_status`, `reconciliation_item` | `GmsInbound`, `ErpBook` (partly) |
| GMS layer editing | `src/routes/gms-editing.js`, `src/services/gms/editing.js` | `edit_session`, `feature`, `feature_version` | `GmsEditing`, `FeatureRegister` (partly) |
| Plan workbench | migrations 139, 148, 150, 161, `src/services/planMatrixImport.js`, `src/routes/planWorkbench.js` | `plan_instrument`, its matrix and sign-offs, zone polygons | `PlanVersions` (partly) |
| Rendered map tiles | `src/lib/tileCache.js`, `src/routes/tiles.js`, `ogcServices.js`, `src/services/spatialChangeListener.js` | the two-tier cache, renders under way, a LISTEN connection | `WmsTiles` (partly) |
| Parcel import, SurveyPro importer | `src/services/gms/parcelImport.js`, `surveyproImport.js`, `surveyproSchedule.js` | `land.parcel`, `surveypro_import_run`, an advisory lock | its outbox side only |
| Inspection bookings and dispatch | `src/routes/inspections.js` | `inspection_bookings`, `inspection_queue` | the release by a fee only |
| Mail queue | `src/workers/emailWorker.js`, `src/services/notifier.js` | `notifications_outbox` | no |
| Plan review, objections, notices, council registers, health, documents, surveyor tools, other maps, QGIS bridges, authentication, tenancy, administration | see `components` in `PROJECT.json` | CRUD rows, files | no |

### What each modelled component does, and what makes it correct

**Outbox.** *State*: one row per event (status, attempts, due date), the row
lock of the worker that delivers it, its HTTP call. *Operations*: enqueue in the
import's transaction; a tick every 30 s per server process; claim (`FOR UPDATE
SKIP LOCKED`), call, record; operator retry and cancel. *Interacts* with the
register's imports (a shared transaction), the ERP (calls with an idempotency key)
and the console (the status column). *Hard*: a lost call, a call processed after its
10 s timeout, two workers, an operator in the middle of a delivery, a dead server.
*Correct* when events and changes commit together, one worker at a time sends an
event, the console never claims what the ERP does not hold, a concluded event stays
concluded, and every event is concluded.

**Permit workflow.** *State*: the status of the case (a statutory state machine), its
optimistic-lock revision, the committee's meetings, attendance and agenda items, the
construction stages, the certificate, the appeals. *Operations*: save the case, write its status, decide, return
to a role, record an outcome, score a stage, certify, lodge and determine an appeal, and
the paid fee (from the payments component). *Hard*: seven
handlers read the status and write it later; gates (transition, committee,
quorum, stages) are read before the write they guard. *Correct* when a write is
lawful from the status it finds, no officer saves over another's save they have not seen, and
no determination, outcome or certificate lacks what it must rest on. The last is not so of every determination: see finding 3.

**Payments.** *State*: the row (status, receipt number, provider reference), what
the gateway holds, what has been released. *Operations*: initiate (with a call
to the gateway in the middle), callback, cashier's confirmation, poll, cancel,
`applyPaid`. *Interacts* with the gateway, inspection bookings and permits.
*Hard*: repeated and late callbacks, MAX+1 receipt numbers, cancellation racing
settlement, deaths. *Correct* when receipts mean money, come from one book in order, are permanent, money taken
is receipted in the end, and money that cannot be is shown where somebody will look.

**Stands.** *State*: status, reservation and its deadline, the allocation
register, row locks, transactions. *Operations*: reserve, release, create, edit,
withdraw, merge, split, allocate, revoke. *Hard*: two tables that must agree,
locks taken on one of them only, MAX+1 reference numbers, a trigger that reads what
has committed. *Correct* when no stand is allocated twice, the tables agree, reservations hold and
no two active stands overlap that a trigger could have kept apart. An approval needed
for an allocation is a row of `council_ops` that no lock of the allocation protects.

**Layer editing.** *State*: edit sessions (status, edits), features with a version number,
and a row of history per version. *Operations*: open, autosave, submit, abandon, approve, reject,
return, restore. *Hard*: every handler but reject and return writes the session by id after reading it;
approvals of several sessions meet on the same features; an approval that conflicts is rolled back
and answered by one more statement. *Correct* when an edit extends the version it was made from, the history
only grows, and the published feature is its newest row.

**Inbound events and reconciliation.** *State*: the log of events, links of parcels and
accounts, the newest reading of each account, the open problems. *Operations*: a delivery (one
transaction), a reconciliation run (one transaction of six statements, each with its own snapshot), an operator's
resolution. *Hard*: redelivery, reordering, two events under one key, overlapping runs. *Correct* when
an event counts once, a newer reading never gives way, and a run leaves open what it found.

**Plan workbench.** *State*: the versions of a plan, each with status, predecessor, matrix,
sign-off, and the polygons filed under it. *Operations*: status change with superseding, new version,
matrix import, sign-off, zones drawn. *Interacts* with every reader that asks under which plan a parcel is
judged. *Hard*: all are database functions whose statements see what others have committed
meanwhile, and only two of them lock the plan. *Correct* when versions are in order, a status moves by the
table, and polygons pass to the version that replaces theirs.

**Rendered tiles.** *State*: an LRU cache in the process with limits on entries and bytes, Redis behind
it, renders shared by the requests that wait for them, layers heard of and not yet flushed. *Operations*: a GetMap
request with its awaits, the listener's notices and flush, a saved QGIS project. *Hard*: pictures drawn
before an edit and stored after its flush; a sweep of Redis nobody waits for; notices lost with a connection.
*Correct* when the cache keeps its limits, and an old picture is forgotten in the end.

`PROJECT.json` lists the hazards of this code under `hazards`, each at its line.

## 2. Plan

Modules, in order of importance to the council. All eight are done.

1. `GmsOutbox` with `ErpDelivery`, the abstract promise it implements.
2. `PermitWorkflow`: one case, its committee and its appeals.
3. `Payments` with `ReceiptBook`: fees, receipts and what they release.
4. `StandAllocation` with `LandRegister`: the register of stands.
5. `GmsInbound` with `ErpBook`: what the ERP says, and the reconciliation with it.
6. `GmsEditing` with `FeatureRegister`: edits approved against versions.
7. `PlanVersions`: the plan in force and its polygons.
8. `WmsTiles`: the tile cache and the news that empties it.

What is left for somebody who goes on: the mail queue (what a crash repeats, what it never loses,
against an abstraction of the shape of `ErpDelivery`); the SurveyPro run (its
advisory lock and its row); the browsers behind `WmsTiles` (ETags of an edition on older pictures); a model of the inspection
bookings, once their handlers have conditions to keep.

## 3. Modules

Every module is parameterised by its sets and bounds, declared as CONSTANTS with named
assumptions. The bounds are named `Max...` in the modules (or say `bound:` where
they are declared), and are conjuncts of the guards. `MC*` modules give the constants the values
a `.cfg` cannot express. A definition that begins with the comment *Mutant* is not part of
the specification: it is the form a plausible bug would give to the definition after it,
and is kept to show that each property can fail.

### `ErpDelivery`, `GmsOutbox`, `MCGmsOutbox`

`ErpDelivery` says what the outbox promises, with no workers, locks or network in it:
`Publish` with the change, `ErpLearns` at any time after, `Confirm` only what the ERP
holds, `GiveUp`, `Reopen`, `Withdraw`. It is at-least-once and says so.

In `GmsOutbox`, `BeginImport`, `Enqueue`, `CommitImport` and `RollbackImport` are the
transaction of `importGeneralPlan` with `enqueue(client, ...)` in it; what it
wrote is invisible until `CommitImport`. `Tick` takes the snapshot of `deliverDue`;
`Claim` is `deliverOne` up to its POST, `Skip` its early return; `ErpProcesses` and
`LosePost` are the network and the ERP; `DeliveryThrows` and `RecordReply` are the two
ways `deliver()` ends, each with the UPDATE and COMMIT that follow; `Abort` is a
death of the server or an error of the database, which frees the row. `Retry` and `Cancel` are the console's handlers; both
wait for the row lock and look at the row again. `worker` is the program counter of
a process, `holder` the row locks, `wire` the calls whose fate is open: a caller that has
given up leaves its call there.

The order of a batch is not modelled (any order is allowed); the length of a back-off is not (`due` turns TRUE at any time).
`ErpDelivery` is instantiated with `published <- changes`, `known <- received` and
the status column read as its ledger (`LedgerOf`).

### `PermitWorkflow`, `MCPermitWorkflow`

One application. `req[u]` is the request of user `u` between two statements: which
statement comes next, the status it read, what it will write and what it rests on.
`StatusRead`/`StatusWrite`, `DecideRead`/`CommitteeGate`/`DecideWrite`,
`ReturnRead`/`ReturnWrite`, `CertifyRead`/`CertifyInsert`/`CertifyApprove`,
`LodgeRead`/`LodgeInsert`/`LodgeMark`, `AppealWrite`/`RemitWrite` and
`OutcomeRead`/`OutcomeWrite` are handlers cut at their awaits; `Abandon` is a 409 or
a dead server. `Transitions` is the table of `permitWorkflow.js`, `Lawful` the check with
the administrator's override. `SaveCase` is one step: its UPDATE repeats the check of the
revision. `FeePaid` is what `applyPaid` does to an application.

`AppealStates` merges the procedural statuses of an appeal into *open* and the decided ones
with their decision: no guard tells more apart. Variables marked *history* (`basis`,
`missed`, `quorate`, `heard`, `built`) are what the properties remember; no guard reads
them. They are needed because the code lets the thing a decision rests on be
removed afterwards, and the properties are about what was true when it mattered.

Three properties say less than a reader may expect. `CurrentScreenMissedNoSave` is about saves: the revision is
raised by the two PATCH routes only (migration 097), so a determination, a return, an appeal, a certificate
or a fee changes the status under a screen that stays current. `OutcomeWasQuorate` says that the meeting had its quorum at some time,
since attendance may be edited between the check and the write. `GatedDeterminationIsBacked` is about the two
handlers with a committee gate or an override; of all of them it would be false (finding 3).

### `ReceiptBook`, `Payments`, `MCPayments`

`ReceiptBook` is what the council promises of its receipts: they are torn from one book, in order and with none
missing, one for each payment whose money is there, and what a payment is for is released with its receipt.
`Payments` implements it with `number <- receipt` and `last <- MaxReceipt`, the `MAX` that `nextReceiptNumber`
selects.

A payment is initiated (`Initiate`, then the gateway's answer, then `Handoff`, which stores the reference),
settled by `applyPaid` (`TakeNumber`, then `Settle` or `SettleRollsBack`) from `Webhook`
or `Confirm`, or cancelled (`CancelRead`, `CancelWrite`). `Poll` and `PollThrows` are
the poll handler as it is: it fails after the gateway has answered. `Releases` is what
`applyPaid` does to the booking or the permit. The fallback of `nextReceiptNumber` to random
digits cannot help: its query fails inside a transaction that is then aborted, so the
failure is a `Die`. `asked` and `taken` are the gateway's: the payments it asks the payer for,
which may be one it answered with an error or not in time, and those it holds the money of; `ref` are those a callback can find.
The status `refunded` is in the table's CHECK and is written by no
handler.

### `LandRegister`, `StandAllocation`, `MCStandAllocation`

`LandRegister` is the promise: grants are entered one after the other, each of a stand on offer that nobody holds; a
revocation marks its entry and puts the stand back on offer; a granted stand is else on offer only if somebody sets
its status by hand. In `StandAllocation` the register is the entries up to `LastRef`, and what is on offer the status column.

Geometry is a fixed set of plots per stand; two stands clash when they share one, as in
the trigger `stands_no_overlap`. A transaction holds its row locks between its steps, and its writes are seen at its COMMIT.
`Reserve`, `Release`, `Withdraw` and `RequireMinister` are single
UPDATEs and single steps. `Create`, `Edit`, `Reparcel` (merge and split), `Allocate` and
`Revoke` begin; the `...Commit` actions end them; `Fail` is any ROLLBACK. In between lie the statements
whose trigger looks: one `InsertChild` for each parcel a merge or split inserts, `InsertEntry` with the UPDATE that marks the stand allocated, and
`FreeStand`, the second UPDATE of a revocation. A look and the COMMIT are never one step. `Permitted` is
the row-level policy `citizen_reserve`. `Revoke` locks no stand, as in the code: its
first statement updates the register.

`DecideLayout` is `PATCH /registers/estate-approvals/:id`: any status of an approval may follow any other, so `approved`
comes and goes, also between an allocation's read of it and its COMMIT. One approval stands for whichever
a request names: the handler does not ask whether it is about this stand.

Two variables are history, kept by `Remember` beside every `Step`. `unseen` has, for a transaction whose trigger has looked and that has not
committed, the stands that came to be active since on the same ground. `effective` has the officers in whose allocation under way
the approval was in effect while the stand needed it.

### `FeatureRegister`, `GmsEditing`, `MCGmsEditing`

`FeatureRegister` is a log per feature that only grows: `Publish` a session's edits, each
made from the newest version, or `PutBack` an earlier one at the end. `GmsEditing` shows the
handlers cut at their awaits: `ReadLive` then `SaveWrite`, `SubmitWrite` or `AbandonWrite`;
`ReviewRead`, `Validate`, then a transaction that locks one feature after the other (`LockEdit`, or
`Conflict`) and ends in `ApproveCommit` or, after a conflict, in `ReturnConflicting`, a statement of its own.
`Restore` is one step: its one UPDATE waits for the feature's row, and the row of history it reads never changes. `body` stands for a feature's contents: the
sessions whose changes it carries. `from` is a history field, the version an edit was made from;
the refinement maps `history` to the log, so that the comparison of versions has to make it
equal to the newest.

### `PlanVersions`, `MCPlanVersions`

One title of one authority. `ChangeStatus` is `set_plan_status` up to its first UPDATE of the plan,
`Supersede` the UPDATE of the predecessor and the choice of polygons, and `StatusCommit` and
`SupersedeCommit` the COMMIT of either. `VersionCheck`, `VersionInsert` and `VersionCommit` are
`new_plan_version`, which locks nothing. `CellWrite` and `CellCommit` are a matrix import: its
trigger reads whether the plan is frozen when the cell is written, and the import commits later.
`Draw` is a polygon inserted on the map, filed by the trigger of migration 148 under *a* plan of
the title (`LIMIT 1` without an order, so any). The matrix is one cell. `met` is history: the plans an import was under
way in while they were being approved; `Noticed` keeps it beside every `Step`.

### `ErpBook`, `GmsInbound`, `MCGmsInbound`

`ErpBook` takes, of the events under one idempotency key, one, with all it says, and keeps the newest
reading of each account. In `GmsInbound` a delivery is `Receive` (the insert that
the unique `event_id` and key make wait or ignore), a `HandleRow` for each row the handler locks, and
`CommitEvent`; a run is `BeginRun`, per check a `RunCheck` and its `Upsert`s, then `FindStale`, a `ClearItem` for each item
found, and `CommitRun`. What a transaction has written is in its record until it commits. `moved` is
history: the problems that came or went since no run was under way.

### `WmsTiles`, `MCWmsTiles`

A picture is the pair of editions (table, style) it was drawn from. `Hit`, `Ask`, `Found`, `Promote`,
`Join`, `RenderEnds`, `RenderFails` and `Store` are GetMap between its awaits; `map` is
the JavaScript `Map`, with its order of insertion in `older`, and `SetL1` is `_setL1`: the two loops of evictions together take
the fewest of the oldest entries that make room (`EvictFor`). The bytes of the entries are counted as a set (`BytesOf`). `Edit` is any
committed write, `Hear` and `Flush` the listener, `Sweep` the unawaited deletion of a layer's keys
in Redis, which may stop half way; `Drop` loses what is on the connection. `Draws` says which layer's rows a
tile shows and `Name` under which name it is published, hence cached; the two are unrelated constants, because the project file is: the flush
knows a layer by its id and by the id without `vungu_` (`Spellings`), and the repository's own `vungu-project.qgs`
publishes `vungu_beyond_peri_urban_zones` as `gweru_beyond_periurban_zones` (272) and `country` as `zimbabwe` (6380). A tile under such a name is
`Unreached`. `SaveProject` and
`StyleChange` are a saved QGIS project and its announcement. `Restart` leaves Redis. Age is counted in
halves of the time to live: `Expired` is the second half's end. `missed` and `stray`
are history: why a stale picture may still be in the cache.

## 4. Runs

Every run takes between some seconds and three minutes with two workers. `CHECK_DEADLOCK FALSE` everywhere: a
bounded behaviour of these systems may really stop (all events delivered, all bounds
spent).

| run | instance | shows |
|---|---|---|
| `GmsOutbox_delivery` | 1 event, 2 importers, 2 workers, 1 operator, 2 attempts, 2 retries, 2 deaths, two replies; fairness; 67,390 states | the outbox agrees with the register, sends once at a time, claims only what the ERP holds, keeps what is settled, budgets the attempts it records, refines `ErpDelivery`, and concludes every event |
| `PermitWorkflow_hearing` | an Executive Officer and a planner, 1 meeting, 1 member, 2 revisions; 212,934 states | no save over a save, no outcome without quorum, no determination through the gate without a quorate committee or a delegated authority |
| `PermitWorkflow_return` | the same | *violation*: finding 3 |
| `PermitWorkflow_appeal` | an Executive Officer and an administrator, 1 appeal, 1 stage; 321,192 states | gated writes are lawful when written; determinations and certificates are respected |
| `Payments_fees` | 2 payments (gateway, counter) for one of 2 fees, 2 requests, 1 death; fairness; 35,166 states | receipts mean money, last, and refine `ReceiptBook`; money taken is receipted; lost money is not shown as awaited or paid |
| `Payments_polling` | the same, with polling and no callbacks | *violation*: finding 1 |
| `StandAllocation_register` | 4 stands (a whole, its halves, and the whole again), 2 citizens, 2 officers, 2 references, 1 edit by hand; symmetry; 649,986 states | agreement of the two tables, what was on offer and approved, reservations, overlaps by a race only, refinement of `LandRegister` |
| `GmsEditing_sessions` | 2 sessions of one editor, a feature published and one to come, 2 requests, 3 versions; symmetry; 293,821 states | contents and history agree, one live session, refinement of `FeatureRegister` |
| `PlanVersions_versions` | 3 versions, 2 requests, 2 polygons, 2 codes, 2 decisions; symmetry; 1,047,508 states | versions in order, statuses by the table, polygons handed on, an approved plan is what was signed off but for one race |
| `PlanVersions_force` | 3 versions, 1 request, 1 polygon | *violation*: finding 2 |
| `GmsInbound_events` | 4 events under 3 keys, 2 accounts, 2 parcels, 2 deliveries, 2 runs at once of 3; symmetry; 345,697 states | refinement of `ErpBook`; a run leaves open what there is |
| `WmsTiles_cache` | 2 tiles of one layer, one under a name the flush knows and one not, 2 requests, 1 edit or change of style, any restarts; fairness; 887,470 states | the books balance, stale pictures have a reason and are forgotten |

**Why the bounds are enough.** Every hazard listed is a race of two parties, so
two users, two handlers or two officers are there in each run. The outbox has
two imports, two workers and an operator, and one event: rows meet only in an import of several changes and in the batch of one tick, and the theorems hold for any
number of events. Two attempts
are the least that tell a first failure from the last; a death is one more than none, and
recovery after it is a behaviour that ends in a state without it. Two revisions let a
screen be one behind. One member makes quorums of 0 and 1. One stage is enough for
the certificate: the code asks the same of each. Two reference numbers are a collision and
its loser. The whole and its halves are the smallest ground that can be merged and split, and the fourth stand,
on the same ground and edited once by hand (`MaxEdits`), is what a split, a revocation or an edit can be laid on by a race. Three versions of a feature are
an update or a deletion and its restoration; three versions of a plan are two
steps of succession, or one version made twice. Three runs are two that overlap and
one that comes later, of items that both have seen; the two batches of readings are each newer for one account, so that
order matters both ways. The two tiles fill the cache singly and overflow it together, and their names are
one of the spellings a flush knows and one it does not; one change is enough for a picture to be old. Safety
beyond the bounds is what the proofs are for. The statuses that requests ask for
(`Targets`), the edits a session may hold (`Sketches`) and the features restored (`Restorable`) are limited to the few that matter to a
run's properties; the proofs have no such limit.

**Fairness.** `GmsOutbox`'s `Fairness` is weak fairness of the worker's tick (an interval
timer of 30 s, unreferenced but never cleared while the server runs), of a handler that has
started, of the end of a call (its `AbortSignal.timeout`) and of the clock. Nothing is assumed of
operators, importers or the ERP: a call may be lost every time, and the event is then given up.
`Payments`' `CallbackSpec` adds to the progress of a request strong fairness of the gateway's callback:
a gateway repeats it until it is answered, and `Payments_polling` shows what is left without
it. `WmsTiles` assumes only that time passes, for the entries of the cache and for those of Redis
(`EX`): no connection, sweep, request or render is ever obliged to succeed. No liveness is claimed of permits, stands, sessions and plans: they wait for people.

**Findings.** Each violation run checks one sentence of the repository's own.
1. The poll route never applies the gateway's answer: it names a variable of another scope (`payments.js:350`).
2. A version approved but not gazetted is superseded by its successor, and the polygons stay under the version before it (`150_plan_workbench.sql:21`).
3. A determination is not always "backed by a committee resolution", delegated or overridden (`development-management.js:1401`; 798 sends all
   of them through `eo-decision`): `return-to-role` accepts *approved* from its caller (1503) and asks of it only that the transition is
   lawful (`ReturnRead`, `ReturnWrite`). The certificate of occupation also approves whatever it finds (2250, `CertifyApprove`). The run shows a
   registered case put under review and returned to *approved*, with no meeting ever held.

Other sentences of the repository that the models contradict, without a run of their own. The behaviour is in
each case in the module named, and no property there denies it.
- `appeals.js:198` "A status the workflow will not accept is left alone rather than forced": the check uses the status
  read at the start; the mark is by id. Of two appeals lodged at once, one may be remitted before the other marks (`LodgeRead`, `LodgeMark`).
- `payments.js:453` "a second call returns without re-running effects": a cancellation that read the payment before it was
  paid overwrites *paid* (`CancelWrite`), and the next callback finds it unpaid.
- `107_stands_topology.sql:2` "no two active stands may overlap": the trigger reads what has committed and takes no lock
  (`Create`, `CreateCommit`). Splits, merges, edits and revocations meet in the same way. `OverlapOnlyByRace` says that nothing but such
  a race makes stands overlap.
- `stands.js:578` a merge "withdraws the originals": it inserts the new parcel first, and the trigger rejects it
  because of them (`InsertChild`). A split does the same.
- `editing.js:247` "Put an earlier version back as the newest one": the status goes by the *action* of the row put back (255), so a row that was itself written by restoring a deletion
  is put back as published (`RestoredStatus`).
- `150_plan_workbench.sql:199` an approved plan's rules "cannot be edited": an import whose cells were written before the approval commits
  after it (`CellWrite`, `CellCommit`). `SealedByApproval` says that no other edit does.
- `tiles.js:32-33` an edit "must never leave a stale rendered image behind": `StaleOnlyByStray` says when it does. One of its
  reasons needs no race: a tile whose published name is none of the two spellings (`vungu-project.qgs:272`, 6380) is flushed by no edit.
- `permitWorkflow.js:3-5` the state machine is enforced on every status write: the certificate and the appeal's mark write by id.
- `stands.js:855` an estate stand "cannot be allocated until the Minister has approved the layout": the approval may be taken back between the
  read and the COMMIT, and may be of another layout (`DecideLayout`). `AllocatedWhileOffered` says that it was in effect while the stand's row was locked.
- The allocation handler answers *already_allocated* when it lost a reference number.

## 5. Proofs

The eight `...Proofs` modules prove, for every value of the constants that satisfies the
named assumptions, every safety property of the passing runs, and among them that `GmsOutbox` implements `ErpDelivery`,
`Payments` implements `ReceiptBook`, `StandAllocation` implements `LandRegister`, `GmsEditing` implements `FeatureRegister` and
`GmsInbound` implements `ErpBook`. They also prove what no run checks by itself: four invariants that hold by one lock or index (`SenderHoldsPendingRow`, `NeverBackToPayment`,
`ReceiptsDiffer`, `OneActiveEntry`), and five consequences of the refinements, stated in the terms of the code (`HandedOverIsReceived`,
`ReceiptMeansMoney`, `ReleasedByMoney`, `ReceiptIsForever`, `RegisterIsHistory`). Each module has the same shape: an invariant
`IInv`, one lemma per group of actions that says the step keeps it, the theorem
`Invariant`, and the properties as corollaries. The assumptions are those declared beside
the constants: sets are of the kinds described, `Nobody`-like values are fresh, members are finitely many, there
is at least one user; none bounds the size of anything.

- **Outbox.** The properties are not inductive: that a sender holds a pending row depends on
  who holds the lock. `IInv` adds that a worker is sending an event exactly when it holds
  its row lock, that a locked row is pending, that only published events are sent, that a
  worker which has its answer is delivering an event the ERP holds, and that open
  transactions queue only what they wrote. For the refinement every step of the outbox is matched to a step of `ErpDelivery`
  or to a stutter; `CommitImport` is `Publish`, and the ledger map is shown to change at one key.
- **Permits.** The state of a request between two statements carries the argument: `IInv`
  says that a request about to write carries a status change that was lawful from the status it
  read (the UPDATE compares the two), that one about to record an outcome is about a meeting
  that has had its quorum, that one about to determine the case through the gate has
  its backing, and that one about to certify found all stages built. History only grows, so these
  survive whatever other requests do; that is the one lemma (`RequestsKept`) all groups of
  actions share. `GatedDeterminationIsBacked` then says what stands behind a determination made through the
  gate or an override; returns and the certificate are outside it, as in finding 3.
- **Payments.** `IInv` adds that a request inside `applyPaid` is for money taken and, past
  `BEGIN`, has a number that is not 0, and that the numbers given out have a highest (so
  that MAX + 1 is one, and nobody's yet: `NextNumberIsNew`). For `ReceiptBook` it adds that the numbers given out have no gap
  (`NoGap`), that a number a request carries is at most one past the highest (`NumbersInOrder`), so that one which no longer is
  the next collides with the unique index, and that a receipt has released its fee. `RowsAreKnown` ties the status of a payment
  whose reference was not stored to the request that still holds it; `LostMoneyShows` follows.
- **Stands.** `IInv` adds that a transaction holds the rows it has looked at, that the stand of
  an allocation under way is still on offer, that no parent of
  a merge or split has been allocated since, and that the reference an allocation carries is
  one of the series (`TablesInv`). For `AllocatedWhileOffered` it adds that an allocation under way whose stand needs the approval is one that
  has met it in effect (`ApprovalSeen`): the requirement cannot be set while the row is locked, and the approval was read after the lock; nothing
  is said of the approval itself, which may be gone. For `OverlapOnlyByRace` it adds what a transaction's trigger has looked at: whatever is active in the way of
  a stand it has passed is in `unseen` (`TriggerLooked`), children of a split are apart (`ChildrenApart`), and a transaction that
  is to commit has passed every row it makes active (`Shape`). For `LandRegister` it adds that entries have no
  gap (`NoGap`), that the number an allocation carries is at most one past them (`NumbersFollow`), and that only its own
  revocation ends a grant (`RevokesHeld`); `AllocateCommit` is then a `Grant`, `RevokeCommit` a `Revoke`, and every other step a change of the
  `Market` or a stutter.

- **Editing.** `IInv` adds that only an approval being applied holds rows, that it edits no feature twice, and that the rows of the
  edits it has dealt with are its own, at the versions the edits were made from. Since nobody else extends a locked row,
  `ApproveCommit` is a `Publish` of the register and `Restore` a `PutBack`; every other step is a stutter.
- **Plans.** `IInv` says of each step of a request what it holds: a status change under way has the plan's row, at the status it
  found; one that supersedes has both rows, and its polygons are the predecessor's; a plan found frozen is frozen still. These
  outlive other requests' steps because a status changes only under the lock of its row (`RowsInv`). For `SealedByApproval` it adds that
  a plan being approved is as it was signed (`ApprovalSigned`), and that no import is under way in one that is being approved, or is
  frozen, without being remembered in `met` (`MeetingsNoticed`).
- **Inbound.** `IInv` adds that no two deliveries under way have one key or hold one row, and that what a delivery is to write
  is still what the comparison says; `CommitEvent` is then a `Take` of `ErpBook`. Of a run it says what it knows of the settled
  problems: those of the checks gone by it has seen or is about to, and an item of what is no problem is older than the run.

- **Tiles.** `IInv` says of the cache that its entries and their order are of the same tiles, that its count is the size of the
  set of their bytes, and that both limits hold; that `_setL1` keeps this is shown without induction over the loop, from a
  smallest set of oldest entries that makes room (`EvictionExists`, by well-founded order on finite sets). `StaleOnlyByStray` is not
  inductive: a stale picture may come into the cache from Redis, a render or a request. `AllExcused` therefore asks an
  excuse of every picture wherever it is, and of none that it be of the future. Nothing is assumed of `Name`: a flush
  that does not know a tile's name leaves its pictures, with that for their excuse. `NothingOldComesBack` and `OldOnlyAges` are the steps `StaleIsForgotten`
  rests on: what is old and gone stays gone, and what is old in the cache only ages.

**Model-checked only**: liveness (`EveryEventConcludes`, `TakenIsReceipted`, `StaleIsForgotten`), which TLAPS does not
do here (no ENABLED). No module declares a RECURSIVE operator.

## 6. Not modelled

- Letters, messages, mail, notifications and event logs: written last, on a best-effort basis, read by no guard.
- Who may see what: roles are taken as given; tenancy only where it guards a write (`Permitted`).
- Signatures, parsing and wire formats of gateways and of the ERP.
- Geometry beyond shared ground, money amounts, exchange rates.
- Browsers: SSE, ETags, what a map shows between two requests.
- Inspections: the handlers of `inspections.js` write a status by id after next to no test, so the statuses may follow each other in any order, and a
  model would have nothing to say that is not its type; what a fee releases is in `Payments`.
- Mail queue and SurveyPro run: one transaction or lock each, hazards listed.
- All that is left of the 320 files: CRUD registers and reports (one UPDATE per request, no protocol
  between requests), read paths and spatial queries, rendering, style extraction and translation, PDF,
  calls to a language model, authentication, computations over real numbers. They are most of the code's lines, and hold
  little state that two actions could disagree about; what modelled components need of them is in their actions.
- The database itself is taken at its word: READ COMMITTED, row locks, unique
  indexes and transactions work as documented.
