# MultiLot 360: verification project

MultiLot 360 is a multi-tenant API for lottery sales (NestJS, Prisma 7, PostgreSQL with row level
security, Supabase Auth and Storage, PayPal). This directory holds TLA+ models of it, their TLC
configurations, and proofs checked by TLAPS. `PROJECT.json` maps every definition to the lines it models.
Paths below are relative to the repository.

## 1. The system

### Components, their state and their operations

| Component | State | Operations that change it | Talks to | Modelled in |
|---|---|---|---|---|
| Request transaction (`src/common/middleware`, `src/infrastructure/database/prisma`) | one interactive transaction per authenticated request; a pool of connections; after-rollback tasks | begin, commit when the response finishes with < 400, roll back otherwise, 30 s timeout, `close` | every repository, through the `PrismaService` proxy | `RequestTransaction`, `RequestLifecycle` |
| Draw configurations (`draws`) | `sorteos_config` | create, update, soft and hard delete | shifts, limits | `DrawCatalogue` |
| Draw shifts (`draws`) | `turnos.estado` in ABIERTO, BLOQUEO, CERRADO | open, auto-generate (also from the two list routes), block, reopen, close | sales, results, blocks | `DrawShifts`, `DrawCatalogue` |
| Sales (`sales`) | `ventas`, `venta_detalle`, `vendedores` (an administrator's own row) | create, void, void policy | shifts, limits, blocks through `trg_detalle_validar` | `Sales` |
| Number limits (`number-limits`) | `limites_numero` and its exclusion constraint | create many, update, expire | sales | `NumberLimits` |
| Blocked numbers (`blocked-numbers`) | `numeros_bloqueados` | create many, delete | sales, shifts | `BlockedNumbers` |
| Results (`results`) | `resultados`, unique per shift | register | shifts, prizes | `Prizes` |
| Prize payments (`prize-payments`) | `pagos_premios`, keyed by sale | pay | sales, results | `Prizes` |
| Cash cuts, reports, sales matrix | `cortes`; everything else is computed | create a cut; reads | sales, prizes | `Reports`, `DayBooks` |
| Notifications, realtime | `notificaciones`, sockets | project an event, emit, read, archive | every use case that publishes | `Notifications` |
| Seller onboarding (`identity-access`) | profiles, memberships, sellers, access codes; accounts in Supabase Auth | invite, resend, revoke, confirm, soft and hard delete | Supabase Auth, mailer | `SellerAccess` |
| Login and password reset (`identity-access`) | sessions and recovery credentials in Supabase Auth | login, logout, three resets | Supabase Auth, mailer | `Credentials` |
| Access control (`system-parameters`) | roles, permissions, role of a member | create a role, replace its matrix, assign a role | every guard | `AccessControl` |
| Audit log (`audit-logs`) | `auditoria_eventos` | record in the request; record again after a rollback | request transaction | `RequestLifecycle` |
| SaaS billing (`saas-billing`) | tenant, subscription, invoices, submissions, payments, runs | portal, submit, evidence, review, PayPal events, daily cycle | Storage, PayPal, tenants | `BillingBooks`, `Billing` |
| Tenant provisioning, last owner | tenants, memberships | paid sign-up, archive, triggers | identity, billing | `Billing`, `TenantUsers` (partly) |
| System parameters; health, mailer, configuration | single rows; none shared | upsert | - | not modelled |

Components interact in four ways: they read one another's tables with plain `SELECT`s inside their own
READ COMMITTED transaction; they exclude one another with row locks, unique keys, an exclusion
constraint and advisory locks; they publish events to sockets and to the notification projector; and they
call Supabase and PayPal, outside every transaction.

### What is hard

* **Read, decide, write by id.** Most handlers read a row without a lock, decide, and then `UPDATE` by
  id or `INSERT`. Only keys and the advisory lock protect the gap.
* **The answer precedes the commit.** The middleware waits for the response to *finish*, or to *close*,
  before the transaction callback returns, with whatever status the response has by then.
* **Statements nobody awaits.** The notification projector shares the transaction of the request that
  published, and races its commit.
* **Locks and connections live until the response has finished**; multi-row requests take locks in the
  order of the client's items.
* **Limits of several scopes**: the narrowest one applies, and what counts against a limit is what would
  be subject to that same limit today.
* **Two stores.** An account is in Supabase Auth and its profile in PostgreSQL, an evidence file in Storage
  and its row in PostgreSQL, a subscription at PayPal and its invoices here: clean-ups and crashes between.
* **One total computed in five modules**, some from a column that a trigger keeps and some from the details, from
  rows read in several statements; and lists read page by page while the table changes.

`PROJECT.json` "hazards" lists these points line by line, with the properties that cover each one.

### What makes each component correct

Shifts: opening never touches an existing shift. Configurations: nothing is orphaned by a delete, and a removed one
opens neither by hand nor by generation. Sales: no active total above a limit; no sale of a blocked number. Limits: at
most one of each scope in force. Results: one per shift, final. Prizes: a sale is paid once, exactly what it won.
Requests: locks and connections always come back; a refusal stores nothing; one audit row at most. Notifications: of
confirmed events only, once per key, private. Onboarding: an active profile has an account; a revoked code is dead.
Credentials: a reset closes what the old password opened. Access: ADMIN keeps the management of roles. Billing: a
one-to-one ledger; an approval pays; nobody who left is billed. Reports: every total agrees with every other, and a
list that loses no row skips none.

## 2. The modules

```
A. the sales day
RequestTransaction           phases, locks, rollback, commit, faults, deadlock detector
  DrawShifts                 turnos                       NumberLimits   limites_numero
    BlockedNumbers           numeros_bloqueados               |
       \------------------- Sales ---------------------------/    ventas, venta_detalle, vendedores
                              Prizes                              resultados, pagos_premios
                                SalesDay                          composition, properties, invariants
                                  SalesDayClaims                  what docs and comments claim
                                  SalesDayLedger  --INSTANCE-->   SaleLedger, the abstract specification
                                    MCSalesDay                    instances for TLC (with the claims)
                                  SalesDay_proofs, SalesDayLimits_proofs, SalesDayLedger_proofs
B. the life of a request
RequestLifecycle             pool, guard, handler, audit, answer, finish/close, after-rollback tasks
  Notifications              projector and inbox on those transactions  --INSTANCE-->  AtomicRequest
    MCNotifications
    Notifications_proofs
C. the books of a day
TenantRequests               requests in flight as records
  DrawCatalogue              sorteos_config, opening, hard delete  --INSTANCE-->  SaleLedger (its other rows)
    DayBooks  <--EXTENDS--  Reports                     reports read while the tables change
      MCDayBooks
      DayBooks_proofs
D. the people of a tenant
TenantRequests
  SellerAccess, Credentials, AccessControl
    TenantUsers              composition
      MCTenantUsers
      TenantUsers_proofs
E. the company's bill
BillingBooks                 one operator per SQL function
  Billing                    portal, reviewer, PayPal, daily cycle
    MCBilling
    Billing_proofs
NumberSets                   lemmas about largest elements and sums, shared by the proofs
```

### A. The sales day

**`RequestTransaction`.** A request goes `idle -> reading -> writing -> responding -> acked -> committed`, or
`rolledback`, or `lost` (answered, never committed). `cmd[r]` is the validated command, `done[r]` the
progress of the handler's loop and `held[r]` the locks of its transaction: advisory locks, row locks and
the keys of uncommitted rows are all *resources kept until the transaction ends*. `Receive` is
`runInRequestTransaction`; `Respond` the use case's return, its `publish` and the interceptors;
`EndCommitted` the callback's return; `Rollback` every error path; `Lose` the 30 s limit or a lost connection.
`DeadlockVictim` aborts one member of a cycle of waiting transactions.

**The tables** hold committed data only. What an open transaction wrote is a function of its command,
its progress and its locks, and `Commit` (the `*Commit` operators) applies all of it at once: that is what
READ COMMITTED shows the others. Each handler is a `*Check` or `*Read` step (its `SELECT`s and early returns)
and a step per locking statement; steps of different requests interleave freely.

* `DrawShifts`: a shift is a (date, configuration) pair; `"none"` means no row. `OpenShiftsRead/Insert` is
  the loop of `autoGenerateShifts` and, with one shift, `openShift`; `MoveShiftRead/Update` is
  `closeShift` and `transitionShift`. The guard is on the state read, the update by id.
* `NumberLimits`: `LimitKeys` are the points an exclusion constraint or unique index lets only one row
  occupy (a date range is the set of its days). `ApplicableLimit` is `fn_limite_numero_aplicable`.
* `BlockedNumbers`: a scope is a shift or a tenant's date.
* `Sales`: `CreateSaleCheck` (seller row of an administrator, shift read open), then one
  `CreateSaleDetail` per item: the trigger's advisory lock, block check and limit check. `totales` is
  `ventas.total_miles`, which `trg_ventas_total` sums again after each detail (`DetailTotal`) and which a void leaves
  as it is.
* `Prizes`: both checks and both inserts.
* `SalesDay`: `Handle`, `Finish`, `Fault`; the day ends when every request is finished (no deadlock
  otherwise).
* `SaleLedger`: what the sales, results and prizes amount to for a reader of committed data: a ledger with
  the entries `Sell`, `Void`, `Draw` and `Pay`, each whole and one at a time, without requests, locks or
  transactions. `SalesDayLedger` maps a day onto it: `TicketOf` joins `ventas` and `venta_detalle` the way
  `mapSale` does (the items come from the command of the committed sale, the total is the stored one), `PrizeOf` is
  the amount paid.
  The ledger says when a payment is allowed - the result is registered and the ticket has something on
  it - and exactly how much it is. It also admits what the code admits: paying a ticket voided in the
  meantime, and selling after the draw.

### B. The life of a request

`RequestLifecycle` looks at one connection more closely than `RequestTransaction`, and at the tables less:
a handler is a number of statements (`WriteStatement`), `written` counts those the transaction has executed
and `durable` those that are committed. `stage` is how far Node is, `tx` what has become of the transaction:
neither waits for the other when a client hangs up or the transaction expires. `Connect`/`Unserved` are the pool and
`maxWait`; `RefuseInGuard` a guard (the audit interceptor never runs), `RefuseInHandler` a failed `Result`,
`FailStatement` a constraint or an expired transaction; `RecordAudit` the interceptor with
`deferAfterRollback`; `Finish`/`Close` the two events that resolve `completed`; `Commit`, `CommitInVain`,
`RollBack` what the callback's end does with the status it finds; `RunAfterRollback`/`LoseAfterRollback` the
tasks, on a connection of their own. Sockets take a connection for their handshake.

`Notifications` gives the statements a meaning. A request that publishes starts a projector
(`ProjectDrafts`, `ProjectInsert`, `ProjectEmit`), detached, on the same transaction; `pending` holds the keys
of its uncommitted rows, on which another projector's `ON CONFLICT DO NOTHING` waits (`ProjectWait`). A
`COMMIT` cannot overtake a statement in flight on its connection (`Idle`). The inbox reads, marks and
archives the rows of its owner.

`AtomicRequest` is what a patient client may rely on: stored whole or not at all, and never after a refusal. It may
be told "done" for what is never stored (`CommitInVain`, `Expire`): the answer precedes the commit.

### C. The books of a day

`DrawCatalogue` has the configurations as rows of columns that decide things (code, recurrent or for one date,
Tuesdays, active, removed), with the `CHECK` and `UNIQUE` of the table, and both ways of deciding what opens:
the `WHERE` of the generation (`Selected`) and `isConfigurationOperableOnDate` (`Operable`). Opening reads and
then inserts. A hard delete is its eight statements, each with its own snapshot (`rows` remembers what was found),
with the foreign keys that refuse and those that cascade. Sales, results and payments are entries of
`SaleLedger`, the abstraction that module group A is shown to implement; they wait for rows that are
being deleted.

`Reports` turns sets of sales into overviews, seller reports, analytics, cuts, matrices, winner summaries and
pages, one operator per builder of the code, in integers (hundredths). `DayBooks` reads those sets the way
`findMany` with `include` does: one statement for the sales, then one for each relation, while the tables change.
The total of a row is the stored column, read with the sale; its numbers come from the details, read later.

A reader of the list of sales asks for page after page (`StartList` to `EndList`). Each page is a request of two
statements, the rows (`ListPage`, `findMany` with `skip` and `take`) and their number (`CountRows`, `count`), and the
reader goes on while `hasNextPage` says so. The list is in the order of `creado_en` and `id` (`CreatedAt`, which is
when a ticket's transaction began: tickets enter the list anywhere). The record of a reader also has three parts the code
does not keep, for the property alone: `lista`, the list as the last statement found it, `faltan`, the rows that have been
there all along and on no page yet, and `perdidas`, how many rows have left the list. Ascending order is the mirror image;
the orders by status, total, draw or seller, in which a row may move without leaving, are left out.

### D. The people of a tenant

`TenantRequests` serves a few requests at a time, each a record with its operation, its step and what it has read
(`vistos` is the snapshot of an `UPDATE` of many rows). `SellerAccess`: an invitation reads, locks the membership and
writes; a confirmation finds the code, creates the account, finds it again, consumes it, and on failure
deletes the account (`SafeDeleteAuthUser`), which may fail; an invitation whose e-mail is not sent
rolls back (`InvitationFails`); `Crash` loses every request in flight and keeps
what is stored. `Credentials` is Supabase Auth as the API calls it: a reset verifies, updates and closes sessions in
three calls. `AccessControl`: a replaced matrix is the `DELETE` of a snapshot and an `INSERT` against the primary key.

### E. The company's bill

`BillingBooks` has one operator per SQL function of the billing control plane, from the books it finds under its
locks to the books it leaves. `Billing` makes them actions: the portal, the upload of evidence in three steps
(store, register, remove what was refused), the reviewer, PayPal - whose events arrive in any order, and may be
delivered again while an earlier delivery is at work, each reading PayPal's status before it is processed - and
the daily cycle, which may run late or not at all.

### Abstractions

* The consecutive `SELECT`s of one check are one step, where no decision depends on a change between them
  (rows read earlier only move in the direction that makes the check fail, or not at all).
* The `INSERT` of the `ventas` header is merged with its first detail (it takes no lock others want).
* An administrator's first sale upserts his `vendedores` row; the wait on its key is part of `CreateSaleCheck`.
* A detail's lock, validation and insert are one step: the statements in between hold the lock already.
* In group A an error releases the locks when it happens, not when its response has finished, and a client
  does not go away while its handler runs; group B has both.
* The locks of an edit (row and keys) are taken together.
* A SQL function that locks the rows it decides on (billing) is one step.
* Refused earlier, hence not modelled: permissions (in group A), ownership, inactive sellers, the void window.
* Foreign-key share locks do not conflict with the updates of group A and are left out there; `DrawCatalogue`,
  where rows are deleted, has them.
* Tenants: row level security is taken as given; only keys that cross tenants are modelled.
* A hard deletion of a seller also drops the codes the seller created, the seller's limits and notifications; nothing
  checked depends on them, and `HardDeleteSeller` leaves them out.
* Sessions are refresh sessions. An access token already issued outlives its session until it expires, as
  `docs/api.md:285` says.
* Names, formatting and messages are left out. Amounts are naturals (hundredths in the code), times are days.

## 3. Runs

| Run | Checks | Shows |
|---|---|---|
| `SalesDay_rules` | `TypeOK`, `DrawLimitsRespected`, `OneLimitApplies`, `OpeningOnlyAdds` | openings against a shift that moves; creations and an edit of overlapping limits; three tickets, a void and a lost connection under a seller's own limit over a general one |
| `SalesDay_drawday` | `PaymentsAreWinnings`, `PaidOnce`, `ResultsFinal`, `ImplementsLedger` | a sale and its void, a close or reopen, two results and two payments in any order; the day implements `SaleLedger` |
| `SalesDay_waits` | `BlocksHold`, `RequestsEnd` | opposite lock orders, aborts, lost connections and blocks: every request ends, and blocks hold |
| `Requests_lifecycle` | `TypeOK`, `RefusalsLeaveNothing`, `AuditedAtMostOnce`, `OneRowPerKey`, `NotificationsOfConfirmed`, `InboxIsPrivate`, `ConnectionsReturn`, `KeepsPromise` | requests with their projectors on a pool of two, with every failure |
| `Billing_books` | `TypeOK`, `LedgerExact`, `ApprovedArePaid`, `EvidenceKept`, `NoRenewalForTheGone` | two channels of payment and the daily cycle |
| `Tenant_users` | `TypeOK`, `LinkedAccountExists`, `SalesKeepTheirSeller`, `DirectoryAgrees`, `ResetClosesOldSessions`, `AdminManages`, `RevocationIsFinal` | onboarding, resets and matrices, two requests at a time, with crashes |
| `Day_books` | `TypeOK`, `NothingOrphaned`, `GenerationMatchesOpening`, `SellersAddUp`, `NumbersAddUp`, `CutAgreesWithOverview`, `MatrixReconciles`, `PendingIsOutstanding`, `ListsSkipOnlyForLost` | the catalogue against trade, and reports and lists read meanwhile |

Five more runs check one claim each and TLC refutes it (see "Where the code and its documentation part").

### Bounds, and why they are enough

* **Sales day.** `MaxOrder = 3` and `MaxBlocks = 2` (numbers per request), `Fallible` (requests that may be lost), the
  finite sets of requests of each kind, small sets of commands. Two requests of a kind are enough for every
  race of two handlers; `rules` has three sales because two can exhaust a limit while a third waits. A
  command covers at most two numbers and two shifts: enough for opposite lock orders and for partial failure.
  Dates are one or two days: enough for overlapping, adjacent and open ranges. `Scenarios` lists which requests
  may arrive in one behaviour: `rules` asks three questions that share no table but the limits, and each
  scenario holds all the requests of its question. `drawday` is a single scenario.
* **Requests.** Two requests and a socket on two connections: the pool is exhausted, and two projectors race for a key.
  `Impatient` and `Slow` name the clients that may hang up and the transactions that may expire: one of each, so
  that each fault meets a request that has the other, or none.
* **Billing.** A month of two days, a day of grace, archive after one: within `Horizon = 3` a tenant pays, is renewed,
  becomes late (the renewal of day 2, on day 3), is suspended (the first invoice, after its grace), reactivated and
  archived. The two configurations with an expected violation have no grace, which is not what they are about. Two
  uploads and two submissions race, two events are repeated and reordered, three invoices are the first, a renewal and
  a reactivation. One bank reference, so that the second review finds it taken.
* **People.** Two requests at a time, one seller with two addresses, three codes, two accounts, two administrators, five
  matrices. The three families of requests share no variable but `handlers`, so an action of one commutes with every
  action of the others; `MCNext` lets a behaviour keep to one family. `Crash`, which loses the requests of all
  families, may happen among those of the sellers, the only ones that leave something half done outside the database
  that is cleaned up afterwards; for the others it is a request that never goes on, which no behaviour excludes.
* **Books.** Two configurations, a Tuesday and a Wednesday, three tickets of two sellers, each with two numbers.
  `MCNext` lets a behaviour either edit configurations, with one ticket at most, or trade on shifts that are open;
  it keeps one writer of the catalogue at a time beside a report. Both halves have what their properties relate:
  deletes against openings and trade; reports against voids, results, payments and deletes. A list
  is followed while its tickets, in any order of sale, are sold and voided, with pages of one row and of two, of the
  active sales and of all: three tickets are enough for a row to slip past the reader while another takes its place,
  and for a count to be stale. Deletes beside a list are left to its theorem.

Symmetry is used among requests of one kind (not of sales and voids, never in a run with a liveness property) and, in
`SalesDay_drawday`, also between the draws `Am` and `Pm`, which nothing in that instance tells apart.
`CHECK_DEADLOCK FALSE` stands where a bounded behaviour really ends (the last day, the last code) and in
`SalesDay_waits`, whose `RequestsEnd` is stronger.

### Fairness

* `SalesDay!FairSpec`: weak fairness of `Proceed(r)` for each request: a statement that can proceed does (Node's event
  loop and PostgreSQL's lock queues), an answered request commits (`finish`), a deadlock is detected after
  `deadlock_timeout`. Arrivals, time-outs and lost connections are not forced. `MCFairSpec` is the same over `MCNext`,
  which only restricts arrivals.
* `Notifications!FairSpec`: weak fairness of *some* request proceeding: Node and PostgreSQL do not stop as long as there is
  work. That is enough for `ConnectionsReturn` because each request has finitely many steps; it does not assume
  that a waiting projector is ever served first. Clients hanging up, expiry and sockets are not forced.

### Where the code and its documentation part

| Run | Claim | What happens |
|---|---|---|
| `SalesDay_date_limit` (`EveryLimitRespected`) | "La suma activa no supera el límite aplicable" (docs/domain-concepts.md:69) | a limit without configuration sums a date, the lock covers one shift: two shifts oversell it |
| `SalesDay_void_paid` (`PaidSalesActive`) | only active sales are paid | a void checked before the close commits after the payment |
| `Requests_partial_sale` (`NoPartialSale`) | "Si falla un ítem, no queda una venta parcial" (docs/domain-concepts.md:60) | `close` during the handler commits the details written so far |
| `Billing_paid_reopened` (`PaidInvoicesStayPaid`) | a confirmed payment marks its invoice as paid (docs/tenant-provisioning-runbook.md:67-69) | late evidence opens the paid invoice again |
| `Tenant_reversible` (`InvitationUsable`) | "Baja reversible" (docs/api.md:299) | the new invitation of a removed seller can never be confirmed |

Configurations kept beside the runs, each of which TLC refutes as well
(`tlc -config X.cfg MCSalesDay`, `MCBilling`, `MCTenantUsers` or `MCNotifications`):

| Configuration | Claim | What happens |
|---|---|---|
| `SalesDay_reopen_race` (`ClosedStaysClosed`) | a closed shift cannot be reopened | a reopen that read BLOQUEO before the close overwrites CERRADO |
| `SalesDay_late_sale` (`NoSaleAfterResult`) | a sale's shift accepts sales when it is confirmed (docs/domain-concepts.md:62-65) | the sale commits after close and result |
| `SalesDay_early_event` (`EventsAfterPersist`) | events only after persisting (docs/domain-concepts.md:136) | `publish` precedes the commit |
| `SalesDay_tenants` (`RefusedByOwnLimits`) | uniqueness is per tenant | `uq_limites_numero_activo_scope` has no `tenant_id` |
| `Billing_unpaid_service` (`NoServiceBeforePayment`) | operational modules are locked before the first payment (docs/architecture/saas-billing-bank-transfers.md:17) | a denied first charge of an unpaid tenant makes it MOROSO, which the guards let in |
| `Tenant_matrix` (`OneMatrix`) | the complete matrix is replaced atomically (docs/api.md:510) | two replacements leave rows of both |
| `Requests_recipients` (`RecipientsHear`) | a recipient's socket hears of its notification (scripts/realtime-smoke.ts:335) | the read-back sees only the actor's own rows under the policy `notifications_read_own` |

Two voids of a sale race in the same way as `SalesDay_void_paid`: both succeed, and the second one's author
replaces the first one's.

## 4. Proofs

Every theorem is about a specification as it is written above: any number of requests, of every kind, in every
interleaving. The restrictions of the MC modules (`MCNext`, `Scenarios`) are not assumed. Each invariant below
was checked by TLC on the run's instance before it was proved.

### The sales day

`SalesDay_proofs` proves, for any sets of requests, shifts, numbers, limits and commands that satisfy the
assumptions of the modules (`OpenListsAssumption`, `LimitAssumption`, `SellerAssumption`, `BasketAssumption`,
`PrizeAssumption`: the commands have the shape the DTOs give them, and `None` is not a value; `ShiftAssumption`: a date
and a configuration have one shift, the unique key of `turnos`; `BlockAssumption`: the id of a new block, a uuid, is
nobody's yet):

* `RequestsSound`: `RequestInv` is inductive. That locks are exclusive (`LocksExclusive`) is not enough for the
  tables: that a commit writes values of the right type needs `LocksFit` (a row lock is held only by a handler that
  writes this row, and a limit's row exists) and `LimitsWithinCommand` (the loop stays inside its command). The proof
  sorts every handler step into four shapes - arrives, advances, aborts, writes - (`HandleShape`), so that each
  conjunct has four cases and the commit, instead of twenty-five.
* `PrizesSound`: `PrizeInv` on top of it. `PaymentsAreWinnings` is not inductive: what the checks of a
  payment saw (`Won`) must be shown to stay true until its commit - results never change, a sale never loses
  its details - and an inserted payment or result must be shown to keep its rivals waiting
  (`PaymentsPending`, `ResultsPending`). `VoidsPending` is there because a void's commit must not create a sale.
* `TypesCorrect`, `OnlyWinningsPaid`, `EachSalePaidOnce`, `ResultsAreFinal` follow.
* `OpeningChangesNothing`: `OpeningOnlyAdds`, from `OpeningsPending` - while an opening holds the key of a
  shift, no committed row of the shift can appear.

`SalesDayLimits_proofs` has what the rules about numbers promise to the sales:

* `LimitsAreUnambiguous == Spec => []OneLimitApplies` from `LimitInv` (`LimitsSound`): two committed rows share no
  key (`LimitsCompatible`); the rows that an open transaction has inserted or changed hold their keys and share
  none with a committed row (`LimitsInserted`, `LimitsEdited`); a row is not there before its creator commits
  (`LimitsCreated`). It needs all three because the rows of two transactions that are both open meet only in their
  locks, and an edit is computed from the row it found. It assumes that the initial rows satisfy the
  constraints and that an order names a number once (`normalizeUniqueNumbers`).
* `DrawLimitsHold == Spec /\ DrawLimitsStay => []DrawLimitsRespected`. `DrawLimitsStay` says that nobody creates or
  changes a limit of one draw meanwhile: a limit may be set below what has been sold already, so without it
  the claim is not meant. The invariant is `DrawLimitInv`: a detail row that was accepted keeps its advisory lock
  until its sale commits, and what has been sold under the draw's limit plus this row still fits
  (`DetailsPending`); a sale answers when all of its items were accepted (`SalesWithinBasket`). The heart is
  `CommitAddsNothing`: another sale of the number under the same limit is of the same shift, because the limit is of
  one configuration and a date has one shift of it (`ShiftAssumption`), so it needs the
  lock that this sale holds. A limit of every configuration has no such argument, and `SalesDay_date_limit` shows
  it oversold. That other limits come and go does not matter: `ApplicableStays` shows that the sales under a
  draw's limit remain under it, because such a limit precedes every broader one and, by `OneLimitApplies`, has no
  rival. `FixedDrawLimitsHold` states it for an instance whose constants alone keep the limits of draws.
* `BlocksAreKept == Spec => BlocksHold`: a sale that arrives while a block is there never sells the number it keeps, for
  as long as *this* block stands; that another block of the number is deleted is no excuse. From the arrival on, `Shut`
  holds: the block was committed, and no accepted row of the sale is of a number that it keeps. `BlockInv`
  (`BlocksSound`) is needed because a commit might write another block into the row: a block's row is not there before its
  request has committed (`BlockRows`), so a block that stands is the one that stood.

`SalesDayLedger_proofs` proves `SalesDayImplementsLedger == Spec => ImplementsLedger` (with `TicketAssumption`: `None`
is not a ticket). The empty day maps to the empty ledger. `TotalsOK` says that the total the trigger has left with a
sale that is there is the sum of the sale's rows, which a sale that commits needs to be the entry `Sell`. A step that
commits nothing is a stutter, because the command of a committed sale no longer changes (`SalesStay`). A commit is
split by the kind of its request: `SaleIsSell`, `VoidIsVoid`, `ResultIsDraw`, `PaymentIsPay`, `OtherCommits`;
`LocksFit` shows that it writes no other table of the ledger, and `PrizeInv` that the guard of the entry holds at the
commit, long after the handler's own check of it.

### The life of a request

`Notifications_proofs` proves, for any number of requests, users and connections (`AboutAssumption`: a request is
not one of the two shared subjects of a notification; `SellersAssumption`: a sale's seller is a user of the tenant):

* `NotesInductive`: `NoteInv` is inductive. `LifeInv` says how far Node must be for a transaction to be where it is
  (`StageOf`), what a committed one left (`EndOf`) and where the audit row is (`AuditOf`). It is needed because
  Node and PostgreSQL move independently: that a refusal stores nothing follows only from "a finished response that
  committed was a success", which the steps between answer and commit must not undo. On top of it,
  `ProjectionOf`, `MarksOf` and `PendingOf` say which rows an open transaction has added or locked, that no other open
  transaction has a hand on them, and that a projector exists only for a handler that has written everything.
  `LifeStep` and `LifeKeeps` treat the steps of a request once; one lemma each then treats the projector
  (`ProjectKeeps`), the inbox (`InboxKeeps`), the start of a projector and the commit.
* `TypesHold`, `RefusalsStoreNothing`, `AuditedOnce`, `KeysHaveOneRow`, `OnlyConfirmedEvents` and
  `InboxesArePrivate` follow: every safety property of the run `lifecycle`.
* `PromiseIsKept == Spec => KeepsPromise`: the refinement of `AtomicRequest`. `RequestKeepsPromise` maps every step of a
  request to one entry of the promise or a stutter (`Kept`), and shows that the other clients see nothing of it.

### The books of a day

`DayBooks_proofs` (assuming that a draw is a date and a configuration - `DrawsAssumption`; that a patch gives columns
values of their types - `ColumnsAssumption`, the update DTO; that the absent row is not a row -
`NothingAssumption`; and that a ticket is a list of numbers that may win, finitely many, each for an amount -
`ItemsAssumption`, the sale's DTO):

* `GenerationAgrees`: `GenerationMatchesOpening`, from `ConfigsOK`: every row, however patched, is recurrent exactly
  when it has no date of its own, as the table's `CHECK` has it, and no two configurations share a code.
* `NothingIsOrphaned`: from `Whole`. Its core is `Branches`: a hard delete that has found a row has found its children
  - the sales of a shift, the shifts of a configuration - and that stays so, because a row that refers to a found
  one waits for the delete. `NothingOrphaned` is not inductive without it: the commit removes exactly what was found,
  statements ago. `BooksKeepTheirTypes` follows.
* `MoneySettled`: from `Whole`, also the money stays whole: a payment is of what its ticket has won, on a shift whose
  result is there (`Funds`). The step that could break it is the commit of a deletion that has found the result
  of a shift but, so far, not the ticket. `Deletes` says why it does not: a deletion that gets as far as its commit has
  found its configuration, and by `Branches` then every ticket.
* `ReportsAddUp`, `CutsAgree`: what a report knows of its rows is only that they are finitely many and their amounts
  natural numbers (`ReportsOK`); no more is needed, and that is why torn reads do no harm. Each figure but
  one is the sum over the rows of what one row contributes (`Figures`, `ReportIsSum`), and the figures of sellers, days
  and cuts are the same sum in parts. The exception is `pending`, cut off at zero, for which only an
  inequality holds (`PendingIsLess`).
* `MatrixIsRight`: the stored total of a ticket is the sum of its details, after voids too (`TablesOK`), that sum may
  be taken by number (`NumbersOfTicket`), and a table summed by ticket or by number is the same (`SumSwap`). The proof
  never uses `AtRest`: the rows of one instant always reconcile.
* `PendingIsRight`: per shift, from `Funds`: the listed payments are a part of the listed winners, each of exactly
  the prize, so that what is left is what the others have won (`PendingIsUnpaid`); then over the shifts (`ByDraw`). It
  needs the property's hypothesis that no paid ticket has been voided; without it the figures may differ.
* `ListsAreComplete`: `ListsSkipOnlyForLost`, for any number of rows and readers and pages of any size, beside every
  other action, deletes included. It is not inductive. `Accounted` says it at every step of a reader: of the missing
  rows, those that already stand before the reader's offset (`Skipped`) are no more than the rows lost. A row that
  leaves moves those after it up by one, and a row that enters moves them down (`RankDrops`), so that a statement adds
  at most one skipped row for each row it finds gone (`Shift`). On the last page every row of the list stands before
  the offset (`LastPage`).

### The people of a tenant

`TenantUsers_proofs` treats the three families of requests together, freely interleaved with each other and with
crashes (`NobodyAssumption`: no account is called nobody; `PasswordsAssumption`: there is a first password). Lemma
`Frames` gives what a step of one family leaves alone, so that each invariant is a matter of one family.

* `TypedHolds`: `Typed`, with `RowsKeepTheirTypes`, is what the rest starts from.
* `RevokedIsFinal`: `RevocationIsFinal`, an action property, from `Typed`: consuming and revoking both name a code
  whose state they have to find pending.
* `DirectoryIsRight` and `SellersOfSalesStay`: from `FlagsTogether`: a seller's flag is on only while the profile's is
  and the membership is active, and the row of a seller who has sold stays on file: a hard delete refuses it.
* `ActiveProfilesHaveAccounts`: from `ProfilesExist` and `AccountsKept`: an account that a confirmation created belongs
  to it alone until it ends; so a clean-up can only delete an account that no profile was given.
* `ResetsCloseSessions`: from `Closing`: no session is older than the last reset that was answered, and a reset about
  to close the sessions left a password the account has had, so that closing can never run ahead of the password.
* `AdminKeepsManaging`: from `Managing`: a replacement under way has deleted rows of its own role only, and a matrix
  of `ADMIN` passes the check of the code before its first statement.

### The company's bill

`Billing_proofs`, for any lengths of the periods (`DaysAssumption`, `NoDayAssumption`, `BoundsAssumption`). The books
are one record, and each SQL function is an operator on it; one lemma each says that it leaves well-formed books that
continue the ones it found (`Keeps`, `Continues`: no document or payment disappears, a paid one stays in the ledger)
and how it changes payments and invoices (`Pays`, `Issues`). Then:

* `ShapeHolds`: every record of the books, of the transfers and at PayPal is of its kind and refers to something that
  exists; `TypesHold`, `BooksOnlyGrow` (an action property) with it.
* `LedgerIsExact`: a reference pays one invoice and an invoice is paid once; `ApprovalsArePaid`; `EvidenceIsKept`.
* `GoneAreNotRenewed`: no step bills a tenant that has left.

`NumberSets` has the facts the provers do not know: a set of numbers up to a bound has a largest element (`Latest`:
the latest open invoice, the latest code of an address), and the sum over a finite set, the fold of the community
modules, has the value 0 on the empty set, grows by an added element's number and with the set (`SumOfEmpty`,
`SumAdd`, `SumSubset`), is linear (`SumPlus`), may be taken in parts (`SumParts`) and in either order of a table
(`SumSwap`), and counts when it adds ones (`SumCount`). The library's induction theorems take an operator and cannot
be used, so these arguments take a smallest counterexample instead, which the well-foundedness of the strict subset
ordering of finite sets gives. A fold takes an operator too: where the model sums with one, a lemma unfolds that
fold into a sum of a function (`MilesIsSum`, `TotalIsSum`).

### Only model-checked

* `RequestsEnd` and `ConnectionsReturn`: liveness, out of the prover's reach.
* `NumbersAddUp`. Every other property of a passing run is also a theorem.
* That the disagreements of section 3 are reachable: a theorem says what always holds, a run shows that something happens.

## 5. Not modelled, and why

* **System parameters** and the void window: independent rows, each written by one upsert; nothing relates two of them.
  The window is one comparison of a clock with a sale's date.
* **The last owner's trigger**: no route demotes, suspends or removes an owner; the trigger guards statements an operator
  types at the database.
* **Sign-up of an administrator** (`signup-admin.use-case.ts`): wired to no controller. Completing a paid sign-up in
  development environments: a shortcut past PayPal that production refuses.
* **Evidence files**: their bytes, signatures and signed links are pure checks; their existence is modelled.
* **Redis adapter, rooms of a role**: delivery is fire and forget, and no state depends on it.
* **Health, mailer, configuration, HTTP documentation**: no shared state.
* **Row level security policies**, but for the one the read-back depends on: a property of single statements, best
  tested against a database.
* `scripts/` and the tests: they drive the API and add no behaviour of their own.

## 6. Plan

Every safety property that a run checks is now a theorem. What would say more:

* lemmas about the averages of the analytics (`Average` rounds to the nearest hundredth) and the number shares;
* the overview at rest against `SaleLedger` itself, so that a report is stated of the abstract ledger;
* the behaviours behind the hazards without a property, each in a module that keeps what `DrawShifts` leaves out.
