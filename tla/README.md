# Verification of the construction ERP

The program is a multi-tenant construction ERP: a NestJS API (`src/apps/api`), a Next.js
front end (`src/apps/web`), a database package with Drizzle schemas and the provisioning of
tenants (`src/packages/db`) and shared request schemas (`src/packages/shared`). Each tenant
has a PostgreSQL database of its own. All business state is in that database; the API holds
caches only. Requests run concurrently in one or more Node processes and meet in the
database, which runs at its default isolation, READ COMMITTED. There is no queue, no
message bus and no scheduler: what is hard here is what two requests do to the same rows
between the reads, the row locks and the commit of each, and, above the tenants' databases,
what the caches of a process and the tokens of a browser go on saying after it has changed.

This directory models the parts of the API where that matters, checks them with TLC and
proves the central results with TLAPS.

## 1. Inventory

Paths are under `src/apps/api/src/` unless they say otherwise.

| Component | State | Operations | Meets | Hard | Correct when |
|---|---|---|---|---|---|
| Posting and numbering: `ledger/posting.service.ts`, `common/numbering.service.ts` | `journal_entries`, `journal_lines`, `number_sequences` | `post`, `reverse`, `next` | called inside the transaction of every module that books | number row held to the commit; period, accounts and the original entry are plain reads | entries balance; numbers have no gaps; one mirror per reversed entry |
| Invoices, bills, payments: `modules/finance/documents.service.ts` | `invoices`, `bills`, `payments`, `payment_allocations` | create, post, cancel; pay, cancel payment; bill from a goods receipt | posting, procurement, running bills | paid amount read, changed, written back; cancellation checks before its transaction; locks in the caller's order | paid is what the payments allocate, rounding included, never above the total; the control account is what is outstanding |
| Accounts, periods, manual journal: `modules/finance/accounts.service.ts` | `accounts`, `fiscal_periods`, draft entries | flags of an account, period lock, draft, post a draft, delete a draft, reverse | posting reads flags and locks | a check and the commit it is for are apart | nothing is booked against a lock or flag, booked entries stay |
| Bank: `modules/finance/bank.service.ts` | `bank_statement_lines`, reconciliations | match a line, close a reconciliation; no operation takes a match back | ledger lines | two matches of one line; an entry removed under its match | each ledger line is reconciled once, and the balances come out even |
| Stock: `ledger/stock.service.ts`, `modules/inventory/inventory.service.ts` | `stock_balances`, `stock_movements`, `stock_documents` | create, post, remove of receipts, issues, transfers, adjustments | posting; site requisitions; goods receipts | weighted averages with rounding; balance rows locked line by line | balance is the sum of movements; nothing left without quantity; inventory account agrees |
| Procurement: `modules/procurement/procurement.service.ts` | requisitions, quotations, `purchase_orders`, `goods_receipts` | decide, order, approve, receive, bill | vendors, stock, posting, bills | decisions are checked on one read and written later; receipts lock order then lines | nothing received beyond the order; status tells what was received; one bill per receipt |
| Vendors: `modules/vendors/vendors.service.ts` | `vendor_profiles` | enlist, evaluate, set status | orders | status read without a lock, ahead of the order's commit | orders go to approved vendors |
| Site: `modules/construction/site.service.ts` | site requisitions, BOQ progress, work orders, running bills, variations | decide, issue, measure, approve, cancel | stock documents, invoices, bills | stored "previous" quantities; unlocked BOQ reads | executed is what is billed, never beyond the BOQ |
| Payroll: `modules/payroll/payroll.service.ts`, `payroll.calc.ts` | `payroll_runs`, `payslips` | generate, finalize, disburse | attendance, leave, posting | two reads of the days away; the payment looked for outside the transaction | a run is paid once; the ledger says what the slips say |
| Leave and attendance: `modules/hr/attendance-leave.service.ts` | `leave_requests`, `leave_balances`, `attendance` | ask for leave, decide, save a day's sheet | payroll | balance checked when asked, used when approved | nobody uses more than there is; no day is deducted twice |
| Investors: `modules/investors/investors.service.ts` | agreements, transactions | agree, change, contribute, pay out, allocate profit, cancel | posting, the ledger's profit of a project | sums read before the insert | shares up to 100 %; profit booked once; payouts within the balance |
| EB-3: `modules/investors/eb3.service.ts` | job orders, candidates, cases, payments | open a case, update it, advance it, pay | posting | counter read and written back; stage compared before the transaction | one live case; vacancies are what was opened; stages go forward |
| Quotations: `modules/investors/quotations.service.ts` | quotations, lines | create, revise, set a status, win | projects, BOQ | status read before the transaction | one project per won quotation, with its lines |
| Tenancy: `tenancy/tenant-connection.service.ts`, `tenant.middleware.ts` | caches of tenants' status, pools of connections | look up, open, wait, evict, invalidate | platform, every request | a look-up under way during an invalidation; a pool being opened | one pool per tenant; a suspended tenant is refused after the cache's lifetime |
| Rights: `auth/permission-cache.service.ts`, `tenancy/tenant-modules.service.ts`, `modules/core/users.service.ts` | users, roles, modules; caches of permissions and of modules | guard, create and change users, roles, modules, the plan | every request | three queries behind one cached entry; one cache filled from another; seats counted before the insert | what is revoked is refused in time; seats within the plan |
| Sessions: `auth/auth.service.ts`, `auth.controller.ts`, `src/apps/web/lib/api.ts` | `tokenVersion`, the refresh cookie, the session in storage and in each tab | sign in, call, refresh, sign out, change the password | every page | a refresh under way as a tab signs out; tabs that keep copies | what is revoked is not renewed; signed out stays signed out |
| Platform: `platform/platform.service.ts`, `src/packages/db/src/provision.ts` | tenants, subscriptions, tenant databases | provision, suspend, reactivate, license modules, change the plan | tenancy, rights | steps no transaction covers | a company that is open is complete |
| Reports: `modules/reports/reports.service.ts` | none | ageing, stock valuation, and others that only read | ledger, documents, stock | two ways to the same figure | ageing and valuation agree with the control accounts |
| Mail, storage, audit, import, pages | none that another part relies on | | | | |

`PROJECT.json` lists every component with its status, and every hazard at its line with the
properties that cover it.

## 2. Modules

`RowLocks` is the only model of code outside the repository: the row locks of PostgreSQL
as the services use them (`SELECT ... FOR UPDATE`, `UPDATE`, the upsert of
`number_sequences`), their release at commit and rollback, and the circle of waits the
deadlock detector looks for. Each component whose code locks rows instantiates it with its
own rows.

Every component models a request the same way. `req[r]` is what request `r` is doing: the
operation, the step it is at, and the rows it has read. Its steps are the places where
another request can come in between: the reads before the transaction, one step for each
row lock, the reads inside the transaction, the commit. What a transaction writes stays in
`req` (or `tx`) until its commit, so the other variables are committed rows and a plain
`SELECT` reads them. A rollback, a refusal (a thrown exception) and a lost connection
(`Fail`) drop the request's part and its locks. Where the code takes no lock
(`Investors`, `Recruitment`, `Quotations`), an operation is its read and its write.

`Tenancy` and `Access` are about one Node process, which runs one callback at a time: what
it does between two `await`s is one action. They add time, in ticks, and the process's
restart. In `Sessions` the actors are the tabs of a browser and the API.

| Module | Models | State | Actions and the code they stand for |
|---|---|---|---|
| `Settlement` | invoices, bills, payments | `doc`, `pay`: the rows; `entry`: the journal entry of each and its mirrors | `BeginCreate`, `BeginPost`, `BeginCancel`, `BeginPay`, `BeginCancelPay`: the reads before the transaction; `LockDocument`, `TakeNumber`, `ReadEntry`, `TakeJournalNumber`: the steps inside; `CommitCreate`, `CommitPost`, `CommitCancel`, `CommitPay`, `CommitCancelPay` |
| `Journal` | general ledger, periods, accounts, bank matching | `entry` by number, `nextNo`, `locked`, `acct`, `matched` | post, draft, post a draft (`LockDraft`), delete, reverse (`ReadOriginal`, `Marked`), `CheckPeriod`, `CheckAccounts`, `SetPeriodLock`, `BeginGroup`/`CommitGroup`, `SetAccount`, `BeginMatch`/`CommitMatch`; the reconciliation's balances as operators |
| `Stock` | stock documents and balances | `doc`, `balance`, `moved` (sum of movements), `ledger` (inventory account), `issued` and `siteReq` (site requisition) | `LockDocument`, then per line and leg `Move` (lock the balance, average, write), `IssueToSite`, `TakeJournalNumber`, `ReadSiteReq`, `CommitPosted`; `BeginRemove`/`CommitRemove`; `BeginDecide`/`CommitDecide` |
| `Procurement` | requisition, order, receipt, bill of a receipt | `requisition`, `vendorOk`, `order`, `receipt`, `bill`, `entry`, `grni` (goods received not invoiced) | `BeginOrder`, `CheckVendor`, `CommitOrder`; `BeginSetOrder`/`CommitSetOrder`; `LockOrder`, `LockLine`, `CommitReceive`; `BeginDraftBill`, `LockBill`, `CommitPostBill`; `ReadEntry`, `CommitCancelBill` |
| `Construction` | running bills and subcontract bills | `boq` (quantity and executed), `ra`, `invoice`, `executed` of the work order, `sub` | `LockProject`, `ReadAdvance`, `CommitCreate`; `LockBill`, `TakeJournalNumber`, `CommitApprove`, `CommitCancel`; `PayInvoice`, `UnpayInvoice`; `BeginSave`/`CommitSave`; `LockWorkOrder`, `CommitMeasure` |
| `People` | attendance, leave, the payroll run of a month | `terms` (employment), `attendance`, `leave`, `used` (balances), `run` with its slips, `payments`, `ledger` | `SetTerms`; `SaveBulk`; `BeginRequestLeave`/`CommitRequestLeave`; `BeginDecide`, `LockLeave`, `CommitDecide` (with the marks and the balance it writes); `BeginGenerate`, `LockRun` or `FindNoRun` and `InsertRun`, `ReadSheet`, `CommitGenerate`; `BeginFinalize`/`CommitFinalize`; `BeginPay`/`CommitPay`. `Payslip` is `computePayslip`, tax slabs included |
| `Investors` | agreements and money of one project | `agreement`, `movement`, `profit` (what the ledger says of a day), `owed` (the ledger's liability) | `BeginAgreement`/`CommitAgreement`, `UpdateAgreement`; `Contribute`; `BeginPayout`/`CommitPayout`; `BeginAllocate`, `ReadProfit`, `ReadTerms`, `ReadBooked`, `CommitAllocate`; `BeginCancel`/`CommitCancel`; `PostProject` |
| `Recruitment` | EB-3 job orders and cases | `job`, `case` | `CreateJob`, `BeginUpdateJob`/`CommitUpdateJob`; `BeginCase`, `ReadJob`, `CommitCase`; `UpdateCase`; `BeginAdvance`/`CommitAdvance` |
| `Quotations` | quotations and the project a won one becomes | `quotation`, `project` | `Create`; `BeginUpdate`/`CommitUpdate`; `BeginSetStatus`/`CommitSetStatus`; `BeginWin`/`CommitWin` |
| `Tenancy` | how a request finds its database; provisioning; suspension | `status`, `setup` and `prov` of each company; `meta` (cached status), `pools` in order of use, `pending` (being opened) | `BeginCached`, or `BeginLookup`, `Select`, `Store`; `ReadCredentials`, `OpenFails`, `InsertPool`, `Settle`, `Serve`; `BeginSetStatus`, `UpdateStatus`, `Invalidate`; `CreateTenant`, `ProvisionStep`, `Activate`, `Announce`, `ProvisioningFails`; `Tick`, `Restart` |
| `Access` | users, roles, modules and seats, and the two caches the guard reads | `user`, `grants`, `enabled`, `maxUsers`; `perms`, `mods` | the guard: `BeginCheck`, `ReadUser`, `ReadRoles`, `CachedModules` or `ReadModules` and `StoreModules`; `BeginUser`, `ReadLimit`, `CountSeats`, `CommitUser`; `BeginRole`/`CommitRole`; `BeginModules`/`WriteModule`; `SetSubscription`; `Invalidate`, `Tick`, `Restart` |
| `Sessions` | one user's session in the tabs of a browser | `active`, `version` (of the user); `cookie`, `storage`, `memory` of each tab; `call` | `SignIn`, `Start` (a call, a download or a sign-out), `Serve`, `SignedOut`, `Deny`; `Refresh`, `Wait`, `GiveUp`, `Verify` (the user's row is read), `Issue` (the tokens), `Renewed`, `Refused`; `Lose`, `Reload`, `ChangePassword`, `SetActive`, `Tick` |

Two modules compose components that stand side by side. `Company` is what stands between a
browser and the data of a company: `Tenancy`, `Access` and `Sessions`. `Ventures` is the
services of `investors/`: `Investors`, `Recruitment` and `Quotations`. Their states meet
nowhere (the services keep tables of their own and call none of the others), so a step of
the composition is one step of one component; the names that components share (`req`,
`Requests`, `None`, ...) are renamed there, as `investing`, `Clerks` and `Nil` are.

`Sums` is the sum over a function's domain, as the services' SQL adds up rows, and
`SumTheorems` what is provable about it. `...Proofs` modules hold the theorems about the
module they are named for; `TenancyProofs` also has those about `Company` and
`SettlementProofs` those about `Ventures`; see section 4.

`MC...` modules give the constants their values for TLC. In `MCTenancy` (about `Company`)
and `MCVentures` the variable `part`, which the first state chooses and no step changes,
tells which component takes steps, and on which of the values: the others stay in their
first state, which loses nothing, since no step of one component reads or writes what
another has. `MCSettlement` lets requests name fractions of a paisa while one document is in use, and
brings in the second as long as no fraction has left a trace (`MCStart`).

A definition named `Mut...` is a defective variant of the definition after it, as a
plausible mistake would leave it: a lock not taken, a check dropped, a wrong comparison.
Nothing uses it; replacing the real definition by it must break the property that
`PROJECT.json` pairs it with, which shows that the property depends on that code.

### History variables

The code checks many things outside the transaction that acts on them, or reads a row
without locking it. History variables record the writes made on the strength of something
that had changed since it was read; no action reads them. A property that says "unless ...
overtaken" therefore says two things: what the code guarantees, and that the writes its
variable records, and no others, are what breaks it. They are not all races: `filled`
records what rounding does, `excused` includes losses and cancellations, and
`loose` of `Recruitment` records a case that a plain update brings back beside another live
one, by one user and without any race. Where the race that is exempt is the whole hazard
(`OneLiveBill`, `RequisitionTellsOrdered`, `SeatsKept`, `StageIsFurthest`,
`WonIsOneProject`, in part `VacanciesHonest` and `BalanceIsOwed`), what is left is that
nothing else breaks the guard.

| Variable | Module | Records | What the race does |
|---|---|---|---|
| `stale` | `Settlement` | documents and payments cancelled from a row that had changed | cancelling checks its row before the transaction (`documents.service.ts:290-292`, `:519-521`), so a payment or a posting that commits in between leaves a cancelled document that is paid or has a live entry |
| `filled` | `Settlement` | documents whose last payment fell short of the total by less than what rounding added | not a race: the status is decided on the sum before it is rounded (`documents.service.ts:666-669`), so 99.996 of 100.00 is stored as 100.00, `partially_paid` |
| `overtaken` | `Journal` | second mirrors, deletions of what was booked meanwhile, double matches | both reversals read the entry as posted (`posting.service.ts:136-139`); a delete reads a draft (`accounts.service.ts:246-250`); two lines find no earlier match (`bank.service.ts:250-255`) |
| | `Stock` | posted documents deleted; a requisition's status computed without another issue | `inventory.service.ts:365-368`; `:339-345`, for issues that no journal row keeps apart: in different years (`numbering.service.ts:46-53`), or of which one books no entry (free goods); `site.service.ts:123-130`, a decision written over an issue |
| | `Procurement` | statuses written over one that was not read; second bills of a receipt; bills cancelled from a changed row | `procurement.service.ts:278-293`, `:105-109`; `documents.service.ts:484-488` |
| | `Construction` | items reduced, and bills approved or cancelled, behind a concurrent change | the BOQ, the other bills and the invoice are read without locks (`site.service.ts:382-391`, `:441-447`) |
| | `People` | leave asked for while another request on the balance was undecided; sheets saved over leave; leave approved between the run's two reads; second disbursements | `attendance-leave.service.ts:217`; `payroll.service.ts:150`, `:249` |
| | `Quotations` | a quotation won and changed by requests that read it before each other's write | `quotations.service.ts:209` |
| | `Access` | users who were active when the limit was lowered below them, and users activated beyond it by a request whose count another had overtaken (`late`: since it counted, a user became active or the limit was lowered) | `users.service.ts:79` |
| `booking` | `Investors` | for each agreement and period, what should be booked by now; none when the computation was overtaken | `investors.service.ts:405`: a repeated request books the share twice |
| `excused`, `again` | `Investors` | investors overdrawn by a loss, a cancellation or an overtaken payout; amounts reversed twice | `:218`; the cancellation checks its row outside the transaction |
| `lost`, `loose`, `behind` | `Recruitment` | job orders, cases and stages written from a changed read; in `loose`, also cases that an update made live again | `eb3.service.ts:378`, `:424`; the update checks nothing |
| `alive`, `out` | `Tenancy` | pools opened and not ended; ticks since a company stopped being active | |
| `lost` | `Access` | ticks since a user lost a permission, for each cause | |
| `age`, `signedOut` | `Sessions` | ticks since a token version was replaced; whether a tab has signed out | |

The fields `late`, `early`, `heard` and `waited` of requests, calls and cached entries do the
same for one step: set when what has been read changes, and `waited` limits a query to a tick.

### Abstractions

- Amounts are small numbers, of which `Paisa` make a paisa in `Settlement`. A payment and
  its allocations may be fractions of one (`packages/shared/src/dto.ts:10`); what is stored
  is rounded (`m2`), what is checked is not. An invoice is its total: lines, VAT and
  withholding only matter through the sum that reaches the control account. Invoices and
  bills are one "document" with debit and credit swapped (`Side`).
- Stock values are whole cents, quantities whole units of the column's last digit, unit
  costs fractions. Rounding is `ROUND_HALF_UP` (`common/money.ts`); the direction in which
  the 40-digit decimal division itself rounds a tie is not modelled. Payroll and profit are
  in paisa with the same rounding.
- A payment allocates to a document once: several allocations of one payment to one document,
  which the code takes one by one and rounds each time, are one. Withholdings, which are
  rounded lines of the payment's entry, are left out.
- Numbers: one row per sequence and year. `Stock` has a row for each type and year
  (`Sequence`, `Journal`). The others stay within one year, which makes their requests wait
  for each other more than in the code; `Journal` is about the numbers of one year, and
  what `Settlement`, `Procurement` and `Construction` promise rests on other locks: none of
  their properties (the proofs say which locks they use) needs the journal's row. A sequence row
  taken right before a commit by a request that waits for nothing after it is part of that
  commit (`Procurement`, `People`, `Investors`).
- The stock movement of a goods receipt is left to `Stock` and paying a bill to
  `Settlement`; `Procurement` has one vendor. A bill that names a goods receipt but was
  not drafted from it is not modelled: the forms do not offer it. No operation changes a
  price between a receipt and its bill, so the clearing of the difference does not arise.
- `Construction` has one project and one work order; rates are one, VAT and retention are
  left out, payment of a running bill's invoice is one step (`Settlement` has its steps).
  A subcontract bill has no cancellation: `BillsService.cancel` sends the user to one
  (`documents.service.ts:522`), and no operation of the API provides it.
- Periods and days are numbers. An employee who is not active, has not joined or has
  neither a structure nor a wage has no terms.
- `Investors` has one project, whose profit on a day changes by a step of its own: what the
  other modules book; the two queries of that profit (`investors.service.ts:116`, `:133`)
  are one read, and a booking is compared with what it was computed from. In `Recruitment` a
  stage is its index, of which the last two are special. An `Offer` of `Quotations` stands
  for the lines and says only whether it has a client and a priced line.
- Time is in ticks of 30 seconds in `Tenancy` and `Access`, so that the lifetime of a cached
  status is one tick, of permissions two, of modules one; the only assumption is that a
  query (in `Access`, the queries of one request) is answered within a tick. `Sessions`
  assumes nothing about how long an answer takes, but that the API reads a user's row and
  issues tokens for it within a tick: tokens may be revoked in between (`Recent`, `Verify`
  and `Issue`), and those issued then are as old as the row that was read. A user's update
  in `Access` gives the whole row, as the form does.
- `Sessions` has one user in one browser; what the user does on another computer is
  `ChangePassword`. Tokens are what can be told of them: when they expire and the version
  they were issued for.

## 3. Runs

All runs use two requests (or calls) at a time, except `double_counting` and `over_shared`,
which need one: every property here is about a pair of interleaved operations, and a third only adds another
pair. Bounds are the finite sets in the `.cfg`: a document, an order or a payment is used
once, so every run is finite; `MaxNo`, `MaxPayments`, `MaxPositions` and `MaxVersion` bound
counters. Symmetry is used for interchangeable model values, never in the run with liveness.

| Run | Asks | Shows | Bounds |
|---|---|---|---|
| `settlement` | can concurrent payments, cancellations and postings lose money? | `PaidIsAllocated`, `StatusTellsPaid`: no payment is lost or taken back twice and nothing is overpaid, in every interleaving; `EntryMatchesSource`, `ControlAccountAgrees`: documents, entries, the control account and the ageing report agree except after a stale cancellation. Whatever is rounded, stored amounts, allocations and the ledger never part; a status and a paid amount do only where rounding paid the rest, or an allocation of 0.00 was taken back | 2 invoices of 2 paisas, 2 payments of 1 or 2 (partial, full and excessive payments, payments over both invoices, money left on account); with 1 invoice, 2 payments of 1, 2, 3, 5 or 6 thirds of a paisa |
| `settlement_live` | does every request end? | `RequestsEnd`, although two payments, or a payment and a reversal, lock the same two documents in opposite orders, and payments and cancellations take documents and journal in opposite orders | 2 posted invoices of total 1, 2 payments of 1 or 2 over either or both, in either order |
| `journal` | do numbers, balances, booked entries, locks, flags and matches hold? | `NumbersGapFree`, `TrialBalance` (with one mirror per reversal), `MatchedOnce` (a matched line stays, and a reconciliation comes out even), `BookedIsForever`, `OnlyOvertakenBook` | 2 numbers: an entry and its mirror, or two entries, balanced or not; 2 accounts, 1 period, 2 statement lines |
| `stock` | do balances, movements and the account stay in step, and does a requisition's status follow what is issued? | `TypeOK`, `BalanceIsMovements`, `NoResidue`, `PostedMovedOnce`, `InventoryAccountAgrees` (the account and the valuation report); `SiteReqTellsIssued`: never fulfilled too early, and fulfilled once all is issued but for the issues that nothing keeps apart | two scenarios, told apart by the constraint `MCScenario`: 3 documents out of an opening of 3 units at half a cent (an average that does not divide), transfers both ways, a two-line adjustment, an issue; 2 items, one on two lines and one that may be free of charge, issues of one, the other and both, in one year and in two |
| `procurement` | can an order be over-received, mis-stated or billed twice? | `WithinOrder` (and what is received is the receipts), `StatusTellsReceived`, `GrniAgrees`, `OneLiveBill`, `RequisitionTellsOrdered` | two scenarios, told apart by the constraint `MCScenario`: 1 order of two lines with one item, one line free, with 2 receipts and 2 bills; 2 orders for 1 requisition, with 1 receipt |
| `construction` | can work be billed twice or beyond its quantity? | `WithinBoq` (the BOQ follows the approved bills exactly; it is exceeded only by a bill that names an item twice or when its quantity is reduced behind an approval), `AdvanceWithinReach`, `CancelledIsLatest`, `MeasuredOnce` | 2 running bills and 2 subcontract bills, one item of quantity 2 or 3, an advance that the first bill exhausts |
| `people` | can leave be overdrawn, a day deducted twice, salaries paid twice? | `WithinEntitlement`, `AwayDeductedOnce`, `LedgerTellsSlips` | a clerk and a worker, 3 days of which one is off, 2 leave requests on a balance of one day, one run that may be generated again, 2 disbursements |
| `tenancy` | do pools, caches and sessions forget in time? is a seat taken twice? | `OnePool`, `SuspendedInTime`, `OpenIsReady`; `RevokedInTime`; `SeatsKept`; `SessionsEnd` | four parts: 2 companies and room for 1 pool, one company provisioned; a user, a role and a permission of a module; 2 users without roles and 1 or 2 seats; 2 tabs, 2 calls, tokens revoked once |
| `ventures` | are bookings, payouts, vacancies, stages and quotations counted once? | `BookedOnce`, `BalanceIsOwed`, `VacanciesHonest`, `StageIsFurthest`, `WonIsOneProject` | six parts: bookings of two nested periods; bookings while terms change; 3 movements of 2 investors; 2 cases on 1 or 2 positions; 5 stages of a case; 2 quotations and 2 project codes |
| `over_receipt` | is nothing received beyond what is pending? | violated, see below | 1 order, as in `procurement` |
| `double_counting` | can allocations be repeated without double counting? | violated, see below | one request at a time, one agreement, two days |
| `over_shared` | is no more than the whole profit shared? | violated, see below | one request at a time, two agreements of 40 or 60 percent |

The parts that `part` tells apart are small for a reason each: two companies and one pool
make every second opening an eviction; an access token of one tick and a refresh token of
two let one expire before the other; two nested periods are the least in which a booking
lies inside one and outside the other. The constraint `MCScenario` keeps a part to its
values (one user where permissions are checked, users without roles where seats are counted,
one case where its stages are) and, where permissions are checked, lets one request write at
a time and a permission be missing for one or two of its three causes. The view of
`MCTenancy` leaves out what no step can use any more (an expired cache entry or token) and
what a part does not use. The symmetry of `MCVentures` swaps the two movements, candidates,
cases, quotations and codes all at once: in a part that uses some of these kinds, swapping
the others changes nothing.

`settlement_live` starts with its documents posted, as `CommitCreate` leaves them: creating
and posting a document locks one document at most, so what it could add is a wait for a
sequence row alone, and two payments that lock both documents, in each order, are then
within reach of the check. With a deadlock detector that did not look at the documents'
rows (`MutWaits`) two such payments wait for ever.

`stock`, `ventures`, `double_counting` and `over_shared` say `CHECK_DEADLOCK FALSE`:
once what the run may create has been created and dealt with, there may be nothing left to
do. The other runs check deadlock.

**Findings.**

1. `ProcurementService.receive` compares each line of a delivery with what is pending on the
   order line, as read before the loop that adds to it (`procurement.service.ts:360`,
   `:376`, `:380`), and tells the caller so (`:377`). A delivery whose lines name one order
   line twice passes both comparisons and receives more than was ordered;
   `packages/shared/src/dto.ts:702` lets a request do that. `WithinOrder` shows that this is
   the only way: two deliveries never exceed the order between them.
2. `InvestorsService` says that "allocations can run repeatedly without double counting"
   (`investors.service.ts:23-24`), but subtracts from a period's entitlement only the
   bookings whose own period lies inside it (`:351-352`). The share of a year and then that
   of one of its quarters books the quarter twice, with one user and one request at a time.
   `BookedOnce` shows what does hold: repeating a booking of the same period, or a longer
   one, books only what is missing.
3. The repository's README says that "shares on one project cannot exceed 100%" (`:44`), and
   a test that a second agreement cannot push them past it
   (`apps/api/test/flow.e2e-spec.ts:297`). `createAgreement` compares the sum with 100
   (`investors.service.ts:189`), `updateAgreement` (`:198-204`) does not: agreements of 40 and
   60 percent and an update of the first to 60 share 120, with one user and one request at a
   time. Two agreements that are made at once may pass 100 as well, since the sum is read
   without a lock (`:185`). What is left of the promise, that one agreement made alone stays
   within 100, is the one comparison, and no property is spent on it.

**Other behaviours the models show.** A payment is compared with what is outstanding, and
its status decided, before its amount is rounded: an allocation of 99.996 to a document of
100.00 leaves it `partially_paid` with 100.00 paid, nothing outstanding, and no payment can
make it `paid`; one of 0.004 leaves it `partially_paid` with nothing paid, and taken back
after the rest was paid it leaves `partially_paid` a document that is paid in full
(`StatusTellsPaid`, `PaidIsAllocated`; nothing in the repository says otherwise, so this is
no finding). An item on two lines of a site requisition has every issue added to both, so
the requisition is fulfilled when the larger line is covered; two issues dated in different
years may both leave it `partially_fulfilled` when all is issued (`SiteReqTellsIssued`).
Filled positions are not given back when a case is withdrawn (`VacanciesHonest` counts the
cases that were opened). A company whose provisioning fails after it became active is marked
failed without an invalidation, so requests are admitted until its cached status expires
(`SuspendedInTime`). A tab that has signed out can have its session back when one of its own
refreshes was under way; when the sign-out did not reach the API, another tab's refresh
renews the session for itself and stores it for all (`SessionsEnd`).

**Fairness.** `Fairness` of `Settlement`, part of `FairSpec` and of the run's `LiveSpec`, assumes
`SF_vars(Proceed(r))` and `WF_vars(DeadlockVictim(r))` for each request. A request that can go on does: its handler runs to its end
without waiting for anybody but the database, and PostgreSQL serves the queue of a row
lock in turn, so a request for which the row is free again and again gets it, which is
strong fairness. Of requests that wait in a circle the deadlock detector, which runs after
`deadlock_timeout`, aborts one. Nothing is assumed of `Start` or `Fail`. "In time" in
`Tenancy`, `Access` and `Sessions` is a safety property: ticks are counted, and none passes
while a query that has already taken one is unanswered.

## 4. Proofs

The theorems hold for every value of the constants that satisfies the named assumptions of
the modules, and for any set of requests. The assumptions are what the code's schemas and
tables give: rows are finitely many where something adds them up; amounts, quantities and
settings are natural numbers; a document, an order, a delivery and a measurement have at
least one line, and lines have the columns' types; `None`, which stands for SQL's NULL, is
none of the values it could be taken for; tables that share a lock space have different
rows. TLC evaluates each of them in the runs. The modules that `Company` and `Ventures` compose
state theirs as an operator, `Assumptions` (and `TimesAssumption` of `Access`), which the
lemmas about them have as a premise; the two compositions assume it of their instances
(`CompanyAssumption`, `VenturesAssumption`).

| Theorem | Statement |
|---|---|
| `SettlementProofs!TypeCorrect`, `NeverOverpaid`, `PaidIsKept`, `EntriesMatch`, `ControlAgrees` | `Spec => []TypeOK`, `[]StatusTellsPaid`, `[]PaidIsAllocated`, `[]EntryMatchesSource`, `[]ControlAccountAgrees` |
| `StockProofs!TypeCorrect`, `NothingLost`, `NothingLeft`, `SiteReqTold`, `AccountTold`, `MovedOnce` | `Spec => []TypeOK`, `[]BalanceIsMovements`, `[]NoResidue`, `[]SiteReqTellsIssued`, `[]InventoryAccountAgrees`, `[]PostedMovedOnce` |
| `JournalProofs!TypeCorrect`, `NoGaps`, `BooksBalance`, `Reconciles` | `Spec => []TypeOK`, `[]NumbersGapFree`, `[]TrialBalance`, `[]MatchedOnce` |
| `JournalProofs!ChecksAreMade`, `EntriesAreKept` | `Spec => OnlyOvertakenBook`, `BookedIsForever` (what a step may never do) |
| `ProcurementProofs!TypeCorrect`, `ReceivedWithinOrder`, `StatusTold`, `OrderedTold`, `GrniTold`, `BilledOnce` | `Spec => []TypeOK`, `[]WithinOrder`, `[]StatusTellsReceived`, `[]RequisitionTellsOrdered`, `[]GrniAgrees`, `[]OneLiveBill` |
| `ConstructionProofs!TypeCorrect`, `ExecutedWithinBoq`, `RecoveredWithinAdvance`, `WorkMeasuredOnce` | `Spec => []TypeOK`, `[]WithinBoq`, `[]AdvanceWithinReach`, `[]MeasuredOnce` |
| `ConstructionProofs!LatestCancelled` | `Spec => CancelledIsLatest` (what a step may never do) |
| `PeopleProofs!TypeCorrect`, `EntitlementKept`, `DeductedOnce`, `LedgerTold` | `Spec => []TypeOK`, `[]WithinEntitlement`, `[]AwayDeductedOnce`, `[]LedgerTellsSlips` |
| `TenancyProofs!OnePoolEach`, `ReadyWhenOpen`, `InTime` | `Spec => []OnePool`, `[]OpenIsReady`, `[]SuspendedInTime` |
| `TenancyProofs!SeatsAreKept`, `RevokedIsRefused`, `SessionsDoEnd` | `CompanySpec => []SeatsKept`, `[]RevokedInTime`, `[]SessionsEnd` |
| `SettlementProofs!BalancesAreOwed`, `SharesAreBookedOnce` | `VenturesSpec => []BalanceIsOwed`, `[]BookedOnce` |
| `SettlementProofs!StageKeepsUp`, `VacanciesAreHonest`, `QuotationWonOnce` | `VenturesSpec => []StageIsFurthest`, `[]VacanciesHonest`, `[]WonIsOneProject` |
| `SumTheorems` | what a sum over a finite set is made of (below) |

**The common argument.** None of these properties is inductive: a commit writes what its
request computed from rows that it read some steps before. Each module therefore has an
invariant, `IInv`, that says three things: that the rows have their types; that no row is
locked by two transactions (`LocksExclusive`); and, for each kind of request and each step,
which rows it holds and what it knows of them (`Knows` of `Settlement`,
`HoldsWhatItChanges` of `Stock`, `Does` of `Journal`, `Runs` and `Holds` of `Procurement`,
`RequestsSound` of `Construction`, `Does` and `Holds` of `People`). A step of one request
disturbs what another knows only by writing a row the other holds, and for that it would
have to hold it too. Where the code holds nothing, the invariant says that what is known is
true *or the request is marked as overtaken*, which is where the "unless" of a property
comes from. Each action then has a lemma that it keeps `IInv`, and one (`...Does`) that
says what it writes; the properties are proved from the second kind, by a further invariant
where the property alone is not inductive.

**Sums.** What the code adds up in SQL or in a loop is a fold, that is a recursive function
on the subsets of its domain. `SumTheorems` proves that there is such a function and what
follows: the sum does not depend on the order of the elements (`FoldTakesAny`), changes at
one point by the difference there (`SumChanges`), adds elementwise (`SumAdds`), is the sum
of its parts (`SumParts`, `SumWhere`), does not depend on names (`SumReindexes`), and is
monotone (`SumBounds`, `SumMonotone`). Induction is needed for that and the library's
induction theorems take a predicate, which the provers cannot instantiate; `NaturalInduction`
and `SubsetInduction` are stated with a set in its place and proved from the
well-foundedness of `<` and of strict inclusion.

**Settlement.** For `StatusTellsPaid`, a payment past its row step holds every document it
allocates to, each was found allocatable when it was locked, and nobody else can have
changed it since. What is stored is a whole number of paisas, and the arithmetic at the head
of `SettlementProofs` says what rounding does to it: it never passes a total, which is such
a number itself (`RoundBounds`), and of a stored amount and an addition to it only the
addition is rounded (`RoundSum`), so what is added to the paid amount is what is stored as
allocated. A stale cancellation is no exception: of a cancelled document the property says
only that what is paid is within the total. `BInv` adds what the rows say of one another:
the entry of a document or payment tells its status unless it was cancelled from a stale
row, what a request read before its transaction is still so or what it writes will be stale,
and what is paid on a document is what the posted payments allocate to it. For
`ControlAccountAgrees` a document's balance is split into what is outstanding and what is
paid, and a payment's into what is on account and what is allocated; that an owner's
documents are paid as much as his payments allocate is a part of `BInv` of its own
(`OwnerPaid`), which every commit keeps.

**Stock.** `TypeOK` contains that quantities and values are natural numbers, which rests on
the arithmetic at the head of `StockProofs` (`Quotient`, `RoundIsBounded`,
`IssueIsBounded`): an issue at the rounded average never takes more value than there is.
`NoResidue` follows in the same invariant because an issue of everything takes the whole
value. `AccountInv` says that a transaction books what it has moved so far, so rounding
moves the account and the balance by the same cent; `MovesInv` that a transaction has moved
the quantities of exactly the lines and legs before the one it is at, and that a document
is posted by one request at a time; `SiteInv` that the status a request will write is the
one that what was issued, and what it issues itself, calls for, or two requests are about to
write one side by side, of which the journal's row keeps apart those that book in one year.

**Journal.** `NumbersGapFree` is part of `IInv`: the numbers below `nextNo` are those of the
entries there are or were, because the row of the sequence is held to the commit.
`MirrorInv` relates a reversed entry to its mirrors: their lines are its lines negated, the
mark is there exactly when a mirror is, and a second one was written by a request that had
been overtaken. `MatchInv` keeps the line a statement line is matched to, by the foreign key
that makes a delete of it fail. `CheckedInv` is the invariant behind `OnlyOvertakenBook`:
between its check and its commit a request is late, or no lock and no flag contradicts it.

**Procurement.** `IInv` has that orders, receipts and bills refer to rows that exist and fit
the lines of their order, and that lines and receipts do not change once written.
`WithinOrder`, `StatusTellsReceived` and `RequisitionTellsOrdered` are then inductive
relative to it. `OneInv` states `OneLiveBill` for the bills that were not overtaken, and
`GrniInv` the account as the difference of two sums over rows: the cost of each receipt and
what each posted bill clears of it.

**Construction.** `IInv` has that a BOQ item's executed quantity is what the approved bills
measure of it (`Booked`), and that a project has one draft, because the creation holds the
project's row (`OneDraft`). `WithinBoq` needs `WithinGood`: the bills that name the item
once and were not overtaken stay within its quantity among themselves, since an approval
that was not overtaken compares its own quantity with all that is executed. `Reach` adds to
`AdvanceWithinReach` what the draft, and the bill about to be drafted, will recover.

**People.** That payslips and entries are whole numbers (`TypeCorrect`) includes the tax:
`Left`, what the slabs leave of the income, is a recursive function over the slabs, and
`LeftsExist`, `LeftUnfolds` and `LeftIsInt` prove by induction that it exists and is whole,
whatever the slabs. `LedgerInv` says what the ledger holds of a run at each status and
number of payments. `AwayInv` says of the stored sheets, and of the copies that a run has
read and not yet used, that nobody is marked absent on a day of approved unpaid leave
unless one was written behind the other. `BalanceInv` adds to the balance that what is left
suffices for the one request on it that is undecided, or that a request was made late.

**Tenancy.** Three layers, each proved with the ones before: a tenant whose pool is being
opened has one opener and none in the map (`PoolInv`); a status is updated only of a tenant
that is set up (`SetupInv`); and a cached status that lets requests in is not older than the
time the tenant has been out, but for the tick of its look-up (`TimeInv`). A restart, a
failed opening and an eviction are ordinary steps here.

**Compositions.** `PartsOfCompany` shows that `CompanySpec` implements the specifications of
`Access` and `Sessions`, `StepsOfEach` that every step of `Ventures` is, for each component,
a step of its own or none. What follows is then argued for each component alone.

**Access.** `SeatsAreKept`: a request about to write an active user has counted fewer
active users than the limit it read, and both still hold, or it is marked (`Counted`); what
marks it are the two writes that could make it wrong, another user becoming active and the
limit being lowered. `RevokedIsRefused` has two halves. In time (`InTimeInv`): what a cached
entry grants was lost no longer ago than the entry's age and the life of the cached modules
it was filled from, because a check has read each of user, roles and modules no longer ago
than its queries have taken (`ReadInTime`), and what a user has again is no longer counted
as lost (`HeldIsNotLost`). At once (`ToldInv`): a cached entry that grants more than the
user has was being read during the change, or its invalidation is still to come; a check
that has read something that changed is marked when it has, in whichever of its three
queries.

**Sessions.** `SignedOutInv` says who may still renew: once the API has heard of a sign-out
and nobody has signed in since, every refresh token in the cookie and in a call under way is
of a version that is gone (`AllStale`); so a session in a tab that has signed out was written
by one of that tab's own refreshes that were under way, or by another tab before the API had
heard. The other half, that no session outlives the access token it had at the revocation,
follows from what the types say of tokens: none has a version that is yet to come, and none
that was issued for an older one has more time left than a token's life less the version's
age.

**Investors.** No row is locked, so `InvestInv` has only what requests know unless they are
marked: a new agreement is a row of its table (`CreateKept`), the payout is covered
(`PayoutKept`), the amount to be booked is what was earned less what is booked
(`AllocateKept`), the movement to be cancelled is there (`CancelKept`). A balance, what is
booked of an agreement within a period are sums over a table of rows
that change at one row per commit (`BalanceIsSum`, `BookedIsSum`);
`BalanceStep` and `BookingStep` say what a new row adds to each, for every period that the
row's own period lies in.

**Recruitment and Quotations.** `CaseInv` says what is still so of the three rows a request
goes by, the job order, the candidate's cases and the stage, each of which has a mark of its
own in `late`; a commit tells every other request that has read what it writes
(`CaseCommits`), and `StageIsFurthest` and `VacanciesHonest` are inductive relative to it.
`QuoteInv` adds to `WonIsOneProject` that a request which is not marked is about a quotation
that is not won, and that a winning one will copy the offer that is there.

**Only model-checked.** Every invariant and action property that the passing runs check is
also proved. Liveness (`RequestsEnd`) is out of the prover's reach, as is `ENABLED`, so that
requests end is shown for the bounds of `settlement_live` only. The findings are
counterexamples, for TLC to find. That a model follows the code is not proved: it is read
(the map in `PROJECT.json`) and tried (the `Mut...` definitions).

## 5. Not modelled

- Mail, storage, the audit log and the spreadsheet import: no state that another part relies
  on, or inserts through the services that are modelled.
- The pages of the web application (most of its code): forms and lists over the API.
  `Sessions` models what the client itself keeps.
- Lists, queries and controllers of the API, and the request schemas except for what they
  let an operation receive. With the pages they are most of the repository's lines.
- Reports other than the ageing and the stock valuation: sums of the same entries.
- Sessions of platform administrators and of an administrator who signs in as a user;
  password hashing and the signing of tokens are library calls.
- A pool that is ended while a handler that has been given it still runs: whether its query
  still gets through is up to the driver.
- The check that nobody deactivates himself (deleting a role is modelled as emptying it),
  plans and payments of subscriptions, deletion of a company, the migration of all companies
  (run by hand, one after the other).
- Creation of accounts, fiscal years and bank accounts; requests for quotation; the
  enlistment of vendors; EB-3 fees, checklists, notes and the candidate's own status: single
  inserts or updates that nothing modelled races with.
- Variations, deletion of a BOQ item (the database refuses it for an item that is billed),
  changes of a project, and the conversion of a site requisition to a purchase requisition.

## 6. Plan

Next come:

1. Abstract specifications: a settlement in which a payment is one step, which `Settlement`
   implements while nothing is stale, and a registry that forgets a suspended company after
   the cache's lifetime, which `Tenancy` implements.
2. Variations, the conversion of a site requisition, and requests for quotation.
