# kasirk-backend in TLA+

kasirk-backend is the server of a point-of-sale system: NestJS services over one
PostgreSQL database, reached through Prisma. Android tills send it checkouts,
held orders, shift openings and closings; an admin edits products and stock. All
state is in the database. Correctness therefore hangs on which statements share a
transaction, on the isolation level, on row locks, unique indexes and conditional
updates, and on what a client is told when it sends a request again.

This directory has TLA+ modules of that core, TLC configurations that check them
on small instances, and proofs for all instances that TLAPS checks.

    tlc -workers 2 -config Checkout.cfg MCCheckout
    tlapm Checkout_proofs.tla

`PROJECT.json` is the index: components, runs, the source lines of every
definition (`map`), hazards, findings, theorems, and for every property a broken
variant of the model that violates it (`mutants`; they stand beside the
definition they break, under the comment "Broken variant").

## 1. Inventory

Paths are relative to `src/src/`.

| component | state | operations | interacts with |
|---|---|---|---|
| Shifts, `shifts/` | `cashier_sessions`: status OPEN or CLOSED, opening and closing times; a partial unique index allows one OPEN row per user | `open` (Serializable), `close` (READ COMMITTED, FOR UPDATE, then a CAS on the status), `current`, `summary` | counts OPEN held orders, sums sales |
| Held orders, `held-orders/` | `held_orders`: status OPEN, CONVERTED or CANCELLED, `version`, originating session, `converted_transaction_id`; items, options | `create` (FOR UPDATE on the session), `update`, `cancel` (CAS on status and version), `checkout` (one Serializable transaction per attempt, three attempts), reads | runs the sale core of Transactions inside its own transaction |
| Transactions, `transactions/` | `transactions` (unique `tenant_id, client_transaction_id`), items, options, `payments`, `stock_movements` | `create` (READ COMMITTED, three attempts), `createLegacySync`, `executeTransactionCore`, reads | sessions, products, modifiers, stock |
| Stock, `stock/` | `product_stocks` (CHECK stock >= 0), `stock_adjustments`, `stock_movements` | `createAdjustment` ADD and DEDUCT, `findByOutlet` | shares stock rows with checkouts |
| Offline sync, `sync/` | none | a batch: its validation and the access of the user, then one checkout after the other (V1 or legacy), a result per record | Transactions |
| Authentication, `auth/` | `users.pin_failed_attempts`, `locked_until`, `pin_hash`; `device_sessions` with a hashed refresh token | password and PIN login, refresh (rotation), logout, set PIN | Users |
| Products, `products/` | `products`, `product_modifier_groups` | CRUD, replace, assign, update, remove modifier groups | read by checkouts and held orders |
| Modifier groups, `modifier-groups/` | groups and options, with `is_active` | CRUD; a delete switches off | read by checkouts and held orders |
| Tax, `common/utils/tax.util.ts` | none | `calculateTax` in basis points | held orders (estimate) and checkouts (charge) |
| Categories, `categories/` | `categories`, a unique name | create, update, remove (counts products, then deletes) | `products.category_id` refers to them, ON DELETE RESTRICT |
| Customers, `customers/` | `customers`, a unique phone | create, update, remove, transaction history (REPEATABLE READ) | `transactions.customer_id` refers to them |
| Receipts, `receipts/` | none | the receipt of a sale, of V1 or from before it | snapshots in `transactions`, names of products for older rows |
| Reports, `reports/` | none | summary, top products, daily sales | transactions |
| Outlets, receipt settings | one table each | reads, one upsert | - |
| Bootstrap and seed | none | creates the first tenant in one transaction | - |
| HTTP layer, guards, DTOs | none | authentication, validation | all services |
| Prisma client, schema | pool of five connections | - | all services |

Behaviours that are hard here, each of them with its line under `hazards`:

- **interleaved statements**: READ COMMITTED transactions see each other between
  two statements. The guards are `FOR UPDATE`, conditional `updateMany`, and
  unique indexes.
- **resent requests**: a till repeats a request after a lost response, and may do
  so while the first delivery is running.
- **aborts**: P2034, P2002, deadlocks, the 5 s limit of interactive transactions,
  a crash: everything before COMMIT disappears, and a bounded loop may try again.
- **stale reads**: status of the session, price, version, all read in one
  statement and relied upon in a later one.

What makes each component correct:

- *Shifts*: one OPEN shift per cashier; no shift closes under an OPEN held order;
  the summary derived by a close has every conversion; a close is answered.
- *Held orders*: a terminal order never changes; an order is sold exactly when it
  is CONVERTED, once, with the body the client saw; a resend is told so.
- *Transactions*: one sale per `client_transaction_id`; a receipt is of the
  recorded sale of the same payload; the sale is atomic with its stock.
- *Stock*: never negative, equal to the sum of its movements, explained by the
  sales and adjustments that were committed.
- *Authentication*: a lockout counts every failure and is not moved by late ones; a
  PIN that was replaced opens no session; a refresh token is used once, and of the
  tokens of one login one at most is ACTIVE.
- *Sync*: an answer has one result for each record, in order, and says "synced" only of
  what is recorded; a batch that is sent again after a crash is confirmed, not sold again.
- *Held orders and checkout, as prices*: the two implementations of the modifier rules
  and of the range checks accept the same carts, and the estimate is what is charged.
- *Receipts and reports*: a receipt adds up and never changes; the product report sums
  up to the summary; the report of a past day stays as it was.
- *Products and modifier groups*: what a replacement saw is gone after it; a group that
  is kept is never missing in between; a refused edit leaves nothing behind.
- *Categories, customers*: nothing is left that refers to a deleted row; a history's
  totals are those of its list.

## 2. Modules

| module | models |
|---|---|
| `ShiftHeldOrder` | shifts, held orders, and the sales of a shift |
| `Checkout` | `POST /transactions` with stock, beside `POST /stock/adjustments` |
| `SaleLedger` | what those two promise, each in one step; `Checkout` implements it |
| `HeldCheckout` | `POST /held-orders/:id/checkout`: replay, retries, shared ids |
| `AuthV2` | PIN login with its lockout, set PIN, refresh, logout |
| `TaxUtil`, `Quote` | what a cart costs, held or sold, and how the sale is read again: receipt, resend, reports |
| `SyncBatch` | `POST /sync/transactions` with crashes and resends; it implements `SaleLedger` too |
| `ProductModifiers` | the modifier groups of a product, edited by several requests |
| `Directory` | categories, customers, and what is read of the sales while they commit |
| `MC...` | the instances that TLC checks |
| `ShiftHeldOrder_proofs` | theorems about shifts: types, locks, history of orders, summaries |
| `Checkout_proofs` | theorems about checkouts: stock, receipts, the refinement of `SaleLedger` |
| `HeldCheckout_proofs` | theorems about conversions and their answers |
| `AuthV2_proofs` | theorems about the lockout and about refresh tokens |
| `SyncBatch_proofs` | theorems about the results of batches; the refinement of `SaleLedger` |
| `ProductModifiers_proofs` | theorems about the edits of modifier groups |
| `Directory_proofs` | theorems about references, histories, pages and daily reports |
| `Quote_proofs` | sums over finite sets; theorems about prices, receipts, resends and reports |

The constant `Together` of `Checkout`, `HeldCheckout`, `AuthV2` and `Directory` is the set
of the sets of requests that are sent beside each other: the initial states choose one
of them, and the other requests are never sent. With the set of all requests as its
only member it means any of them at once; the theorems hold for every choice.

### ShiftHeldOrder

`session`, `order` and `sale` are the committed rows, `summary[s]` is what the last
close of `s` summed, and `txn[p]` is a transaction in flight: its next statement
and what it has read. One action is one statement that another request can tell
apart: `HoldLock`, `HoldCheck`, `HoldInsert` are `authorizeWrite` and the insert of
`create`; `CloseRead` to `CloseCas` are the five statements of `close`;
`ConvertRead` to `ConvertCommit` a conversion. Statements between two of these that
change nothing another request can see are in the later action.

A row lock is not a variable. PostgreSQL keeps it from the statement that takes it
to the end of the transaction, so it is a function of the program counter
(`HoldsForUpdate`, `HoldsKeyShare`, `HoldsOrder`). FOR UPDATE conflicts with FOR
KEY SHARE, which the foreign key check of an inserted sale takes. The status
updates of sessions do not touch a key and do not conflict with it.

Uncommitted rows are invisible: `HoldInsert`, `SaleCommit` and `ConvertCommit`
insert and commit at once, since what they insert only becomes visible there, and
the pending insert is in the program counter where another statement has to wait
for it. A Serializable transaction reads its snapshot (`ConvertRead`); its claim of
an order that changed since fails with P2034. Here that ends the request; the loop
around it would be a new request with the same parameters, and is modelled with its
bound in `HeldCheckout`. `Rollback` is every failure before COMMIT.

### Checkout and SaleLedger

A `Call` is one delivery of a request; several may deliver the same request, at the
same time. `Lookup` is the idempotency read with `assertSameRequest`; `Validate` the
session, the products at the prices of the moment, and the tender; `Insert` the
`transactions` row under the unique index, which makes it wait for an uncommitted
row with the same id and fail with P2002 on a committed one; `TakeStock` one
conditional decrement; `Complete`, `Commit` and `Reply` the rest. `write[w]` holds
the uncommitted stock rows of a transaction and is at the same time its row locks.
`Retry` is the loop of `createInternal`. `DeadlockVictim` aborts a call on a cycle of
the wait-for graph; whether the adapter reports it as P2034 or as another error is
not in the repository, so the call is either tried again or answered with a 500.
`EditPrice` and `CloseShift` are the other requests a checkout can notice.

`AdjEnsure`, `AdjUpdate` and `AdjCommit` are `createAdjustment`. The first one is the
`createMany` with `skipDuplicates`; it waits for a transaction that is inserting the
same row.

`SaleLedger` has three atomic actions, `Record`, `Adjust` and `Answer`. Under the
mapping in `Checkout` (`Ledger`) a missing stock row is 0, and all answers without a
receipt are a refusal. A step of the mapped specification is COMMIT, or an answer;
all others stutter.

Abstracted: names, notes and options are inside `lines` and `rest`; discount and tax
are inside the total and the reasons to refuse (`Quote` has all of them); `Tracked`
(the `track_stock` flag) is constant.

### HeldCheckout

`view[c]` is the snapshot of a Serializable attempt: the order and the sale under the
requested id. `ReadOrder` takes it and decides between replay, refusal and
conversion. `Claim` is the conditional update that locks the order. `SellOrder` is the
sale core inside the conversion: it takes an existing transaction with the same id
and payload for the sale, refuses one with another payload, or inserts. `CommitOrder`
publishes both. `Conflict` lets any statement fail with P2034, which stands for every
serialization failure and for deadlocks on rows that are not here. `ReplyOrder` tells
`replayed` from the branch the attempt took, or is lost. Direct sales (`ReadSale` to
`ReplySale`) and edits (`ReadEdit` to `ReplyEdit`) are the other users of the two rows.
The final update of a conversion always finds the row that the claim left, so the
answer HELD_ORDER_RESOURCE_CONFLICT cannot occur and has no action.

### AuthV2

`user` is the one row of `users` that the requests are about, `session[t]` the row of
`device_sessions` for refresh token `t`, `req[r]` the request with the `Date` it took
on arrival, `wrong` a count kept beside the model for the property of the counter.
`LoginRead` is the read of the user with `bcrypt.compare`, which needs nothing that
changes later. A right PIN goes on with `ResetRead` and `Reset` (the second read, then
the conditional reset with the insert of the session and COMMIT), a wrong one with
`FailRead`, and `FailWrite` or `FailAgain` (an attempt of `recordFailedPin`). `SetPin` is
`UsersService.setPin`. `RefreshRead` then `Rotate` or `Expire` is a refresh: the decision
is taken on the read, and the conditional update looks at the status again. `LogOut` is a
logout.

`recordFailedPin` is Serializable: `row` is its snapshot, and any later write of the row
makes it `stale`, so that only `FailAgain` is left. `FailAgain` is possible for a
fresh snapshot as well, since PostgreSQL may refuse a serializable transaction for
reasons that are not here. A token is named after the one request that may make it.
`from` and `login` of a session are not columns: they record the rotation that made the
row, for the properties about chains. The flags `is_active` are written by no code and
are constantly true.

### Quote and TaxUtil

`CalculateTax` is `calculateTax`, on basis points. The variables of `Quote` are the rows
that a price depends on: `product` (name, price, cost), `option` (price, `is_active`),
`assigned` (the modifier groups of a product, with `is_required` and `selection_type`),
`groupOn`, and the tax `rate`; then one held `order`, the `sales` with their items and
payment, and `asked`, the request that each of them answered, which no table keeps and
only properties read. Requests are atomic: what they meet of each other is in
`Checkout` and `HeldCheckout`.

`HoldLineFits`, `HoldAccepts` and `Estimate` are `resolveItems` and `totals` of the held
orders. `SaleLineFits`, `SaleAccepts` and `SaleRow` are the checks and the inserts of
`executeTransactionCore`, with `validatePaymentShape`, `resolveTender` and the discount.
The two are translated separately, since they are written separately. `HoldOrder`, `UpdateOrder`,
`ConvertOrder` and `Sell` are the four requests; the other actions are the edits of the
catalogue. `Receipt` is `ReceiptsService`, `SameRequest` is `assertSameRequest`, and
`Summary` and `ProductRow` are the SQL of the reports. A sale from before V1 has no
snapshot of names and its tender in `payments.amount` (`OldSaleRow`); no code writes one
any more, so they are in the initial states, if the rules accept their carts.

Sums are `SumFunction` of the community modules, over the positions of a cart or over the
items of all sales. The assumptions on the constants are what the database and the DTOs
enforce: no price, cost or option below 0 and no tax above 100 % (CHECK constraints), a
cart with at least one line, a quantity of at least one, safe integers for discount and
tender. Amounts are integers. `MaxSafe` stands for `Number.MAX_SAFE_INTEGER`, so that carts
above it exist among small numbers. The shares of a discount are exact in the model as
they are in PostgreSQL's `numeric`, up to its digits.

### SyncBatch

A `Delivery` is one upload of a `batch`; a batch that is sent again is another delivery
of the same records. `Send` is the validation of the DTO, which refuses a whole batch;
`ValidateAccess` the check of user and outlets; `Lookup`, `CheckSession`, `Write` and
`Reply` are one checkout, whose single statements are in `Checkout`: a taken id is looked
up again (`P2002`), missing stock ends the record and not the batch. A record of
`NoSession` is a legacy one. `Break` is a checkout that ends in a 500 or 503, before its
COMMIT or after it. `Crash` stops the server between any two statements: the requests in
flight are gone, and the client was told nothing. `CloseSession` and `EditActor` are
what can change before a resend; no request of the code does the latter, the database
does. `complete` is a history variable. `Ledger` maps a batch to the atomic ledger that `Checkout`
implements as well: a position in a batch is a call, its result is the answer.

### ProductModifiers

`rows` are the committed `product_modifier_groups` of one product, each with the id that
its insert gave it, the group (its key, which an update moves), and who wrote its flags
last. Every statement is READ COMMITTED. `Aim` is the snapshot of a write, and the write
itself follows when the row locks are free (`Locked`): it finds what became of the rows
of its snapshot, and no row inserted since. `Delete`, `Insert` for each group in the order
of the request, and `Commit` are the transaction of `replaceModifierGroups`; between them
`cut` and `put` hold its uncommitted rows, which are at the same time its locks and its
entries in the unique index (`KeyPending`). `AssignWrite`, `UpdateWrite` and `RemoveWrite` are
single statements that commit by themselves, after reads (`AssignCheck`, `FindAssignment`,
`UpdateGroup`, `UpdateOther`) that may be stale by then. `BreakDeadlock` aborts a replacement
on a cycle of the wait-for graph; `Fail` is a lost connection or a timeout.

### Directory

Rows are `Fresh` before they are inserted and `Gone` once deleted. A category is found,
its products are counted, and it is deleted, in three statements
(`FindToRemove`, `CountProducts`, `DeleteCategory`); a product finds its category and is
written (`ValidateCategory`, `WriteProduct`). The foreign keys decide: `WriteProduct` and
`DeleteCategory` fail with P2003, which is a 500 for a category. A sale begins,
checks its customer, is inserted, and commits, each a step; the insert holds KEY SHARE
on the customer, for which `DeleteCustomer` waits. `HistoryAggregate` and `HistoryList`
read the snapshot that `HistoryFind` took. A `Walk` is a client that asks for the pages
of `GET /transactions` in turn; each page is a snapshot of its own, newest first: a
piece of a sequence of the committed sales that is sorted by `Before` (`Listings`), whose
second key, the id, makes it the only one.
`created_at` is the time at which the transaction began or its insert (`Stamp`):
the schema does not tell which side fills the default. Server and database share one clock:
how far theirs may differ is not in the repository. `DailySales` is the report of a
day, a range of `created_at`.

### What the models rely on

PostgreSQL: the lock conflicts above; a conditional UPDATE evaluates its WHERE clause
again on the row it waited for (READ COMMITTED) or fails (Serializable); unique
indexes wait for uncommitted duplicates. The CHECK constraint on stock is not used:
`NoOversell` follows from the conditional decrement alone. Prisma: `updateMany` is one
UPDATE statement.

## 3. Runs

| run | properties | instance |
|---|---|---|
| `shift_held_order` | `TypeOK`, `OpenOrderOnOpenShift`, `OneOpenShiftPerUser`, `ConvertedSaleSummarised`, `TerminalOrderFrozen`, `CloseAnswered` | a shift with 3 sales, or 2 shifts of one cashier with one; an order; 3 transactions in flight |
| `shift_final` | `ClosedShiftIsFinal`, violated | 1 shift, an order, 2 sales |
| `checkout` | `TypeOK`, `StockLedgerBalanced`, `NoOversell`, `ReceiptsAgree`, `ImplementsLedger`, `EveryCallEnds` | a request twice beside an ADD that creates a stock row and a DEDUCT; beside a request for the same products in the opposite order; beside another payload under its id; price edits, a close of the shift |
| `checkout_retry` | `RetryFindsSale`, violated | a request twice, price edits |
| `checkout_order` | `NoMutualStockWait`, violated | two orders |
| `held_checkout` | `ConvertedOrderSold`, `ConversionIsAtomic`, `AnswersAgree`, `EveryConversionEnds` | a conversion twice beside an edit; conversions under two ids beside an edit and a direct sale under one of the ids, or a cancellation; two orders under one id |
| `held_fresh` | `FreshMadeTheSale`, violated | two orders with one content converted under one id |
| `auth` | `TypeOK`, `OneActivePerChain`, `CountsEveryFailure`, `LockedAtLimit`, `LockNotMoved`, `SessionFromCurrentPin`, `EveryRequestEnds` | a PIN set and changed beside three logins; a PIN set beside three others; two logins with two refreshes and a logout |
| `quote` | `StoredInRange`, `SameRules`, `EstimateHonoured`, `ReceiptAddsUp`, `ReceiptFrozen`, `ReplayExactly`, `ReportsReconcile` | 7 carts of two products, three options in two groups, cash in both fields and QRIS, a discount, one edit, two sales |
| `sync` | `ResultsAreTrue`, `ResendConfirms`, `ImplementsLedger` | a batch of two records sent twice, one of them again with another content, a batch with an invalid record |
| `product_modifiers` | `ReplacedIsGone`, `KeptGroupStays`, `RefusedLeavesNothing` | two replacements in opposite orders, an assign, an update, a removal, a group switched off |
| `directory` | `ReferencesHold`, `HistoryAddsUp`, `WalkMissesNothing`, `PastDayFixed` | a category removed while a product gets it; a customer removed while it buys, beside a history; three sales beside a walk in pages of one, over three days |

Bounds. `MaxVersion` stops edits of an order at version 3, enough for an edit, a stale
edit and a terminal write. `MaxSales` of `ShiftHeldOrder` is the bound on sales while one
shift has been opened (3) and while two have (1): two shifts are there for the index on
the OPEN one of a user, three sales so that two of them hold KEY SHARE on a session at
once and hand it on, to each other and to a third, past a close that waits. Sales and
shifts in flight count, so no transaction is stuck for want of a row. Three transactions
in flight show each pair of the protocols with a third one between them (the races of
`close` with a creation and a sale need exactly that). The limit of three attempts is the
code's and not reduced. One price of two values is enough to make a tender sufficient
before an edit and short after it; stock is chosen so that two checkouts cannot both be
served. In `AuthV2` the clock has two values (`MaxTime`) and a lock or a token lasts one,
so locks and tokens expire while requests that arrived before are still at work; with a
limit of two failures (five by default in the code) three logins set a lock, find it, and
restart the counter after it.

In `Quote` the largest amount is 40 and the tax 12.5 %: the prices 0, 4, 7 and 15 and an
option of 9 then give totals of nothing, halves that are rounded, and carts beyond the
range. `MaxEdits` is 1 and `MaxSales` 2, so the edit falls before, between or after a
held order, its conversion and another sale; a second edit would only add catalogues.
In `SyncBatch` the stock of 2 serves two of the three records. In `ProductModifiers`
the product starts with no group or with two, of which one is kept, one moved and
removed. In `Directory` a page has one sale, a day is one tick, and `MaxTime` is 2.

`SyncBatch` alone is checked up to symmetry, of the two deliveries of the same records:
no constant function tells them apart, and the run asks for no liveness. Deadlock
checking is off: a system in which all requests are answered has stopped rightly. Real
waits for ever are what `EveryCallEnds`, `EveryConversionEnds`, `EveryRequestEnds` and
`CloseAnswered` rule out.

Fairness. Weak fairness of the statements of a transaction in flight: PostgreSQL runs
a statement whose locks are free, and the event loop runs continuations. Nothing is
assumed of new requests, of failures, or of edits by an admin. `CloseLock` has strong
fairness: PostgreSQL wakes a close that waits when the holders of the row lock end, and
though a newcomer may be faster, it is not for ever. Strong fairness does not help
while the row is never free. A KEY SHARE that meets another one is granted beside it and
does not queue behind a FOR UPDATE that waits, so sales of a shift that overlap without
end keep its close waiting, and nothing in the code bounds that but the default timeout
of interactive transactions (5 s), with which the close fails. Hence the premise of
`CloseAnswered`, `SalesStopOverlapping`: from some time on no sale takes KEY SHARE on a
session while another holds it. It says nothing of how many sales there are, nor of
failures. Without it the run fails: TLC finds a close that is overtaken by a sale which
commits, and then by sales that overlap for ever. (There the endless ones roll back, since the
rows are finite; a commit and a rollback release the lock alike.) In
`AuthV2` a handler takes its next step (`LoginStep`, `RefreshStep`), and nothing is assumed
of the clock. `Quote`, `SyncBatch`, `ProductModifiers` and `Directory` have no fairness:
their properties are safety. A batch may be cut short by `Crash` at any time, so that
no delivery need ever be answered; what matters is that a resend is right.

### Findings

- *`shift_final`.* `shifts.service.ts` calls the summary of a close final. A direct sale
  that has passed its check of the session and not yet inserted is not seen by the
  close, which takes its lock, sums, and closes; the sale then commits into a closed
  shift. `ConvertedSaleSummarised` shows that conversions cannot do this: while an
  order is OPEN its shift cannot close, and once the claim has committed, its sale
  has too.
- *`checkout_retry`.* A resend that runs beside its first delivery may be refused
  although the sale is recorded by then. No second sale is made (`ImplementsLedger`).
- *`checkout_order`.* The comment promises a stable product order; the order is that of
  the lines of the request. Two checkouts may wait for each other; the database
  aborts one (`EveryCallEnds` shows that it does not hang).
- *`held_fresh`.* Two held orders with equal content and one `client_transaction_id`
  share a sale; both responses say `replayed: false`.

Two things the runs show that no document excludes: two replacements of the modifier
groups of a product may end as the union of both, since neither deletes what the
other inserts; and a cart of total 0 can be held and never sold, so that its shift
cannot close until the order is cancelled (`SameRules` states the exception).

## 4. Proofs

TLAPS proves these for every value of the constants that satisfies the assumptions
named in the modules (payloads, owners, null values; TLC evaluates them in every
run). Sets of orders, calls, products and so on need not be finite, but for what is
counted or summed in `Directory` (`Sell`) and `Quote` (`Product`, `Option`). Every
invariant and action property of every passing run has its theorem.

**`ShiftHeldOrder_proofs`**: `TypeCorrect`, `NoOrderLeftBehind`
(`OpenOrderOnOpenShift`), `OneOpenShift` (`OneOpenShiftPerUser`). The invariant
`OpenOrderOnOpenShift` is not inductive: a step of `CloseCas` needs to know that no
order of the shift became OPEN since `CloseCount`. `IInv` adds `Refs` (a transaction at
a statement has the session and order it works on), `ForUpdateExclusive` (two
transactions never hold FOR UPDATE on one session), `HoldReady` (past `HoldCheck` the
session is OPEN, and stays so under the lock), and `CloseReady` (past `CloseCount` the
session has no OPEN order). The lemmas `ShiftLockStep`, `HoldLockStep` and
`SellLockStep` go through the actions; `LockedStep`, `UnlockedStep` and `DoneStep` say
once what a change of one program counter does to the lock part.

On top of it: `TerminalFrozen` (`TerminalOrderFrozen`) and `SaleSummarised`
(`ConvertedSaleSummarised`). `HInv` says who may still write an order:
the id of an order being created is known to its creator only (`NewOrder`), a claimed
order is as the claim found it and claimed once (`Claimed`), and a conversion works
on the shift of its order (`ConvertsOnShift`). `HInvStep` gives the frozen history
with the invariant. `SInv` adds that the sale of a conversion names a CONVERTED order
and is on its shift, and `CountedAtClose`: between `CloseSummary` and `CloseCas` every
converted sale of the shift is in the derived summary. A conversion cannot disturb it:
its order is OPEN, so `CloseReady` rules out a close past its count on that shift.

**`Checkout_proofs`**: `TypeCorrect`, `StockBalanced` (`StockLedgerBalanced`),
`NeverOversold` (`NoOversell`), `ReceiptsTrue` (`ReceiptsAgree`), `SalesPermanent`
(`SalesImmutable`). When a call commits, the movements fall by its demand
and the stock becomes what it wrote. These agree only if nobody else changed the rows
in between, and if it wrote every row it demands exactly once. `IInv` therefore adds
`LockExclusive` (one writer per stock row), `CallWrites` (a call has written, for
exactly the first `taken` products of its stock order, the committed stock less its
demand, and that is not negative) and `AdjWrites` (likewise for an adjustment).
`RecordInv` is about the other unique row: a call past its insert holds its id alone
and finds no committed sale under it (`IdReady`); a call about to answer with a receipt
finds the recorded sale of its payload (`ReplyReady`).

The last theorem of the module is `LedgerImplemented`, that `Spec` implies `ImplementsLedger`.
`LInv` adds to both invariants that a call has no answer before `Reply` (`Unanswered`).
The initial states map to initial states; `Commit` maps to `Record`, `AdjCommit` to
`Adjust`, and a step that answers a call (`Reply`, a refusal, a loss) to `Answer`; every
other action leaves the mapped variables as they are.

**`AuthV2_proofs`**: `TypeCorrect`, `FailuresCounted` (`CountsEveryFailure`), `LockAtLimit`
(`LockedAtLimit`), `LockStays` (`LockNotMoved`), `SessionByCurrentPin`
(`SessionFromCurrentPin`), `OneActiveToken` (`OneActivePerChain`). The first three hold or
fail together: without the lock at the limit the counter would pass it, and a count
taken from an old row would be neither. `IInv` adds `SnapshotFresh` (a snapshot that is
not stale is the row, and found it unlocked), `Matched` (a login on its way to a session
gave the PIN of the hash it read), `Progressing` (every `Date` was taken in the past)
and `Rows` (no session exists before its request is done, the login of a chain has
opened it, a rotated token is REVOKED). `QuietMove`, `UserStep` and `FinishStep` say
what the three shapes of step keep; the others go through the actions.

**`HeldCheckout_proofs`**: `TypeCorrect`, `ConvertedIsSold` (`ConvertedOrderSold`),
`ConversionAtomic` (`ConversionIsAtomic`), `AnswersTrue` (`AnswersAgree`), and
`HistoryIsFrozen`, that a terminal order and a recorded sale never change. `Locking` says
that one conversion at a time holds an order and that its snapshot is the row from then on
(`Holders`, `Claimed`), that the sale in a snapshot is there for good (`Viewed`), and that
an uncommitted row is alone under its id (`Inserters`). `History` says that the sale of a
conversion is the one its order is linked to (`SaleOfOrder`), and that who is about to be
told of a sale finds it, the fresh answer being given once (`Answered`). The snapshot of a
Serializable attempt may be old; that the claim compares status and version with it is what
makes it the row.

**`SyncBatch_proofs`**: `TypeCorrect`, `ResultsTrue` (`ResultsAreTrue`), `ResendIsConfirmed`
(`ResendConfirms`). A sale is never replaced, so what is recorded stays so. `Confirming`
adds that a batch which was complete when it came never gets to the checks of a new sale,
`Replying` that what is to be confirmed is recorded, and `SalesBrought` that every sale came
in a valid batch. From the same invariant `LedgerImplemented` (`ImplementsLedger`): a `Write`
that sells maps to `Record`, a step that gives a record its result to `Answer`, all other
steps to a stutter; `Replying` is what makes the receipt of an `Answer` true.
`LedgerAssumption` keeps the `NoSale` of the ledger apart from its sales.

**`ProductModifiers_proofs`**: `TypeCorrect`, `ReplacedGone` (`ReplacedIsGone`), `RefusedLeft`
(`RefusedLeavesNothing`), `KeptStays` (`KeptGroupStays`), for any groups and any requests.
`ReplacedIsGone` is not inductive: a COMMIT deletes what its DELETE found, and an update may
have moved a row since the snapshot. `OpenReady` says that until its COMMIT a replacement
still has in `cut` whatever became of the rows that it saw, and that no row that stays has a
group it inserts; `OpenApart` that two replacements neither delete the same row nor insert
the same group. `RowsSettled` and `SeenSettled` say that rows, and rows in a snapshot, are of
requests that have committed, so no snapshot has a row that is still to be inserted.
`PutRows` says that what is inserted is a prefix of what is wanted: at COMMIT, all of it.
`QuietStep` goes through the steps that write nothing, and there is a lemma for each that does.

**`Directory_proofs`**: `TypeCorrect`, `ReferencesStay` (`ReferencesHold`),
`HistoryIsConsistent` (`HistoryAddsUp`), `WalkIsComplete` (`WalkMissesNothing`),
`PastDayIsFixed` (`PastDayFixed`). `References` adds the customer of a sale that is inserted
and not yet committed, which its key share lock keeps. `Histories` says that what was
counted was counted on the snapshot that is listed. `Stamped` puts the time of a sale
between its BEGIN and its COMMIT, so that a day that is over gets only the sales that began
on it. `WalkMissesNothing` is about the end of a walk and needs an invariant about its middle:
`Walks` says of a sale that the walk has not met yet that at least as many sales are ahead
of it, in the order of the list, as the pages so far have rows. New sales only add to
those. The rank of a row in a sorted sequence is the number of rows before it
(`PositionIsRank`, by a bijection of positions and rows), so the next page shows the sale
or leaves it behind one page more; behind the last page nothing is left.

**`Quote_proofs`**: `InvariantHolds`, and from it `AmountsStayInRange` (`StoredInRange`),
`RulesAreTheSame` (`SameRules`), `EstimateIsHonoured` (`EstimateHonoured`), `ReceiptsAddUp`
(`ReceiptAddsUp`), `ReceiptsAreFrozen` (`ReceiptFrozen`), `ReplaysAreExact` (`ReplayExactly`),
`ReportsAgree` (`ReportsReconcile`).

- *Sums.* The induction theorems of the library take a predicate as a parameter, which the
  installed provers cannot instantiate. `NatInduct` says the same of a set of numbers, from
  `WFMin` and `NatLessThanWellFounded`, and `SizeInduct` and `FiniteInduct` of a set of
  subsets of a finite set. From them: the fold behind `SumFunction` exists, is unique, and
  takes its elements in any order (`FoldExists`, `FoldUnique`, `FoldStep`); then a sum is
  additive, monotone, may be scaled, renamed by a bijection, and taken class by class
  (`SumPlus`, `SumMonotone`, `SumScaled`, `SumRenamed`, `SumByClass`).
- *The invariant.* `SaleOK` says that a sale is a snapshot of the request it answered: each
  item has product, quantity, note and options of its line, its subtotal is its price times
  its quantity, the subtotals sum up to that of the sale, and the payment is the tender
  (`PaidOK`). It speaks of no price of today; that is why edits keep it and why it says
  all of a receipt. `EstimateOK` is what an order keeps while `fresh`: it would be held again,
  as it is, for its estimate.
- *Range.* A sale checks its subtotal, tax and total. What it stores besides is bounded by
  those, not checked: the discount and each line by the subtotal, the price of a line by
  the line, and the change by the tender, which the DTO bounds.
- *Rules.* `LineRules` shows the two ways to check a line equivalent, and `RulesAgree` the
  two ways to check a cart.
- *Replay.* `SameBag` compares the numbers of occurrences, `Means` asks for a bijection of the
  lines. `BagsMatch` proves them equal, for sequences of any length: for each key a
  bijection between its positions on either side, and all of them together.
- *Reports.* The sums by sale and by product are the same sum over all items (`SumBySale`,
  `SumByProduct`). With the product of all subtotals as common `Scale`, each share of a
  discount is an integer (`ProductFactors`, `ScaleDivided`), and the shares of a sale add up
  to its net amount (`SharesAddUp`). Rounding one product is off by at most half a `Scale`
  (`RoundedHalf`), all of them by at most half of one for each product (`RoundingsAddUp`).

**Only model-checked.** The four liveness properties `CloseAnswered`, `EveryCallEnds`,
`EveryConversionEnds` and `EveryRequestEnds`: liveness under fairness, and ENABLED, are out of
the prover's reach. The four properties of the findings are false.

## 5. Not modelled

- Outlets and receipt settings: reads, and one upsert of a row that only the printing
  client reads. Bootstrap and seed: scripts that run alone on an empty database.
- The HTTP layer: guards, DTO validation, the wording of errors; requests of the models
  are those that pass. Authorisation by role and outlet, but for what sync and discounts do.
- The connection pool and its five connections; overflow of the `int4` stock column,
  which the database turns into a rollback.
- Password login, `resolve-store` and `me`, which only read; the signature and expiry of
  access tokens; `is_active` of users and device sessions, which no code writes.
- Products: the unique sku, `minimum_stock`, edits of `track_stock`. Modifier groups
  and options: their unique names, and their creation, which nothing refers to yet.
- Reports: who may read which outlet, LIMIT, and the average. Lists other than that of
  the transactions.
- The sum of the sales of a shift that leaves the safe range while each sale is in it: it
  needs both the shifts and numbers of more than 32 bits.

## 6. What could come next

1. Edits of `track_stock` between two attempts of a checkout, as a variable of `Checkout`
   in place of `Tracked`; its proofs then need the set that an attempt has read.
2. An abstract order ledger, with one step for a conversion, that `HeldCheckout` implements.
3. The summary of a close as a number, in a composition of `ShiftHeldOrder` and `Quote`.
