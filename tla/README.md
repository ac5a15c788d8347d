# TLA+ models of the xTuple database and its clients

The repository is an ERP system: a PostgreSQL database whose business logic is
stored procedures (`foundation-database/public`), an object-relational layer in
JavaScript inside the database (`lib/orm`), a browser client (`lib/backbone-x`,
`lib/enyo-x`, `enyo-client`) and a Node server between them
(`node-datasource`). This directory holds TLA+ models of the parts whose
correctness depends on the order in which many users call them, the TLC runs
that check small instances, and TLAPS proofs for every instance.

## Inventory of the system

| Component | State | Operations | Calls / is called by | Hard behaviour |
|---|---|---|---|---|
| General ledger (`insertGLTransaction`, `postGLSeries`, `postJournals`, `closeAccountingPeriod`, ...) | `gltrans`, `sltrans`, `glseries`, `trialbal`, `period`, `yearperiod` | entries, series, journals, delete, reverse; create, close, open, freeze, thaw, delete periods; close and open years | called by every document that posts: inventory, receivables, payables, orders | postings that wait for a period, late postings after a close, retained earnings of closed years, periods created out of order |
| Document numbers (`fetchNextNumber`, `releaseNumber`, `clearNumberIssue`) | `orderseq` (counter, issued numbers) | fetch, save, release, sweep stale numbers | called by document forms and table triggers | overlapping forms, unlocked read then write, stale numbers |
| Record locks and versions (`tryLock`, `renewLock`, `releaseLock`, `updateRecord`) | `xt.lock`, `xt.ver`; in the client the lock key and its renewal interval | obtain, renew, release, save | client models call the ORM through the Node server | expiry, late answers, lost browsers, check then update |
| Client model and workspace (`XM.Model`, `XM.Document`, `XV.WorkspaceContainer`) | status, attributes, cache of clean attributes, lock, requests under way, the question on screen | open, edit, save, apply, refresh, leave, close, fetch and give back a number | the ORM for records, locks and numbers | answers late or out of order, refusals, hot keys, locks and numbers left behind |
| Receivables (`postCashReceipt`, `reverseCashReceipt`, `postARCreditMemoApplication`, ...) | `aropen`, `arapply`, `cashrcpt`, `cashrcptitem`, `arcreditapply` | enter, apply, post, reverse, take back, delete | ledger | amounts pending in several places, reversal of what has moved on, unlocked reads |
| Fulfilment (`issueToShipping`, `returnShipmentTransaction`, `shipShipment`, `recallShipment`) | `shiphead`, `shipitem`, `coitem` | issue, return, ship, recall, close and cancel lines, reserve | inventory, invoices | two-phase posting, reservations, shipments that come and go |
| Inventory (`postInvTrans`, `postItemLocSeries`, `postInvHist`, count tags, `thawItemSite`) | `invhist`, `itemsite`, `itemlocdist`, `itemlocpost`, `invcnt` | make a transaction, post a series, freeze, count, thaw | ledger; called by shipping, receiving, production | history that waits, frozen sites |
| Payables (`postVoucher`, `postCheck`) | `apopen`, `apapply`, `checkhead` | post, apply, void | ledger | as receivables |
| Purchasing, manufacturing | `pohead`, `recv`, `wo`, `womatl` | receive, release, explode, post, close | inventory | long legal sequences |
| Node server | sessions, OAuth2 tokens | requests | ORM | overlapping requests |

What makes each correct:

- *Ledger*: each sequence balances; trial balance movements are the posted
  transactions; balances carry from period to period; closed periods do not
  change; a closed year's result is in the equity account.
- *Numbers*: one holder per number, none that a document already has, no number
  lost under gapless numbering.
- *Locks*: one valid lock per record, no save past another's lock, no
  overwritten change, locks that end.
- *Client*: what a clean form shows is a version of the record; a change is
  saved once and never dropped unasked; a spinner ends; no lock or number is
  left behind.
- *Receivables*: what a document was paid is what was applied to it, never more
  than it comes to; it is open as long as it is owed; a receipt's cash comes in
  once; the customer's balance moves only by what is billed and received.
- *Shipping and stock*: stock only moves between the site, the shipping area and
  the customers; no history is left unposted; no shipment is empty or missing.

## Modules

| Module | Models | Uses |
|---|---|---|
| `GeneralLedger` | the ledger | |
| `MCGeneralLedger` | TLC instances: accounts, calendars, entry pairs | `GeneralLedger` |
| `GeneralLedgerProofs` | proofs about posted transactions, closed periods, the order of closing, and the books: types, tally, double entry | `GeneralLedger`, `Sums` |
| `GeneralLedgerChains` | proofs that the balances of closed periods stay, that balances are carried without a break, that the results of closed years stay credited, and what a trial balance adds up to | `GeneralLedgerProofs` |
| `NumberIssue` | document numbers | |
| `NumberIssueProofs` | proofs about numbers | `NumberIssue` |
| `RecordLock` | locks and versions, server and client | |
| `MCRecordLock` | TLC instances: who has which form | `RecordLock` |
| `RecordLockProofs` | proofs about locks, keys and versions | `RecordLock` |
| `ModelStatus` | a client model, its workspace, and the server's answers | |
| `ModelStatusProofs` | proofs about spinners, and about what form, record, locks and number say of each other | `ModelStatus`, `Sums` |
| `CustomerAccount` | abstract: the balance of a customer | |
| `Receivables` | open items, receipts, credit memos; implements `CustomerAccount` | `CustomerAccount` |
| `ReceivablesProofs` | proofs about open items, applications and cash, and the account they implement | `Receivables`, `Sums` |
| `StockAccount` | abstract: stock that only moves | |
| `Shipping` | an order's lines, shipments, reservations, counts; implements `StockAccount` | `StockAccount` |
| `MCShipping` | TLC instances: what the lines ask for, symmetry | `Shipping` |
| `ShippingProofs` | proofs about shipments and history, and the stock they implement | `Shipping`, `Sums` |
| `Sums` | lemmas: sums over finite sets, and finite sets by induction | |

The `.cfg` files of `NumberIssue`, `ModelStatus` and `Receivables` instantiate
the module itself. In every module a name of the code is the name of the
definition where TLA+ allows it. A definition marked `(mutant)` is not part of
the model: it is what a plausible slip in the code would make of the next one.

### GeneralLedger

One action per stored procedure, one procedure per transaction; the names are
the procedures'. The procedures call each other, so they are operators from a
record of all tables (`DB`) to such a record, and an action commits the result
(`Commit`) unless a trigger raised. An early return or a RAISE is a guard: the
action is not enabled when the procedure would change nothing.

- Dates are period slots `1..NSlots`. Slot s stands for all dates of one period,
  whether the period has been created or not, and slots are adjacent. The
  procedures use dates only to find periods and years.
- `trialbal` maps <<account, slot>> to a row; `Write` applies the row trigger of
  `trialbal.sql`. `Start`, `Visit` and `Finish` are the loop of
  `forwardUpdateTrialBalance`, including its early exit when
  `updateRetainedEarnings` fails, which leaves the first row dirty.
- `postIntoTrialBalance` marks each row posted after its forward update has run,
  which matters because that update may recompute retained earnings.
- `itemlocpost` holds the sequences that inventory entered with posting put off;
  `PostItemLocSeries` posts them in a later transaction, `DeleteItemLocSeries`
  (a failed distribution) drops them.
- The amounts of `EntryPairs`, accounts and dates are what other components
  pass; a caller may choose any period, open or not, and the guards of the
  procedure decide.

Abstracted: notes, sources, document and journal numbers, the company segment.
`postJournals` by source selects every journal of the date range. The flag
`gltrans_rec` (bank reconciliation) is set by `postJournals` only.

### NumberIssue

`fetchNextNumber` holds the row of `orderseq` FOR UPDATE and is one action.
`releaseNumber` and `clearNumberIssue` (called by the insert of a document) read
the row without a lock and write it later: a `Start` action reads, an `End`
action writes. With `Overlap = FALSE` nothing runs between the two; with TRUE
anything does. `gapless` is the metric, fixed by `Init` to either value.

### RecordLock

`obtainLock` and `updateRecord` are split in the same way. A lock's time left
counts down with `Tick`; an expired row stays until somebody sweeps it, and a
renewal revives it, as in the code. The client half keeps the lock key, the key
its interval renews, and a refused renewal that has not been answered. `Vanish`
is a browser that goes away, `Procedure` a stored procedure that changes the
record without a lock.

A form has one renewal under way at a time, and obtains a lock after loading and
after saving. `disableLocks` is off and the record's orm is lockable.

### ModelStatus

One document (a model with a user-visible number) of a lockable record and the
workspace that edits it. `RecordLock` has many forms and little of each; here is
one form in full. Its state is the record `form`: the model's status,
attributes, `_cache`, etag, lock and interval, the workspace's question and what
it means to do after a save, and the requests under way. A handler that runs to
its end in one turn of JavaScript's event loop is one operator from a form to a
form (`SetStatus`, `Fetch`, `Commit`, `Released`, ...); what it sends it adds to
`requests`.

A request is answered in two steps: `Serve` (the server acts, or refuses) and
`Receive` (the answer arrives and its callback runs). Requests are a set, so
answers overtake each other. `Failed` is the generic error path of
`model_mixin.js`; `_reentrantLockHelper` replaces the caller's error callback by
its own, which only triggers an event, and so does the model.

Contents are sets of change numbers: one made by the user (`Edit`), by somebody
else (`ChangeElsewhere`) or by the database while saving. `stored` lists the
contents of the record's versions, and an etag is an index into it.

`Hasty = FALSE` is a user who acts when no request is under way; with TRUE he
uses hot keys and the keyboard whenever, and buttons unless they are disabled.
`LockErrors` lets requests for locks be refused.

### Receivables and CustomerAccount

Receivables of one customer: invoices and credit memos are issued by hand, cash
receipts are entered, applied (`applyCashReceiptToBalance`,
`applyCashReceiptLineBalance`, or by hand through `api.cashreceiptapply`), posted
(with what is left over becoming a credit memo, now or on a later date),
reversed, deleted; credit memos are applied and the applications posted; posted
applications are taken back. Each is one action, but for posting and reversing,
which read the documents and write them in later statements (`Start`, `End`).
The triggers of `aropen` and `cashrcptitem` are in `Valid`, `Paid` and
`SetItems`; a call they stop has no effect.

`arapply` is a bag of applications. `cash` is history: what a receipt has
brought in. `Overdrawn` lets a receipt be applied to a document of which others
take more than the balance.

`CustomerAccount` is the promise: a balance moved only by bills, credits and
receipts, each once. `Receivables!Account` maps the open balances, the history
of what was issued and the receipts' flags to it. Applying, posting an
application and taking one back are its stuttering steps.

### Shipping and StockAccount

The lines of one sales order for a stocked item of one site. A procedure is one
transaction and one action; posting a series is another transaction, as the
callers do it (`test/database/functions/issuetoshipping.js`:
issue, distribute, post). `unposted` holds the sum of the history of each series
that nobody has posted, `waiting` the sum of what a posting has passed over
because the site was frozen, `todo` the series a caller has been told to post.
`StockSuffices` and `ReturnsPass` are the reservation check of `postInvTrans`,
made for each line of a call in whatever order the database goes through them.

Assumed: standard cost, one unit of measure, `EnableSOReservations` on and
`RequireSOReservations` off, no holds, kits, job items, lots or locations,
nothing billed, `coitem_qtyreturned` 0. `Reserve` stands for the client that
reserves stock (no code of this repository does). A line may be issued beyond
what was ordered; the code has no check.

`StockAccount` is the promise: stock moves between the site, the shipping area
and the customers, and only counts add or remove any. `Shipping!Account` maps
quantity on hand together with the history still to be posted to the stock of
the site.


## Runs

Every configuration sets `CHECK_DEADLOCK FALSE`: users may stop, and the bounds
end every behaviour.

| Run | Checks | Instance |
|---|---|---|
| `GLYearEnd` | `TypeOK`, `CleanChain`, `TrialBalances`, `RetainedEarningsCurrent`, `ClosedInOrder`, `ClosedRowsFixed` | 3 accounts, 3 periods in 2 years, 2 sequences, 4 ledger rows; periods created in date order (`Orderly`) |
| `GLSeries` | `Tally`, `SequencesBalance` | series rows of 1 and -1 on cash and -1 on equity (`SeriesRows`), 2 at a time, 2 sequences, 2 periods |
| `GLJournals` | `PostedInPeriod`, `ClosedPostingsFixed`, `JournalsOnce` | subledger on, 3 sequences, 4 ledger rows, 2 periods, one of them freezable |
| `GLCreateWaiting` | violates `CleanChain` | periods created in any order |
| `NumberIssue` | `TypeOK`, `DistinctHolders`, `HeldUnused`, `NoGap` | 3 forms, 4 numbers, 1 day, interval 1, calls one at a time |
| `RecordLock` | `TypeOK`, `ExclusiveLock`, `LockedIsCurrent`, `LocksEnd` | 3 forms of 2 users, 2 locks, 2 changes, lifetime 2, transactions one at a time |
| `LockLate` | violates `KeyKnown` | 2 forms of 2 users, 3 locks |
| `ModelStatus` | `TypeOK`, `BusyWaits`, `ShowsVersion`, `SavedOnce`, `NoLostLock`, `NumberReturned`, `ChangesKept`, `BusyEnds`, `CloseEnds` | one form, 3 changes, one request under way at a time, a user who waits for answers |
| `Receivables` | `TypeOK`, `PaidIsApplied`, `OpenIfOwed`, `CashOnce`, `AccountKept` | 2 documents issued, 2 more from left-over credit, 2 receipts of 2, one of them dated later, 1 session |
| `ReceiptOverdrawn` | violates `PaidIsApplied` | the same, receipts may be applied to overdrawn documents |
| `Shipping` | `TypeOK`, `NothingForgotten`, `StockKept` | 2 lines wanting 1 each, stock 2, 2 series, 2 shipments, 2 items at a time, counts of 1, freezing; lines and series symmetric |
| `ShipReserved` | violates `ReservedOnHand` | 2 lines wanting 2 each, stock 3, a reservation of 2; no counts, no freezing |

Why the bounds suffice.

- *Ledger*: two sequences and four rows are one entry and its reversal or
  deletion, or two entries in different periods. Three periods over two years
  contain a close, a carry inside a year, a carry across a closed year and
  retained earnings; one revenue account, one asset and the equity account are
  the three kinds the code distinguishes. In `GLSeries` equity is also the
  discrepancy account, so a series with a difference meets a row of its own
  account.
- *Numbers and locks*: four numbers let three forms hold one each with one left
  to skip. Two locks let one be lost and replaced; three forms let two belong to
  one user.
- *Client*: the user's own change, somebody else's and the database's are three
  changes; a record can be saved, found outdated, fetched again and saved.
- *Receivables*: two documents of 2 with two receipts of 2 let a receipt pay one
  document, two in part, or leave credit, which becomes a document and is
  applied again; reversals and take-backs of each follow.
- *Shipping*: stock 2 with two lines allows issues beyond what was ordered, a
  shipment that is shipped while the other line opens a second one, and a count
  made while unposted history waits in either series.

Larger bounds repeat these cases. What a run needs assumed is a constant of its
configuration:

| Hypothesis | Runs | Without it |
|---|---|---|
| `Orderly`: periods created in date order, in open years, nothing waiting | `GLYearEnd` | `GLCreateWaiting`; observation 1 |
| `Overlap = FALSE`: of two calls one reads and writes before the other | `NumberIssue`, `RecordLock`, `Receivables` | observations 2, 4, 9 |
| `LastDay <= Interval`: no number goes stale | `NumberIssue` | observation 3 |
| `Hasty = FALSE`: the user waits for answers | `ModelStatus` | observation 6 |
| `LockErrors = FALSE`: no request for a lock fails | `ModelStatus` | observation 7 |
| `Overdrawn = FALSE`: no receipt is applied to an overdrawn document | `Receivables` | `ReceiptOverdrawn` |
| `OwnSeries = TRUE`: callers of `issueAllBalanceToShipping` pass a series | `Shipping` | observation 12 |

### Liveness and fairness

- `RecordLock`: `FairSpec` assumes WF(Tick) only: time passes. Nothing is assumed
  of users, browsers or renewals. `LocksEnd` says that a record becomes free to
  lock once its forms are closed or gone, unless an interval still renews a lock
  whose key its form has forgotten. `KeyForgottenLate`, which is proved, narrows
  that exception to one cause: the refusal of a key already replaced.
- `ModelStatus`: `Spec` assumes that of the requests sent some one is served, and
  of the answers given some one arrives, as long as there are any (two WF). This
  is what a server that does not hang and a socket that does not stall provide:
  client requests have no timeout of their own. The user need do nothing.
  `BusyEnds` (a spinner ends) and `CloseEnds` (a workspace that waits for its
  lock's release before it closes does close) hold under it.
- The stored procedures run to their end or raise; no liveness is stated of them.

### Findings

1. `createAccountingPeriod` posts waiting transactions before it carries balances
   forward, so an account with a waiting transaction starts the period from zero
   (`GLCreateWaiting`).
2. A late answer to the renewal of a replaced key makes the form forget its new
   key, and the lock outlives the form (`LockLate`).
3. A receipt line applied to an overdrawn document becomes negative; posting adds
   its size to what the document was paid and records it with its sign
   (`ReceiptOverdrawn`).
4. Two lines issued before their series is posted are checked against the same
   quantity on hand, and posting takes it below what is reserved
   (`ShipReserved`).

### Observations

Behaviour met while modelling that has no run of its own. Where a constant is
named, setting it so in the configuration shows the behaviour.

1. The trial balance trigger (`trialbal.sql:25-30`) lets an update pass in a closed
   period when the new beginning equals the new ending. A period created before a
   closed one therefore rewrites closed rows without movement (`Orderly = FALSE`).
2. `releaseNumber` and `clearNumberIssue` read without a lock and can undo a fetch
   made meanwhile: two forms hold one number (`NumberIssue`, `Overlap = TRUE`).
3. Clearing a stale number moves the counter past released numbers, a gap
   (`LastDay = 3`).
4. The version check of `updateRecord` (`data.sql:712-753`) is not atomic with its
   update: of two overlapping saves both pass the check and the later overwrites the
   earlier. The index on `xt.lock` is not unique (`lock.sql:12`), so overlapping
   `tryLock` calls insert two locks. With `Overlap = TRUE`, `ExclusiveLock` and
   `LockedIsCurrent` fail.
5. A change typed under the spinner ends in `READY_CLEAN`, though
   `model_mixin.js:1832` says otherwise; `SavedOnce` and `ChangesKept` speak of
   the attributes and not of the status for that reason.
6. With hot keys and the keyboard used while two requests are under way (`Hasty =
   TRUE`, `MaxRequests = 2`), `ShowsVersion`, `SavedOnce`, `NoLostLock`,
   `NumberReturned` and `ChangesKept` fail. `BusyWaits` holds, and is proved
   for that case too.
7. `_reentrantLockHelper` (`model_mixin.js:924-945`) replaces the caller's error
   callback, so `workspace.js:540-541`, which means to fetch the record although its
   lock was refused by an error, never runs: the spinner waits for nothing
   (`LockErrors = TRUE` violates `BusyWaits` and `BusyEnds`).
8. `applyARCreditMemoToBalance` clamps the amount to apply only where an
   application exists (lines 95-98). A new one (106-113) becomes negative when
   pending applications exceed the balance, and posting the credit memo then takes
   a payment off another document.
9. `postCashReceipt` reads the posted flag without a lock (lines 90-91): two
   sessions post one receipt twice, and lose an update of `aropen_paid`
   (`Receivables`, `Overlap = TRUE` with two sessions).
10. Reversing a receipt posts the user's pending applications of its credit memo;
    after `reverseARApplication` of one of its rows it raises or takes another
    payment's share. Receipts do not count pending credit applications, so a
    receipt may become unpostable (the trigger of `aropen` raises).
11. `deleteCashrcpt` deletes a posted and reversed receipt that has no
    applications where it voids others; `reverseCashReceipt` does not itself check
    that the receipt is posted; a receipt deleted while it is being posted leaves
    its cash without a receipt.
12. The one-argument form of `issueAllBalanceToShipping` passes series 0
    (`issueallbalancetoshipping.sql:5`), each line draws its own
    (`issuetoshipping.sql:60-61`), and only the last is returned: the history of
    the other lines stays unposted (`OwnSeries = FALSE` violates
    `NothingForgotten`).
13. `issueToShipping` never writes `shipitem_invhist_id`. It compares a reservation
    in inventory units with a quantity in the order's unit
    (`issuetoshipping.sql:189`, `tables/coitem.sql:77`); the model assumes one unit.
14. Quantity on hand can go below zero by two issues not yet posted or an issue
    while the site is frozen. Posting a count checks no reservation, and two counts
    posted while the site is frozen apply the difference twice. Returning the items
    of a recalled shipment puts a reservation back on a line closed meanwhile.
    A client lost between issue and posting leaves its history unposted until the
    site is next thawed.
15. `createAccountingPeriod` carries the accounts into the new period in the order of
    `trialbal_accnt_id` (line 97). When the first period of a year is deleted and
    created again after the year before was closed, the result of that year returns
    to the equity account only when a revenue or expense account is carried after
    it: until the equity account has its row, `updateRetainedEarnings` returns -9
    (`updateretainedearnings.sql:69`) and the caller goes on with the next account.
    With the equity account last, `RetainedEarningsCurrent` fails; with the equity
    account before some revenue or expense account, it is proved (`EquityEarly`).

## Proofs

All proofs are for every value of the constants that the named assumptions of the
modules allow (`LedgerAssumption`, `NumberAssumption`, `LockAssumption`,
`ModelAssumption`, `ReceivablesAssumption`, `ShippingAssumption`).

- `GeneralLedgerProofs`: `PostedInPeriod` and `ClosedPostingsFixed`. Neither says
  enough to be preserved: the procedures copy tables through records and build
  new rows from sequences. `IInv` adds that `gltrans` and `glseries` are
  sequences and that `gltrans` rows have their fields. Each procedure is shown
  to keep it, together with the postings of every period that is closed before
  and after (`Preserved`). `Posting` is the central lemma: postIntoTrialBalance
  marks only rows whose period is open, and no balance influences which.
  `ClosedInOrder` follows when periods are created in date order (`Orderly`) and
  those at the start leave no slot out (`FirstOnes`). Closing a period looks only
  at the one just before it, reopening one only at the closed ones; `CalendarInv`
  adds `NoHole`, that no slot before a period is without one, so that the one
  before speaks for all earlier ones and period_initial marks the first slot. Most
  of that proof shows which procedures leave the calendar alone (`SameCalendar`).
- `GeneralLedgerProofs`, the books: `TypeOK`, `Tally` and `SequencesBalance` follow
  from one invariant (`BInv`). That posted rows of a sequence add up to nothing is
  not preserved alone: a posting that takes some of a sequence's rows would break
  it. So the invariant says that all rows of a sequence add up to nothing and have
  the same flags (`Whole`), that those waiting to be posted wait for one period
  (`OnePeriod`), which makes posting take all or none, and that a series still open
  has no ledger row yet (`Fresh`). Inside a procedure that inserts rows of several
  periods and posts them, `OnePeriod` is false for a while; `Linked` is what holds
  there: rows of several periods belong to the sequence about to be posted and all
  their periods take postings. The tally (`Tallied`) has another argument: posting
  a row changes one row of the trial balance by its amount (`PostRow`,
  `UnpostRow`), and everything that carries balances forward, from
  `updateRetainedEarnings` to `closeAccountingPeriod`, is one relation (`Carried`)
  that changes no debit and no credit. Grouped series, summarised journals and
  negated rows keep the sums of what they are made from. A loop over a sequence of
  periods, rows or accounts is a fold. Its lemmas unroll it into the chain of its
  intermediate values (`FoldChain`); a proof shows of the loop's body that it keeps a
  relation and then of every link of the chain. A lemma cannot take the body as a
  parameter, so it takes the loop's name (`TurnOf`).
- `GeneralLedgerChains`, closed periods: `ClosedRowsFixed`, when periods are created
  in date order (`Orderly`, `FirstOnes`). It is not enough to see who writes: a
  forward update from an early period, or the closing of a later one, carries an
  account over closed periods and rewrites their rows. It must be shown that it
  writes what is there. Beside the three invariants above the
  proof needs `ClosedBooks`: there is no balance of a period that does not exist, and
  for every account but the year-end equity account each closed period has a clean
  row, whose ending is its beginning and its movements and is what the next period's
  row begins with (`ChainOf`; a revenue or expense account begins a year with
  nothing). A posting goes into a period after all the closed ones and leaves the
  beginnings up to the first of these alone (`Steady`). A forward update that runs
  over closed periods is followed turn by turn and finds the row it would write
  (`Retrace`). Closing a period adds it to the chain when it comes after all the
  closed ones (`CloseFirst`), or writes what is there when it is closed already, as
  the initial period may be (`CloseAgain`).
  A new period leaves the chain open at its end until each account has been carried
  into it (`GapOf`). The year-end equity account is excepted by the property: the
  update of retained earnings rewrites its later rows whatever is closed.
- `GeneralLedgerChains`, all periods: `CleanChain`, under the same hypotheses. The
  invariant is `WovenBooks`: no period is missing between two others (`Contiguous`),
  every row's ending is its beginning and its movements, and every row restarts
  (`Restarted`: an account's first row, or a revenue or expense account's first of a
  year) or is tied to the one before it (`Joined`), unless that one is dirty. It is
  false halfway through a procedure: writing a row breaks the tie of the next one.
  `Woven(d, open, fresh)` is what holds there: the keys in `open` have still to be
  carried into, those of the periods in `fresh` have not been reached at all. The
  loop of a forward update keeps exactly one key open, the one its next turn writes
  (`Going`, `Ended`, `Tracking`), and the update of retained earnings, a forward
  update of the equity account nested in a turn of another's, opens and closes keys
  of its own (`RetainWeaves`). Closing a period opens the next period's key and
  closes it by writing that row itself (`SettlingWeaves`, `CloseWeaves`). A new
  period is fresh while what waited for it is posted; then its keys wait (`Wanted`)
  until each account has been carried from its last row (`Mending`).
- `GeneralLedgerChains`, closed years: `RetainedEarningsCurrent`, under the same
  hypotheses and `EquityEarly`: the chart has the year-end equity account before some
  revenue or expense account (observation 15 is what happens otherwise). The invariant
  is `EarnedBooks`: the equity account has its row in every closed period, and a
  closed year is credited with its result as soon as the first period of the next
  year exists, and no row but the equity rows of new years is ever credited
  (`YearEnds`). Three things keep it. Retained earnings are written by
  `updateRetainedEarnings` alone, and each year has an equity row of its own
  (`OwnEquityRow`), so no other writing of balances takes a credit away
  (`KeepsCredit`). The result of a closed year stays what it is: it depends only on
  the rows posted in its periods, which are all closed (`LossesStay`), and a posting
  goes into a year still open (`Booked`, `Late`). When the first period of the next
  year is created again, every period there is is closed, so nothing is posted into it
  on the way; every account's last row is then the last period's (`Arrived`), the
  equity account's turn makes its row in the new period, and the turn of a later
  revenue or expense account finds it there and credits the year (`ForwardLoopGives`,
  `CreateGives`).
- `GeneralLedgerChains`, trial balances: `EndingsArePosted` and, from it,
  `TrialBalances` in every state in which each sequence has been posted with one
  period's date (`OneDated`); the hypotheses are those of closed years and the
  invariant is the three above together (`AllBooks`). A row posted up to a period is
  held there by its account or, once its year is over, by the equity account if it is
  of revenue or expense (`Holder`). An account's share of what has been posted
  (`Share`) is its share in the period before (`PassedOn`), the year it takes over
  (`TakenOver`) and what is posted to it in the period (`PostedTo`); beginning, year-end
  credit and movements of its balance are just these (`BeginsWith`, `TakesOver`,
  `MovesBy`), so that by the least period it ends each with its share (`Holds`). That
  an account with a row keeps having one (`Unbroken`), and the equity account one in
  each closed year (`EquityThere`), is what keeps a share from being lost. The shares
  partition what has been posted, which is the sum of the endings; if each sequence
  has one date it is made of whole sequences, which add up to nothing.
- `NumberIssueProofs`: `TypeOK`, `DistinctHolders`, `HeldUnused` and `NoGap` under
  `Calm`: calls do not overlap and no number goes stale. The invariant relates a
  held number to the counter, the list of issued numbers and the documents in
  each numbering mode, and what a call in progress has read to the present row.
- `RecordLockProofs`: `TypeOK`, `ExclusiveLock`, `LocksRespected`, `LockedIsCurrent`
  and `KeyForgottenLate`, without overlap. The invariant is stronger
  than exclusion of valid locks: at most one row is in the table at all (`OneRow`),
  since `tryLock` deletes what it does not respect; otherwise renewing an expired
  row could revive a second lock. `KeyForgottenLate` rests on `LateGone`: a key once
  refused never names a row again, since keys are drawn from a sequence.
  `LockedIsCurrent` says what a lock is for: while it is valid no save of another
  form replaces the version its form has loaded, and when it has run out and a late
  renewal revives it, nobody has saved meanwhile. `renewLock` looks neither at the
  expiry nor at the version; what makes it right is that a granted `tryLock` and a
  save delete expired rows too, so that no row outlives the version it was made for.
  The proof adds that a transaction in progress has read the version that is still
  stored (`EtagCurrent`) and that no key belongs to two forms, even while a save
  still carries one that its form has dropped (`KeysApart`). A stored procedure,
  which changes the record without asking for a lock, is the exception it names.
- `Sums`: what a sum over a finite set does when an element joins, leaves or
  changes, when sets are united or renamed, and when each term is bounded. The sum
  is a fold, which is a recursive function on the subsets of its set. Since the
  library's induction theorems take operators, the lemmas that need induction
  reason from a minimal counterexample instead: a non-empty set of subsets has a
  least one (`LeastSubset`), a non-empty set of numbers a least number. That the
  recursive function exists at all is shown the same way, from functions that
  satisfy the equation on a part of the subsets and agree where they meet.
- `ModelStatusProofs`: `BusyWaits` without errors of lock requests, for a patient
  or hasty user; then, for a patient user, `TypeOK`, `ShowsVersion`, `SavedOnce`,
  `NoLostLock`, `NumberReturned` and `ChangesKept`. The first needs only which kind
  of request is under way. The others need one invariant together (`SoundInv`),
  which says for a form at rest, and for each kind of request it can wait for, what
  its attributes, etag, lock, interval and number are next to the server's: a
  callback is right because the request was sent from a state the invariant
  describes. A patient user is what makes the kinds exclude each other; observation
  6 says what fails otherwise, observation 7 what an error does.
- `ReceivablesProofs`: `TypeOK` (nothing paid beyond its amount) and `OpenIfOwed`,
  with overlapping sessions and overdrawn lines included: they rest on the trigger
  of `aropen` alone, since every procedure's writes pass it. `CashOnce` needs calls
  not to overlap: the receipt a call has read is then still as it was read.
  `PaidIsApplied` and the refinement `AccountKept` need that and no receipt lines on
  overdrawn documents, as `ReceiptOverdrawn` shows. The invariant (`BooksInv`) says
  that documents, applications and receipts refer only to what exists, that a
  document's payments are the sum of its applications, that what is pending on it is
  never more than its balance where a call is about to post it, and what a call in
  progress has still to write.
- `ShippingProofs`: every issued item lies in a shipment that exists and no
  shipment is empty (`ShipmentsHold`); `NothingForgotten` if callers pass a series.
  `SlotFree` shows by cardinality that a new item finds a free place when the bound
  allows one; `HistoryInv` that unposted history always has either a caller to post
  it or a frozen site that will be thawed. `TypeOK`, whose bounds are sums over the
  items, and the refinement `StockKept` rest on `ShippedIsIssued`: what a line counts
  as shipped is what its items say.

Only model-checked, and why:

- `TrialBalances` beyond `OneDated`: it is not true there. It sums the endings of a
  period over all accounts, but a sequence balances as a whole (`SequencesBalance`): a
  series with rows of several dates leaves the trial balances between them out of
  balance, by what `EndingsArePosted` says. The run `GLYearEnd` makes entries of one
  date only. `EndingsArePosted` itself is proved and in no run.
- `JournalsOnce`: the books' invariant (`TypeOK`, `Tally`, `SequencesBalance`) does
  not say what the rows of a sequence are per account, which is the strengthening
  its proof would need.
- `LocksEnd`, `BusyEnds` and `CloseEnds`: liveness under fairness is out of the
  provers' reach.

## Not modelled

- *Ledger*: `changeAccountingPeriodDates` (slots have fixed dates), creation of
  fiscal years, several companies, the array form of `postJournals`. Procedures
  interleaved statement by statement: each is atomic here; the races this hides (a
  posting beside a close, two first rows of one trial balance) are listed as
  hazards.
- *Locks and numbers*: locks of the desktop client, `deleteRecord`, nested records;
  number policies that let users type numbers.
- *Client*: destroying a record, nested models, validation beyond "not empty",
  lists, searches, pickers, layout.
- *Receivables*: discounts, currencies, miscellaneous distributions, customer groups,
  credit cards, deposits.
- *Shipping and inventory*: transfer orders, kits, job items, holds, lots and
  locations, average cost, billing of shipments, other inventory transactions.
- Payables, purchasing, manufacturing, bank reconciliation, the ORM's query
  builder, the Node server: see the plan.
- Reports, build scripts, translations, schema and seed data. The translation
  files (`foundation-database/public/tables/dict/*.ts`) are XML that shares its
  extension with TypeScript and by far outweighs the code in lines; nothing in them
  has state. The logic that is modelled is SQL procedures and client JavaScript.

## Plan

1. `GeneralLedger`, `NumberIssue`, `RecordLock`, `ModelStatus`, `Receivables`,
   `Shipping` with their proofs: done.
2. `LedgerSessions`: two sessions posting and closing statement by statement
   under READ COMMITTED, with `GeneralLedger`'s atomic step as the abstract
   specification.
3. Payables on the pattern of `Receivables`: vouchers, checks and their voids,
   against the same abstract account.
4. Receiving and production on the stock half of `Shipping`.
5. Proofs: types, tally, double entry, closed balances, the chain of balances and
   closed years and trial balances of the ledger, all properties of `ModelStatus`, and
   `PaidIsApplied`, `AccountKept` and `StockKept`: done. Left: liveness, which stays
   with TLC.
6. The Node server's sessions.
