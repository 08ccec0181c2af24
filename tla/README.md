# Formal model of the order sync service

This directory holds TLA+ modules for the order sync service of this repository,
TLC configurations that model-check them, and TLAPS proofs about them. The
service takes confirmed orders, pushes each one on demand to the ERP of its
tenant, and records what the ERP made of it. All of the hard behaviour is in
that push: several requests race for one order, the only lock is a row in a
database, the ERP is reached over a network, and everything may stop between any
two statements.

## The system

| Component | State | Operations | Model |
|---|---|---|---|
| Sync service (`internal/app/service/sync.go`) | locals of a request: the order, the attempt, whether it was claimed | `SyncOrder`, `BatchSyncOrders`, `GetSyncStatus` | `SyncClaim`; batches in `SyncBatch` |
| Sync repository (`internal/app/repository/sync.go`, `repository.go`) | rows of `sync_attempts` and `sync_line_results` | `ClaimAttempt`, `CompleteAttempt`, `GetAttemptByKey`, `GetLatestAttemptByOrderID`, `TransactionWrapper` | `SyncClaim` |
| ERP client (`internal/app/erp`) | locals of a dispatch: responses so far, number of the attempt | `Dispatch`, `send`, `attempt`, `backoff` | `SyncFlow`; its times in `DispatchTime` |
| Tenant mappers (`internal/app/tenant`) | none | `PreValidate`, `Build`, `Interpret` for ERP A (Alpha) and ERP B (Beta) | `Mapping`, `SyncFlow`; checks and amounts in `Intake` |
| Registry (`tenant/registry.go`) | a map built at startup | `Get` | constants of `SyncFlow` and `Intake` |
| Mock ERPs (`internal/mockerp`) | A: the keys it has seen | `handleAlpha`, `handleBeta` | `SyncFlow` |
| Handlers, router, server | none | routing, answers, shutdown | arrival, answer, hang-up and crash in `SyncClaim` |
| Order intake (`handler/order.go`, `payload/order.request.go`, `service/order.go`, `repository/order.go`) | rows of `orders`, `order_items` | `CreateOrder`, and the `SELECT`s of `loadOrder` | `Intake` |
| Batch payloads (`payload/sync.request.go`, `sync.response.go`) | none | limits, `SyncResultFromError` | `SyncBatch` |
| Money (`pkg/money`) | none | `ParseDecimal`, `Mul`, `ApplyDiscount`, `Percent`, rounding | `Money` |
| Message catalogue, configuration, migrations, wiring | none | wording, startup | left out |

How they interact: `POST /orders` checks an order and inserts it with its lines in
one transaction; nothing changes it afterwards. To sync it, a handler calls the service with the context of its HTTP
request. The service loads the order, asks the mapper to pre-validate it, and
calls `ClaimAttempt`. That is up to four SQL statements in autocommit mode: an
`INSERT ... ON CONFLICT DO NOTHING`, a conditional `UPDATE` if it hit a row, and
two `SELECT`s. Whoever changed a row is the owner: it builds requests, hands
them to the ERP client, has the mapper interpret the responses, and writes the
result with `CompleteAttempt`, one transaction. Everybody else replays a
terminal result or answers 409. Handlers run concurrently, possibly in several
processes; they share nothing but the database and the ERPs.

### What is hard about it, and what makes it correct

* **Interleavings.** Any number of requests are between any two statements. One
  order must be pushed by one request at a time (`OneDispatcher`), a recorded
  result must mean that nobody is pushing (`SettledIsQuiet`), and what a caller
  is told must be what is stored although row and lines are read separately
  (`SyncedAnswerStands`).
* **Cut-off requests.** Processes die, clients hang up (which cancels the
  statements to come, the one that records the result included), statements
  fail, a commit may succeed unheard. A row must not be left `PENDING` except by
  such a fault (`PendingHasOwner`), and then must not stay so
  (`NoOrderBlockedForever`).
* **Finality.** `SYNCED` is the idempotency guarantee (`SyncedSticks`,
  `SyncedIsFinal`).
* **The network.** An answer may be lost after the ERP booked the request, a
  request may arrive after the client gave it up. What is stored has to agree
  with the ERP's books all the same (`SyncedMeansBooked`, `AcceptedMeansBooked`,
  `PartialIsPartial`), and ERP A must book a line once (`AlphaBookedOnce`).
* **Convergence.** Clicking again has to work in the end (`SyncedInTheEnd`).
* **Lists.** A batch is a long request over many orders, possibly the same one
  twice. Its list must be complete, true when it is sent although other requests
  go on meanwhile (`BatchSyncedStands`, `SyncedOnceInBatch`), and no order in it may
  hold back the others (`NoOrderHeldBack`). A result that is told, to a
  status reader or in a list, must be one the database had (`ToldWasRecorded`); what a
  list says of an order that ended with an error is no result.
* **Confirmations.** Orders are inserted line by line while others read them or
  confirm them again, differently; what a sync reads and sends must be one whole
  confirmation, at the price its order taker was quoted (`WholeConfirmation`,
  `LoadsWhole`, `CreatedStands`, `StoredForGood`, `QuotedIsSent`,
  `PricedAsConfirmed`).

`PROJECT.json` lists each hazard at its line, with the properties aimed at it.

## The modules

| Module | What it is |
|---|---|
| `SyncClaim` | the claim protocol: requests, statements, faults, time; a dispatch is one step that picks an outcome |
| `SyncPromise` | what the protocol promises, without rows or requests |
| `SyncBatch` | `SyncClaim` with batches: lists of orders, run one after the other, and their results |
| `Mapping` | the mappers as functions: `Build` and `Interpret` of both tenants |
| `SyncFlow` | `SyncClaim` with its dispatch spelled out: HTTP attempts, mappers, ERPs, the network |
| `DispatchTime` | how long a dispatch takes, against the age at which its claim may be taken over |
| `Int64` | integers that wrap around at a width of `Half`, for `Money` and `DispatchTime` |
| `Money` | amounts in cents: parsing, rounding, discounts, tax, line totals and subtotals |
| `Intake` | `POST /orders` and its transaction, beside syncs that load, check and price the order |
| `OrderStore` | what intake promises, without statements, locks or transactions: a store of one value per order, for good |
| `MCSyncClaim`, `MCSyncBatch`, `MCSyncFlow`, `MCDispatchTime`, `MCIntake` | the small instances for TLC |
| `SyncClaimProofs` | the inductive invariant of `SyncClaim` and the theorems about its safety properties |
| `SyncClaimRefinement` | the proof that `SyncClaim` implements `SyncPromise` |
| `MappingProofs` | lemmas about the mappers: chunks cover an order, `Interpret` claims what the responses say |
| `SyncFlowProofs` | the proof that `SyncFlow` implements `SyncClaim`, and that its records agree with the ERPs' books |
| `SyncBatchProofs` | the proof that `SyncBatch` implements `SyncClaim`, and what its lists and answers say |
| `MoneyProofs` | rounding is to the nearest, line totals and subtotals are the documented ones; induction over lists of amounts |
| `IntakeProofs` | orders are whole, loads read whole orders, answers stand, what is quoted is sent; the proof that `Intake` implements `OrderStore` |
| `DispatchTimeProofs` | the bound on the time of a dispatch, when its claim outlasts it, and when its back-off cannot panic |

### `SyncClaim`

One order has one idempotency key and so one row of `sync_attempts`, created by
the first claim and never deleted.

| Variable | Stands for |
|---|---|
| `row` | `status`, the codes (`note`), and whether `updated_at` is two minutes old (`stale`); status `NONE` is no row |
| `lines` | the order's `sync_line_results` |
| `pc`, `order`, `role`, `att` | a request: its next statement, its order, what `ClaimAttempt` told it, its `attempt` variable |
| `reply` | how the request was answered; `att` then holds the attempt it answered with |
| `gone` | requests whose context is cancelled |
| `unsendable` | orders `PreValidate` refuses |
| `faults` | faults so far, at most `MaxFaults` |
| `overrun`, `abandoned` | ghosts that no action reads: orders whose live claim was taken over for its age, orders whose last claim ended without a result |

Actions follow the code statement by statement: `Click`, `Refuse`/`Admit`
(load, resolve, pre-validate), `InsertClaim`/`InsertConflict`,
`Reclaim`/`ReclaimLost`, `ReadRow`, `ReadLines` (with the decision to dispatch,
replay or answer 409), `Dispatch`, `Complete`. `CheckStatus` is the status
endpoint, which runs the same two `SELECT`s. Faults:
`DatabaseError` at any statement, `CompleteUnheard` (committed, but the caller
gets an error), `CompleteRolledBack` (line rows with a SKU twice break
`UNIQUE (sync_attempt_id, sku)`), `Disconnect` and then `Abort`, `Crash` of any
set of requests. Time: `Age` of a claim, `Expire` of an order.

A cancelled request always ends in `Abort`: during the dispatch `send` returns
the context's error, and `BeginTxx` then fails for the same reason, so the
result is not recorded.

### `SyncPromise`

Each order has a phase: fresh, running, cut off, settled or overtaken. `Begin` may
follow anything but a `SYNCED`, `Settle` gives the running order one outcome, `CutOff`
ends runs without one, `Overtake` is the one thing the code cannot rule out: a run
that outlives its lease while another one begins. The promise lapses for that order
and for no other. `SyncClaim` implements it without any assumption, so the run
`claim_race` and the theorem say exactly how far idempotency goes.

### `SyncBatch`

A batch slot holds the list it was given (`ids`) and its results so far (`answers`).
`Submit` begins the first order; `Collect` takes the answer of `SyncOrder`, an
error turned into a `FAILED` entry by `FromError`, and begins the next one; the steps
in between are those of `SyncClaim` (`RunOrder`). All orders run in the context of
one HTTP request: once the client is gone (`severed`) the current order aborts, and
for the others the first statement, the `SELECT` of `loadOrder`, fails at once
(`CollectSevered`). `Die` is a crash that takes the list with it. The ghost
`recorded` keeps every result an order has had in the database.

### `SyncFlow`

`SyncFlow` extends `SyncClaim` and replaces the step `Dispatch` by the loop of
`erp.Client`. `Heard` is an attempt with a final answer, `Unheard` one that
`retryable` repeats; in an unheard attempt the ERP may have booked the request,
may never get it, or may get it later (`late`, `Deliver`). An attempt that is in
flight when the client hangs up or the process dies is an unheard one followed
by `Disconnect` or `Crash`. `Done` is the loop of `Dispatch`: all chunks sent, or
a transport failure. `Interpreted` is the step `Dispatch(c, outcome)` of
`SyncClaim` with the outcome of the mapper, and every other step of the request
is the action of `SyncClaim` itself with the locals of a dispatch dropped
(`Forget`).

`booked` counts how often the ERP booked each line (2 stands for more). ERP A
dedupes by key and chunk index (`seen`), takes or refuses a chunk as a whole; ERP
B looks at no key, books the lines in stock and answers 207 if some are not.
Stock comes back (`Restock`) and does not run out in the middle of a behaviour.

### `Money` and `Intake`

`Money` gives decimals as integers of thousandths, which is one place more than
`ParseDecimal` keeps, so that every rounding case is there. `Rounded` is `fromRat`; big.Rat
is exact, as the integers of TLA+ are; only `Amount.Mul` and the sum of `Subtotal` are
int64 arithmetic and wrap (`Wrap`). `SumOf` and `Gross` are references, sums that do not
wrap, for the properties.

`Intake` has slots for posts and for loads. A post goes through `Confirm` (Bind, `Validate`,
the registry), `InsertOrder` or `InsertConflict`, one `InsertItem` per line, and `Commit`,
which answers 201 with the subtotal. `writer` is SQLite's write lock, taken by the first
INSERT; a post that waits for it longer than `busy_timeout` fails (`Busy`). `draft` holds the
lines nobody else can see yet. Faults are `Rollback` at any statement (the client's
hang-up included), `CommitUnheard` and `Crash`. A load reads the header (`LoadOrder`) and,
in a statement of its own, the lines (`LoadItems`), then runs `PreValidate` and computes the
amounts of `Build`. `complete` stands for the fields of a request that only have to be
present and well-formed; a reference is of the form ERP B wants, of another form or absent,
a phone number is one, a bare plus sign or absent. `confirmed_at` is recent when an order
is stored.

### `OrderStore`

The abstract specification of intake: a writer puts his whole value in a store or finds one
that was there before him, at one instant; a reader gets the value that is there at one
instant; nothing changes a value. Who is told "failed" knows nothing. `ImplementsStore` maps
both tables to `store`, a post's body and answer to `asked` and `answer`, and the order a load
has read to `seen`. A load that is under way or has failed has seen nothing; its two
`SELECT`s count as one `Read`, at the second, although the header was read before. The
INSERTs of a transaction stutter, and its COMMIT, heard or not, is the one `Create`.

### `DispatchTime`

`SyncClaim` has no durations: a claim may turn two minutes old at any moment, and
the ghost `overrun` records when that happened to a live one. `DispatchTime`
says when it can. It is the loop of `send` and `backoff` for one order: attempts of
up to `Timeout`, waits of `Waits(try, after)` (the shift of a 64-bit duration, the
jitter, the capped `Retry-After`), chunk after chunk, and the write of the result,
which may wait for another writer up to `busy_timeout`. `updated_at` and the
instant it is compared with are cut to whole seconds, so a claim may be taken over
up to a second early; `offset` is where in its second the claim was made. Both the shift of
the back-off and the seconds of a `Retry-After` are int64 products that may wrap.
`JitterRange` is the argument of `rand.Int64N`, which panics unless it is positive: the set of
waits is then empty, and `NeverPanics` says that this does not happen.

## The runs

| Run | Instance | Shows |
|---|---|---|
| `claim_race` | 1 order that may expire, 3 interchangeable requests, results that are complete, partial or cannot be stored, 1 fault | the safety properties and `SyncPromise` under every interleaving of three requests, a crash, a hang-up or a failed statement |
| `batch` | 2 orders, a slot for batches and one for single requests of the first order, which may expire; a batch that names the first order twice and the other last; results of the first order that are partial or complete, or 1 fault; fairness | complete and true lists, answers that were recorded, `SyncPromise` under faults, no order held back |
| `flow_books` | an Alpha order of 3 lines (2 chunks; one line refused until restocked; 1 fault) or a Beta order of 2 lines (both out of stock at first; expiry), 2 requests, 2 HTTP attempts each | stored results agree with the ERPs' books |
| `flow_converges` | the Alpha order, 1 request slot, 1 fault, fairness | `SyncedInTheEnd` |
| `dispatch_time` | the default configuration, an order of 2 chunks, attempts answered at once or timed out, a `Retry-After` of 0, 1 or 20 seconds, or of so many that they wrap | the claim outlasts the dispatch, and its back-off never panics |
| `intake` | 2 posts, 1 load, 2 different bodies for one order, one that overflows and one that is refused for another, 15-bit integers, 1 fault, fairness | whole orders, loads and answers; prices as quoted; `OrderStore` implemented; `StoredInTheEnd` |
| `claim_overrun` | 2 requests, no fault | `SyncedIsFinal` fails |
| `claim_blocked` | an order that expires, 1 fault, fairness | `NoOrderBlockedForever` fails |
| `claim_repeat` | an order with a SKU on two lines, no fault, fairness | `NoOrderBlockedForever` fails |
| `flow_unsent_lines` | an order of 5 lines (3 chunks), 1 request | `PartialCoversOrder` fails |
| `flow_resent` | the Beta order, 1 request | `AcceptedNotBookedAgain` fails |
| `intake_unsyncable` | bodies with a phone number and no reference for tenant_beta | `StoredCanSync` fails |

### Bounds and why they are enough

* *Requests.* Two requests show every pairwise race; three let one claim be
  reclaimed while a second request finishes and a third reads. The theorems
  cover any number.
* *Orders.* Orders share nothing but the fault budget and the request slots. One
  is enough for the protocol, two for a batch. `flow_books` has one of each tenant,
  and each behaviour is about one of them (`OneOrderSpec`); its status requests,
  which read what a replay reads, and its hang-ups, which end a dispatch as a crash
  of that one request does, are left to `claim_race`, `batch` and `flow_converges`. At
  most one request of the order travels late at a time, and of the two SKUs that are
  out of stock the one is restocked before the other: ERP B treats lines alike, and
  the books saturate at two, so a second late copy adds nothing.
* *Batches.* The same order twice and another one behind it is the shortest list
  in which an order can be pushed again, be held back, or be cut off in the middle.
  A behaviour of this run (`MCBatchSpec`) has partial results, so that rows with codes
  and lines of an earlier result are reclaimed and read between two dispatches, or a
  fault, but not both; the two meet in `claim_race`, and the theorems have no such limit. Every step it leaves out is a fault
  or the choice of another outcome, so that what must happen can still happen.
* *Confirmations.* Two and three lines make a transaction with several INSERTs and
  an Alpha order of two chunks; the prices are such that rounding by unit, half a
  cent, and a product that leaves 15 bits occur. The width of the integers is a
  constant of `Int64`, and the theorems hold for any.
* *Faults* (`MaxFaults`) bound only faults; retries and reclaims are unbounded. A
  crash ends any set of the requests at once, so one fault reaches every set of
  abandoned claims a run has room for.
* *Lines and chunks.* Three lines are the smallest order with a full chunk and a
  short one; five the smallest that leaves a chunk unsent after one was accepted
  and one given up.
* *HTTP attempts.* Two attempts give a retry after a lost answer, and a last
  attempt.
* *Durations.* Attempts take no time or all of it: what a dispatch has spent is
  largest at the extremes, and the theorem covers every duration in between. The
  unit is a tenth of a second, the width of a duration 16 bits.
* Requests are interchangeable, so the safety runs use `Permutations(Clicks)` as
  their symmetry (`ImplementsPromise` has no fairness and no request in it); the runs
  with fairness use no symmetry.

### Fairness

`RetryingSpec` assumes that a request that runs takes its next step (weak
fairness of `Serve`: a goroutine is scheduled, every SQL statement and HTTP
attempt returns because of `busy_timeout` and `http.Client.Timeout`), that
a `PENDING` row grows old (weak fairness of `Age`), and that somebody clicks each
order again and again (strong fairness of `Click`: a slot is free again and again,
not always). The last is an assumption about the users: nothing in the code
retries an order by itself, and without a click a cut-off order stays `PENDING`.
`RetryingFlowSpec` adds that an ERP asked again and again answers some time (strong
fairness of `Heard` for each chunk) and that shops restock. Faults, expiry, lost
answers and late arrivals are never forced.

`RetryingBatchSpec` (and `MCBatchSpec`, by the same `BatchFairness`) has weak fairness of each slot's steps and of `Age`, and strong
fairness of sending each list, as `RetryingSpec` has of a click; nobody is assumed to click
a single order. `RetryingIntakeSpec` has weak fairness of a post's next statement, and
strong fairness of confirming each acceptable body, the order taker who tries again.

## What is proved

`SyncClaimProofs` proves, for any sets of orders, requests, notes, line details and
outcomes and any `MaxFaults`, that `Spec` implies `TypeOK`, `OneDispatcher`,
`SettledIsQuiet`, `SyncedAnswerStands`, `PendingHasOwner` as invariants and
`SyncedSticks` as an action property. The only assumption is `ClaimAssumption`,
which types the constants.

None of them is inductive. `IInv` adds four facts:

* `RoleOK` ties the statement a request is at to its role: only the owner
  dispatches and completes, and nobody has a role before `ClaimAttempt` decided.
* `OutcomeHeld`: what is about to be written is an outcome.
* `QuietUnlessPending`: an owner's row is `PENDING`, unless the claim was overrun.
  It is why a `FAILED` row may be reclaimed safely: nobody owns it. It is also
  where the two-minute window enters, since `Age` and `Reclaim` are the only steps
  that give a second owner to an order, and they record it in `overrun`.
* `SyncedRowHeld`: between its two `SELECT`s, a reader that saw `SYNCED` still
  has that row in front of it, hence reads the lines that belong to it.

One lemma per conjunct, one step per action. `SettledIsQuiet` follows from
`QuietUnlessPending`; `SyncedSticks` is a fact about single steps (`StickStep`).

`SyncClaimRefinement` proves `Spec => ImplementsPromise`. The abstract phase of
an order is computed from its row, whether a request owns it and whether its claim was
overrun; the abstract result is row and lines once the status is terminal. `LInv` adds to
`IInv` that a settled order holds an outcome. A claim or a reclaim is `Begin`, a commit
(heard or not) is `Settle`, a fault that ends owners is `CutOff`, a reclaim of a live claim
is `Overtake`, and every other step stutters.

`SyncBatchProofs` proves, for lists of any length with any repetitions, any number of
batches and single requests beside each other, that `BatchSpec` implies `Spec` (a batch is a
client of the claim protocol), hence everything above, and `BatchTypeOK`,
`BatchSyncedStands`, `SyncedOnceInBatch` and `ToldWasRecorded`. `Placed` says how far a batch
has come and which order it is at; that an order already answered `SYNCED` is not pushed
again needs that its row is still `SYNCED` (`SyncedSticks`) and that a push begins with a
claim. `Chronicle` carries `ToldWasRecorded` through the two `SELECT`s of a reader: codes
and lines, in the database or half read, are those of results that were recorded.
`ListHeld` is the same of the lists: a result enters a list as the answer of the order just
run, and what was recorded stays so.

`SyncFlowProofs` proves, for orders of any length and any number of attempts, clicks
and faults, from `FlowAssumption`:

* `FlowSpec => Spec`: the detailed flow implements the claim protocol with the same
  variables, so that every theorem above holds of it too. A step is a step of
  `SyncClaim` or leaves its variables alone; what needs an invariant (`SentOK`) is that
  the responses a dispatch ends with are such that `Interpret` yields one of `Outcomes`.
  With `Refinement` it follows that the whole path implements `SyncPromise`
  (`FlowKeepsThePromise`), as batches do (`BatchesKeepThePromise`).
* `FlowSpec` implies `AlphaBookedOnce`, `SyncedMeansBooked`, `AcceptedMeansBooked` and
  `PartialIsPartial`, with no proviso about `overrun`: they hold of two overlapping
  dispatches too. The inductive invariant `FlowInv` follows a line from the ERP to the
  database. `BooksOK`: ERP A has seen a chunk's key exactly if it booked its lines,
  once. `SentHonest`: an "ok" or a 207 among the collected responses tells of lines
  that are booked. `RecordsOK`: what a request holds and what the database records
  claims no line that is not booked, and the status fits the lines. Books only grow
  (`Grown`), which is why a late request or another dispatch disturbs nothing.

* `FlowTypeOK`, for any number of attempts: `try` never exceeds `MaxAttempts`.

The step from responses to outcome is in `MappingProofs`: `AlphaIsTruthful` needs that
the chunks cover the order (`ChunksCover`), that no chunk is empty (`ChunksCarry`) and
that a dispatch stops early only at a transport failure; `BetaIsTruthful` holds for
any response.

`MoneyProofs` proves, for integers of any size and any width, that `Rounded` is the nearest
integer with halves away from zero, that a discount or a part of an amount is never larger
than the amount (so the panic of `MulRatio` is unreachable, as its comment says), that a
line total always fits, and that it is the formula of `DECISIONS.md`, rounded once,
whenever price times quantity fits. About an order of any number of lines it proves that
`Subtotal`, which may wrap at every addition, is the exact sum wrapped once at the end
(`SubtotalWrapsOnce`): a sum that leaves 64 bits on the way and comes back is right. Hence it
is the exact sum of correctly priced lines whenever twice the undiscounted order fits
(`SubtotalIsRight`; the factor leaves room for the tax of ERP B as well).

These are inductions over recursive definitions. The induction theorems of the library take
an operator as a parameter, which the provers cannot instantiate, but a set is an ordinary
parameter: `LeastNumber` says that a set of naturals has a least element (from the
well-foundedness of `<`), and `SetInduction` that one which holds 0 and with each number the
next holds them all. `RecursionExists` builds a recursive function on `0..N` in that way, so
that the function a definition like `SumOf` chooses is known to satisfy its equation.

`IntakeProofs` proves `IntakeTypeOK` (every stored line satisfies the CHECK constraints of
the tables), `WholeConfirmation`, `LoadsWhole`, `CreatedStands` and `StoredForGood` for any
bodies, any number of posts and loads and any number of faults. The invariant adds
`PostsOK`: a post that writes holds the lock, its order is not stored, and its draft is the
first lines of its body. That no other post can store the same order in between is the
lock; that nothing changes a stored order is `ON CONFLICT DO NOTHING`. `LoadsOK` says that
between its `SELECT`s a load holds the stored header: since orders never change, the lines
it reads next belong to it, although the two reads share no transaction.

For the prices, `PricingInv` adds three parts, checked with TLC before they were proved:
`QuotesOK`, the quote of a 201 is the subtotal of the lines that are now stored; `LoadsStand`,
what a load has read is what is stored; and `RequestsOK`, the requests of a load are the
amounts of the lines it read. `TheQuoteIsSent` (`QuotedIsSent`) says of both tenants that the
line totals in the requests of a sync add up, in int64, to the quote. It needs that the
requests carry each line once, however they are cut: `ChunksJoin` proves that the chunks of
Alpha and the one request of Beta, put together, are the lines of the order, each once and
in order, for any length; and it needs that the quote, which wraps at every addition, is
their sum wrapped once (`SubtotalWrapsOnce`). `OrdersArePricedRight` (`PricedAsConfirmed`) adds
`SubtotalIsRight` for the header of ERP B. `IntakeIsAStore` proves `ImplementsStore`, one
lemma per action: COMMIT is where a value appears, and `LoadsOK` is why a read in two
`SELECT`s is a read at one instant.

`DispatchTimeProofs` proves `TimeTypeOK` and `TimeSpec => []WithinWorstCase` for every configuration
that `TimeAssumption` admits: a dispatch of n requests and the write of its result
take at most `WorstCase`, n times (`MaxAttempts` timeouts and a wait of up to
one and a half times `BackoffMax` after each but the last), and a write. The
invariant gives each phase its share: all of the chunks before the current one,
and a timeout and a wait for each attempt before the current one. `JitterIsPossible` says
exactly when `backoff` can draw its jitter after every attempt: both back-offs are positive and
`BackoffBase` times two to the `MaxAttempts - 2` fits a duration, because the first shift that
loses a bit comes out negative. Hence `BackoffNeverPanics`: under that condition
(`BackoffFits`), which the defaults meet, no dispatch reaches the panic. `LeaseHolds`
concludes that a claim is never taken over from a running request if `WorstCase`
is a second shorter than `PendingReclaimAfter`. With the defaults (10 s, 4 attempts,
2 s) a request takes at most 49 s, so this holds for every order of tenant_beta and
for Alpha orders of up to four lines; for them no order is ever overtaken, and the
provisos about `overrun` and the phase "overtaken" of the promise fall away. With three
chunks TLC finds a dispatch that outlives its claim: the first of the disagreements
below is within reach of the default configuration.

## What is only model-checked

Liveness stays with TLC: `SyncedInTheEnd`, `BatchAnswers`, `NoOrderHeldBack`,
`StoredInTheEnd`. The provers reason about neither fairness nor ENABLED. Every other property
of a passing run is proved as well, for all values of the constants. The runs that are
expected to fail have no theorem: their counterexamples are TLC's.

The SMT encoding of tlapm 1.4.5 takes `DOMAIN s = 1..n` and `Len(s) = n` to be equivalent for
every function, which is more than the definition of `Len` says of functions that are not
sequences. No proof here depends on the difference: all of them were also checked with
an encoding in which only the first implies the second.

`PartialIsPartial` holds of ERP B because its mock answers 207 only if it refuses a line.

## Where code and documents disagree

Runs marked "fails" above, with the lines quoted in `PROJECT.json`:

1. A dispatch that outlives two minutes overwrites the `SYNCED` of the request
   that took over (`CompleteAttempt` updates by id only). `SyncedSticks`, with its
   proviso about `overrun`, is what does hold.
2. `PreValidate` precedes the claim, so a `PENDING` row of an order that has
   turned 24 hours old can never be reclaimed.
3. A SKU on two lines is accepted by `orders` and refused by
   `sync_line_results`: such an order is sent to the ERP at each click and never
   gets a result.
4. Lines of chunks that were never sent appear in no line result.
5. Syncing a partially accepted order of tenant_beta again re-sends the accepted lines.
6. `CreateOrder` refuses unmapped tenants so that no order is stored that can never be
   synced, but not an order whose mapper refuses its customer: no reference, or one of
   another form, for tenant_beta; a bare plus sign as the phone number for tenant_alpha.

Six smaller ones are visible in the same behaviours and have no run: a click on a
`SYNCED` order older than 24 hours answers 422 and is not replayed (the same cause
as 2; `DECISIONS.md:95`); a 4xx for one chunk does not stop the later ones
(`client.go:32-33` says they never land); "the order has not been sent"
(`i18n.go:39`) is also said of an order whose answer was lost; "Please re-confirm the
order" (`i18n.go:34`) asks for what `CreateOrder` answers with 409; re-sending the chunks of
a partial order "would duplicate the lines" (`tenant/alpha.go:108-109`), but each sync after
`PARTIAL_SUCCESS` does re-send every chunk and none is booked twice, because ERP A knows it by
key and chunk index (`erp_a.go:55-65`; `AlphaBookedOnce`); and `Amount.Mul` wraps,
so that an order whose price times quantity leaves 64 bits is stored and sent with another
total than the formula of `DECISIONS.md:63`.

## Not modelled

* *Wording*: the message catalogue and its placeholders, translation, the mapping of
  errors to HTTP status codes, JSON envelopes, logging, the reasons of refused lines.
  Their codes are in the model where a property tells them apart (`note`).
* *Startup*: configuration, wiring, migrations, seed data, `Register`. They run once,
  before the first request, and keep no state.
* *Columns nobody decides on*: the snapshots kept for audits, `attempt_count`,
  `created_at`.
* *Mock ERPs*: the validation of payloads that the mappers cannot fail and the call
  counters.
* *The write lock between intake and syncs*: `Intake` and `SyncClaim` are not composed. The
  first writes `orders` and `order_items`, the second reads them only before its claim
  (`Admit`), and `StoredForGood` says that what it reads does not change; a lock held too
  long is `DatabaseError` in the one and `Busy` in the other.

What a next step would be: ERP B with a stock that also runs out, and a sync of two
orders whose dispatches share the ERP's capacity.

## Running the checks

    tlasany SyncClaim.tla
    tlc -workers 2 -config SyncClaimRace.cfg MCSyncClaim.tla
    tlapm SyncClaimProofs.tla
    tlapm SyncClaimRefinement.tla
    tlapm SyncFlowProofs.tla
    tlapm IntakeProofs.tla
    tlc -workers 2 -config SyncBatch.cfg MCSyncBatch.tla
    tlc -workers 2 -config Intake.cfg MCIntake.tla

`PROJECT.json` names every run with its module, its configuration and its
properties, the mutations of the code that each property detects, and the source
lines each definition models.
