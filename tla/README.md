# Verification of the investment tracker

This directory holds TLA+ models of `src/src/investment_tracker`, a FastAPI and SQLAlchemy
service (SQLite by default) that records foreign-currency trades, asset purchases and
redemptions, and says what each holding cost in RMB. The models are checked with TLC on small
instances, and the parts that allow it are proved with TLAPS for all values of their constants.

`services.py` below is `src/src/investment_tracker/data/services.py`, `transactions.py` is
`src/src/investment_tracker/api/routes/transactions.py`; the requirements are
`src/.kiro/specs/fx-funding-attribution/requirements.md`.

## 1. Inventory

| Component | State | Operations | What makes it correct |
|---|---|---|---|
| Funding lots (`FundingLotManager`, `LotAllocationEngine`) | `funding_lots`, `lot_consumptions`, `attribution_gaps` | create, list available, consume, allocate, record a gap | money and RMB cost conserved, FIFO, only own earlier priced money pays, shortfalls reported |
| Portfolio events (`PortfolioEventService`) | `portfolio_events`, cash and asset ledgers | create an event and run its funding handler; valuations; assets | one event is one commit; cost passes from lots to assets and back |
| Attribution store and status | `attributions` | record, trace to origin, compute status | COMPLETE means paid for; tracing ends |
| Rebuild (`AttributionRebuildService`, backfill script) | all four derived tables | clear a user's books, replay his events in full or by date | same books as the recording; repairs what edits left |
| History routes | events and derived rows | edit a time, delete, store a historical rate | no orphaned rows, nothing counted twice |
| Transaction ledger (`TransactionRepository`, history routes) | `transactions`, compatibility events, `audit_logs` | create a batch, validate sells, edit, re-rate, delete | never sells more than is held; a batch is all or nothing; both ledgers move together |
| Excel import | the two ledgers | preview, confirm: deduplicate, patch, create, rebuild | sending a file again changes nothing; no half import |
| Maintenance scripts | everything | dedupe, merge assets, backfill | can be run again after a crash |
| Backups | JSON files, six tables | create, restore | a restore gives back what was saved |
| Exchange rates | in-memory cache, `exchange_rates` | query with retries and fallback, store, latest | an estimate never passes for a real rate |
| AI client, skills, orchestrator | conversation, trace | budget, retry, pre-tool pipeline, tool-use loop | every call answered, bounded, errors contained |
| Positions | `positions` | weighted average, replace the snapshot | cost basis follows the trades |
| Performance, audit, positions page | `valuation_snapshots` (the rest is read) | balances, values, gains, breakdowns, diagnostics | what each adds up on its own agrees; nothing is shown twice |
| Text tools, screenshot import, advice, shell, migrations, frontend | none of the books | parsing, wording, wiring | not modelled (section 9) |

**Interaction.** Routes and scripts open a session (`data/db.py`), call a service, and the
service commits. The session does not autoflush and is closed without a commit when anything
raises. Handlers are `async def` with no `await` around database work, so requests of the one
server process do not interleave; command line scripts are other processes on the same file and
SQLite's write lock orders the writers. The transaction ledger, the Excel import and the API all
end in `PortfolioEventService.create_event`, which is why the models start there.

**What is hard.** A failure between two rows of one event; events recorded in another order than
they happened; rounded shares of a cost over a long series of partial consumptions; deletions
and edits that leave other events' rows behind; rebuilding from columns what was recorded from a
request; shared assets of several users; the two commits of an import; retries of what was
already stored; stale cached rates. `PROJECT.json` lists each at its line.

## 2. Plan

In the order in which the modules were written; each builds on the ones before it.

1. `LotOps`, `FundingPool`, `FundingLots`: the lots and FIFO allocation, step by step, with
   failures, and their abstract specification. **Done**, proved.
2. `FundingAttribution`: every event handler, the history routes and the rebuild, as whole
   requests. **Done**; its row invariants and the exactness of a rebuild are proved.
3. `TradeLedger`, `ExcelImport`: the transactions, positions, backups, products, the import with
   its two commits, the maintenance scripts. **Done**, for one process; the average cost, the
   validation of batches and the agreement of the two ledgers are proved.
4. `StoredRates`, `Reports`, `PositionsRoute`: the reports over the books of `FundingAttribution`.
   **Done**; proved, but for the two properties about the cost and the gain of a whole history.
5. `ExchangeRates`, `AgentLoop`: lookups, retries, skills and the tool-use loop. **Done**; their
   safety properties are proved.
6. Left to prove: what section 5 lists as only model-checked.
7. Left to model: two processes on one database (the sale that both validate); amounts below the quantum;
   the ten hops of `trace_to_origin`; the other five tables of a backup; the request formats of
   the AI client.

## 3. Modules and how they correspond to the code

* **`LotOps`**: the arithmetic of one lot. `NewLot` is `create_lot`, `Spendable` and `Precedes`
  are the filter and the order of `get_available_lots`, `BasisShare`, `Consumed` and
  `ConsumptionOf` are `consume_lot`. Amounts are integers in units of the code's `AMOUNT_QUANT`
  and bases integers in units of `BASIS_QUANT`, so that the only rounding left is the
  `ROUND_HALF_UP` of a proportional share, which is modelled exactly.
* **`FundingLots`**: one `create_event` call after another. `lots`, `consumptions`, `gaps` and
  `events` are the session's view of the tables, `db` the committed ones, `job` the local
  variables of the running call. `RecordInflow` and `BeginAllocation` write the event and run
  the handler up to the allocation loop, each `ConsumeLot` is one iteration, `FinishAllocation`
  reports the gap and opens a swap's target lot, `Commit` and `Rollback` end the call; `Rollback`
  may happen between any two of them.
* **`FundingPool`**: what the engine promises: dated money per user and currency that is spent
  oldest first, never before its date. `FundingLots` implements it under the mapping `PoolOf`
  of the committed lots.
* **`FundingAttribution`**: the same operators composed into whole requests on
  `events` (with their ledger entries) and `books` (the four derived tables, as functions from
  primary keys to rows). One operator per handler (`FxBuy`, `FxSell`, `FxSwap`,
  `IncomeOrRedemption`, `ManualAdjustment`, `AssetPurchase`), selected by `Process` as
  `_process_funding_attribution` does; `Create`, `Delete`, `Edit`, `Rerate` and `RebuildRange`
  are the requests. A request that raises changes nothing, hence `~Refused` in its guard. A deleted
  greatest primary key is given out again, as SQLite does without `AUTOINCREMENT`.
* **`Tables`**: a table as a function from primary keys to rows; `NextId` gives out keys as SQLite
  does, `InTimeOrder` is `ORDER BY event_time, id`.
* **`TradeLedger`**: the transaction ledger of one user. `CreateTransactions` is the loop of
  `create_transactions` up to its commit, `CompatEvent` the event each foreign-currency trade implies;
  `Upper` is Python's `upper()`: a code or currency is stored as it was sent, and looked up, and put in the
  event, in upper case;
  `Calculated` is `PositionCalculatorTool`, whose average cost is kept as the fraction `cost / per` so that
  nothing is rounded; `saved` is the newest backup file. The history routes, a bank's
  snapshot that gives a product its own code (`RecordHolding`) and a restore are the other
  actions.
* **`ExcelImport`**: `BuildRow` turns the cells of a row into what is to be stored, `Recognised` is the
  loop that decides which rows the books already have (by 交易ID, as the supplement of a redemption,
  by the whole key), `Store` the rest of an `Import`: transactions first, events after. `stops`
  is a failure between the two commits. `Dedupe` and `MergeAssets` are the two scripts.
* **`StoredRates`**: the `exchange_rates` table and the two ways its readers order it:
  `RateFor` for the reports, `LatestRate` for the positions page.
* **`Reports`**: over the events and books of `FundingAttribution`, with valuation snapshots and
  rates: `Performance` is `PerformanceService.performance` (one record per currency and the
  overview), `RealizedAssets` its list of closed assets, `GenerateAudit` the audit with its
  breakdowns and trail, `Diagnostics` and `AssetRecords` what it points the reader at.
* **`PositionsRoute`**: the positions page, line by line, and `PerformanceCalculator`.
* **`ExchangeRates`**: a lookup is a sequence of steps: one attempt of one provider each, with
  `Raised` deciding what follows; `lookup` is the request with its cache. `Refresh`, `Rerate`
  and `SyncPositions` are the requests, `StoreRates`, `StoreCosts`, `StorePositions` their ends.
* **`AgentLoop`**: `Decide` is one response of the model that calls skills, `RunCall` starts one,
  `ToolRaises` and `ToolReturns` are its pre-tool, `Generated`, `AttemptFails` and `GenerateFails`
  the end of an attempt to generate. `Concluded` is what all of them lead to: an answer to
  the call in the conversation, or the reply to the request.
* **`MC...`**: the instances TLC checks. They name the request bodies, workbooks, snapshots and
  skills: amounts and costs are chosen so that shares are rounded (three units for five cents), a
  purchase needs two lots, two assets share a shortfall, a workbook repeats a 交易ID, and so on.
  `MCAgentLoop` has one skill of each shape that the files under `skills/specs` have.
* **`SumTheorems`**, **`FoldTheorems`**, **`..._proofs`**: section 5.

Definitions marked as mutated forms are plausible bugs; no specification uses them. They show
that each property notices the bug it is for (`mutants` in `PROJECT.json`).

## 4. Runs

| Run | Instance | Shows |
|---|---|---|
| `lots` | 2 users, 2 currencies, 2 dates, 3 events, amounts 1 and 3, basis 5 or unknown | conservation of native money (`AuditTrail`) and RMB (`BasisConserved`), contents and status agree, own earlier funds, acyclic lineage, covered demand, swaps carry cost, FIFO, gaps only when exhausted; the inductive invariant `Inductive` |
| `pool` | 1 user, 2 currencies, 2 dates, 3 events | the committed lots implement `FundingPool`, by the invariant `PoolInv`; jobs end |
| `records` | 1 user, 2 assets, 2 dates, 4 events of 11 bodies | attributions within what was consumed, COMPLETE means funded, RMB cost conserved through purchases and partial redemptions, replay agrees with recording |
| `history` | 2 users, a shared asset, 2 dates, 3 event keys | deletes, edits, re-rates, full and ranged rebuilds: no stray rows, no double spending, rebuild repairs, one owner per request |
| `reports` | 1 user, a dollar fund, dollars and euros, 2 dates, 3 events of 6 bodies, 1 snapshot, 2 rates | the audit's own sums reconcile with the report (`AuditReconciles`), balances are what lots hold (`BalancesBackedByLots`), the overview adds up, the hints name the cause, page and report and calculator agree (`SurfacesAgree`), realized is not held, no cost is shown twice, purchases are not gains |
| `import` | 5 workbooks, 2 trades (a sale of `usd` against euros, a purchase that states a cost beside its rate and is paid in `cny`), a bank's holding, at most 3 transactions, 4 events, 2 products, 2 edits, deletions, restores or merges | average cost between the prices paid, re-import adds nothing, an import completes after an interrupted one, nothing unheld is sold, both ledgers move together, deduplication loses nothing |
| `assistant` | 3 currencies (one that no provider knows), 3 days (the second without a published rate), 2 records and 3 lists of currencies, 2 rounds, skills of every shape, 3 attempts | only confirmed rates are written, positions are priced as shown, every call of the model is answered, every request ends |
| `unreplayable`, `forgotten`, `unfunded`, `repriced`, `reimported` | smallest that shows it | the violations of section 6 |

**Bounds.** `MaxEvents` bounds the event keys of a behaviour and `MaxKey` those of the derived
tables; both appear in guards only. When the bound is reached nothing more can be recorded, which is
the only way a behaviour stops: hence `CHECK_DEADLOCK FALSE`. Three events are the least with two
funding lots and a spender, in every order of two dates, so that FIFO order, a shortfall
in the middle of an allocation, a swap chain and a backdated event all occur; four allow money
to go currency to asset to currency to asset. In `history`, three derived keys of each kind admit
two lots that pay one purchase while another user's rows stand beside them. Requests whose books
would need more keys are not taken. `Symmetry` permutes users (and currencies), which nothing
in these runs orders. What three events cannot reach in `FundingLots` the proofs cover.

In `reports`, three events are a purchase of currency, of the fund, and its redemption, in every
order of two dates, so also oversold; `MaxRates` is 2, so that either of two
currencies, or both, may lack a rate (that two different rates have one date, where page and report may
choose differently, is excluded by `SurfacesAgree` itself), and `MaxValuations` 1, which already lets a snapshot be older or newer than the
entries, empty, or against them. In `import`, `MaxTransactions`, `MaxLedger` and `MaxProducts` hold any two of the
workbooks; `MaxChanges` is 2, so that a row may be deleted (or a product renamed) and the books
restored between two imports; the one time in `EditTimes` is the earlier of the two
that the workbooks date their rows with, so that an edit moves a later row back. In `assistant`, `MaxRetries` is the code's 3; `MaxIterations` is 2 where the code has 8, because a round
leaves nothing behind but its messages, and the proof holds for any bound; `MaxRows` stops
refreshes from adding rates for ever.

**Fairness.** `FairSpec` assumes weak fairness of `ConsumeLot`, `FinishAllocation` and
`Commit` only: they are consecutive statements of one handler. Nothing obliges a user to record
an event, nor a handler to fail. `AgentLoop` assumes weak fairness of `Serving`, the steps of the
request being served: they are synchronous code, or a call that has a timeout (five seconds for
rates, `ai_request_timeout_seconds` for the model), after which the attempt counts as failed. Nothing
obliges the model to stop calling skills, a service to answer, or a user to ask.

## 5. Proofs

Every theorem holds for all values of the constants under the named assumptions of the modules; nothing is
assumed about the sizes of their sets, and no theorem depends on the bounds of a run.

**`SumTheorems`, `FoldTheorems`.** The library's sums and folds are recursive functions over the subsets of a
finite set. What they compute is proved by induction in the form of a smallest counterexample: a non-empty set
of subsets of a finite set has a minimal member (`SmallestSubset`). So a sum can be split, changed in one term,
regrouped (`SumAdd`, `SumChange`, `SumSplit`, `SumByGroup`, ...), `ORDER BY` lists every row once (`Ranked`,
`EventsInOrder`), an `INSERT` or `DELETE` leaves the other rows alone (`InsertRow`, `WithoutRows`), and the
running value of a loop over a list is a sum (`RunningSum`, `PrefixSums`), as is what such a loop picks out of
it (`ChosenSum`). `FoldTheorems` knows nothing of this program: a left fold never leaves a set that every turn
stays in (`Stays`), it has a value after each of its turns (`Turns`), and it ends in the last of a sequence of
sets when each turn leads from one to the next (`Advances`). A proof about a loop takes an instance of it with
the loop's body for `Op`.

**`FundingLots_proofs`.**
Assumptions: those of the constants (`FundingLotsAssumption`: amounts are positive naturals,
bases naturals or `NoBasis`, times naturals; `NoBasisAssumption`; `NoJobAssumption`).

`IInv` is the inductive invariant of the rows. The safety properties are not inductive: that no basis goes
below zero needs each spendable lot to be typed and to hold no more than it was opened with, and
FIFO needs that the list of lots which `allocate` read before its loop is still, at each turn,
exactly the lots that can pay (`JobSound`), although every turn changes one of them and the
event row and failures come in between. So `IInv` is `Sound` of both the session's and the
committed tables (types, trail, status, own funds, lineage) with `JobSound`, which ties a running
job to them and says a rollback is safe. `ShareBound` bounds a rounded share by the whole; `AppendLotSound`
and `ConsumeSound` say what each write does to `Sound`; one lemma per action gives `NextIInv`.

`SumInv` adds what the rows add up to. An event in the middle of its allocation is not covered yet, so the
invariant says what is true there: it is covered by what it took and what is left to take, its cost so far is
the sum of the shares it took, and all other events are settled (`JobSums`). `Inductive` is the conjunction,
which the run `lots` checks. `PoolInv` says which lots a running allocation has emptied: all of a date
before any of a later one, and by exactly what it has drawn. With it a commit is a step of `FundingPool`
(`PoolStep`), and the engine implements that specification (`LotsImplementPool`).

| Theorem | States |
|---|---|
| `Invariance`, `InductiveInvariant` | `Spec => []IInv`, `Spec => []Inductive` |
| `TypeCorrectness` | `Spec => []TypeOK` |
| `NativeMoneyConserved` | `Spec => []AuditTrail` |
| `StatusCorrect` | `Spec => []StatusTellsContents` |
| `OnlyOwnEarlierFunds` | `Spec => []OwnEarlierFunds` |
| `TraceTerminates` | `Spec => []LineageAcyclic` |
| `RmbConserved` | `Spec => []BasisConserved` |
| `NothingHalfFunded` | `Spec => []DemandCovered` |
| `SwapsPassCostOn` | `Spec => []SwapCarriesCost` |
| `FirstInFirstOut` | `Spec => OldestFirst` |
| `NoPrematureGap` | `Spec => GapMeansExhausted` |
| `PoolInvariant` | `Spec => []PoolInv` |
| `LotsImplementPool` | `Spec => ImplementsPool` |

**`FundingAttribution_proofs`.** Assumptions: `FundingAttributionAssumption` (a payload has the columns and
types that the tables and the request schema demand, with any number of cash and asset entries; rates and
times are naturals) and `NoBasisAssumption`. The books are reached by whole requests, each a loop of loops over
entries, lots and rows that earlier requests left behind, under primary keys that are given out again.

The safety properties are proved together: `IInv` is the conjunction of `TypeOK`, `NoStrayRows`,
`NeverSpentTwice` and `AttributedFromConsumed`, because each needs the others. That a draw leaves a lot
non-negative needs its row typed; that a released share belongs to anybody needs that no row strays; that
a key given out again adopts nothing needs that all rows went with the event or lot that had it. `TypeOK`
and `AttributedFromConsumed` are checked by the run `records`, the other two by `history`.

The argument is one set of books, `SoundBooks(before, evs, u, exact, served)`: those that are typed,
without strays and without overspending, with every attribution backed by consumptions, in which every
row of other users is as it was in `before`; while a rebuild replays cleared books (`exact`), user u's
lots account in them for every unit and are dated by their events, and otherwise every event outside
`served` accounts for what it did in `before`. Every write of a handler stays in that set
(`OpenLotSound`, `SpentSound`, `RecordGapSound`, `ReleaseSound`, `AttributeSound`), so every loop does
(`FoldTheorems`), so every handler does (`ProcessSound`), so a whole replay does (`ReplayedSound`). The
requests start in it (`StartSound`, `ClearedSound`), and one lemma per request (`CreateEventKeeps` ...
`RebuildKeeps`) concludes `Kept`: the invariant, and only one user's rows touched. `OneOwnerPerRequest`
and `RebuildRepairs` are its consequences; the second holds in every state, because a rebuild is exact
from any books that satisfy `IInv`.

In the middle of a purchase the consumptions are written and the attributions are not: a draw must be
followed by its attributions exactly once. So `Covered` counts for each event and lot what is attributed
and what the rows still to be attributed will add, and says that together they stay within the
consumptions; a draw adds a row to both sides (`DrawnCovered`), an attribution moves a row from the
second term to the first (`AttributedCovered`), a release and a deletion only shrink the left or take
both sides away (`ShrunkBacked`, `WithoutBacked`). Because each turn of that loop leaves another set of
rows, it needs `Advances`, the theorem about folds whose set changes from turn to turn.

`CompleteMeansFunded` is proved of the histories that are only added to (`CreateSpec`, the specification
of the run `records`); a deletion, which takes consumptions away, breaks it (finding `unfunded`). Its
invariant is `Settled`: what an event accounts for, the money it drew and the shortfalls that its gaps
name an asset for (`Accounted`), is for every confirmed purchase exactly what its assets cost (`Needed`).
A draw moves its amount from what is still due to what is accounted for, so `Due` never changes in
allocate()'s loop (`DrawSound`), and the gap that ends the loop takes the rest (`AllocateSound`); so each
asset of a purchase adds its price (`AssetPurchaseSound`, which follows the running sum of the prices
turn by turn with `Turns`), an event that is not recorded yet accounts for nothing (`NothingAccounted`),
and the events that are not served keep theirs. When an asset is COMPLETE it has no gap, so the gaps that
count are those of the purchase's other assets (`AccountNames`).

| Theorem | States |
|---|---|
| `BooksInvariant` | `Spec => []IInv` |
| `BooksTyped` | `Spec => []TypeOK` |
| `NoRowStrays` | `Spec => []NoStrayRows` |
| `NothingSpentTwice` | `Spec => []NeverSpentTwice` |
| `BoughtFromConsumed` | `Spec => []AttributedFromConsumed` |
| `RebuildIsExact` | `Spec => []RebuildRepairs` |
| `OneOwner` | `Spec => OneOwnerPerRequest` |
| `CompleteIsFunded` | `CreateSpec => []CompleteMeansFunded` |

**`ExcelImport_proofs`.** Assumptions: `TradesAssumption` (a request has the columns of its schema, its
numbers may have any sign), `UpperCaseAssumption` (`upper()` applied twice is `upper()` applied once, and CNY is
in upper case) and `WorkbooksAssumption` (a workbook is a list of rows whose cells are values of
their column or empty, an amount may have any sign). The invariant of the ledger, `LedgerSound`, is that the
stored transactions and those in the newest backup are typed and have a positive quantity, and that the cash
legs of the events are typed: only what passed `_validate_transaction` is stored, whatever the sheet says
(`ForexUsable`, `PreviewRows`: a row that becomes a transaction may still be refused), and a restore brings back
only what was stored once.

The average cost is the fraction `cost / per`. `AverageIsWithinPrices` needs, for a single turn of the
calculation, that a purchase cannot leave the interval of the old average and the new price (`BuyAbove`,
`BuyBelow`) and that a sale of a part scales numerator and denominator alike (`SellFair`), so that the set
`Fair` of the positions whose average lies between two of the prices is never left, in whatever order of dates
the transactions are folded (`AverageTurn`, `CalculatedFair`).

`NothingUnheldIsSold` is the induction along a batch: each row is validated against what the rows before it left
(`ValidCovers`, with the sum `Held` by `HeldInserted`), so no quantity that the check would have found before the
batch has become negative after it (`CreatedRows`); the other requests change no row, or remove one, which
`Adding` excludes. The check counts only rows whose code is in upper case, so this says something of a holding
only where the two ways of counting agree (`HeldIsHolding`): the property is about ledgers in upper case, and
section 6 says what happens in the others.

`LedgersMoveTogether` follows the two ledgers through the same batch. `Drift` is a difference of two sums; when a
trade's row and its event are inserted, both change by the `Moves` of the trade (`CompatBooked`, `RowInserted`,
`EventInserted`, together `InsertKeepsUp`), a stated cost and a currency in lower case included, unless a price
in CNY is multiplied by a rate. What else an import does to the events, patches of a quantity and the events of
its second commit, leaves the cash of FX events alone (`PatchedAlike`, `StoredEvents`), wherever the
import stops.

| Theorem | States |
|---|---|
| `LedgerInvariant` | `Spec => []LedgerSound` |
| `AverageIsWithinPrices` | `Spec => []AverageWithinPrices` |
| `NothingUnheldIsSold` | `Spec => NothingSoldUnheld` |
| `LedgersMoveTogether` | `Spec => LedgerKeepsUp` |

**`Reports_proofs`.** What the reports say of any tables that are typed (`ReportsTyped`), whatever rows
they hold. Both readers of snapshots choose the first of an ordered, filtered list, and `CHOOSE` finds one only
when there is one (`NewestIsMember`, `RankedIsMember`); so a chosen snapshot is of the asset and satisfies the
filter, and an asset that the realized list calls closed has no value and no line (`ClosedUnvalued`,
`RealizedUnheld`). The trail of the audit repeats the row it explains, and its breakdowns range over the same
entries as the row when none is later than the cutoff (`AssetsReconcile`, `AuditExplained`). The overview's FX
gain is a remainder of totals; regrouped by currency (`InvestedInPools`, `PoolsByCurrency`) it is the sum of the
gains of the rows (`OverviewSummed`). The page adds up lines of assets and the report rows of currencies; both are
the sum over the same assets of the same value (`PageAssets`, `ReportTotal`, `SameTotal`), since without ties
both readers of rates find the same row (`OneRate`); `SurfacesAlike` adds the calculator's lines.

**`ReportedBooks_proofs`.** Assumption: `ReportsAssumption` (snapshots and rates have their columns' types) and
those of `FundingAttribution`. `ReportsInv`, the invariant of the books with typed snapshots and rates, carries
the above over to every history. Two results need more than types, because they relate the events to the books
that the handlers made of them, each by its own loop:

* `LedgerBacked`: in each currency, what a user's lots hold less what the gaps report (`Net`) is what the events
  moved (`LedgerSum`), if all legs of the user's events are such that the handler of their type looks at them.
  Opening a lot adds its amount, a draw with its gap takes the amount of the leg, a purchase the price of its
  assets, a release changes no lot; so a handler adds what its event moved (`HandlerNet`, `PurchasePaid`,
  `ProcessNet`) and leaves other users' money alone (`OthersNet`). This holds at every step in whatever order
  events are dated, because a shortfall is part of the account.
* `PurchasesNamed`: each asset that a confirmed purchase bought is named by an attribution or a gap of that
  event, because each turn of the purchase loop names its asset and no later write takes a name away (`DrawNames`
  to `ProcessNames`). So an asset whose status is INCOMPLETE although it was bought has a gap (`GapListed`); it is
  listed beside the status unless it is another user's.

| Theorem | States |
|---|---|
| `ReportsInvariant` | `ReportsSpec => []ReportsInv` |
| `RealizedIsGone` | `ReportsSpec => []RealizedNotHeld` |
| `AuditExplainsReport` | `ReportsSpec => []AuditReconciles` |
| `OverviewIsTheSum` | `ReportsSpec => []OverviewAddsUp` |
| `SurfacesMatch` | `ReportsSpec => []SurfacesAgree` |
| `LedgerFollowed` | `ReportsSpec => [](IInv /\ LedgerBacked(events, books))` |
| `BalancesAreBacked` | `ReportsSpec => []BalancesBackedByLots` |
| `HintsNameTheCause` | `ReportsSpec => []SuggestionsNameTheCause` |

**`Assistant_proofs`.** Of `ExchangeRates`; assumptions: `SeriesAssumption` (the tables of both providers are
finite series of numbers by day: every set of their days has a latest), `RecordsAssumption`,
`ListsAssumption` (a request asks for a list of known currencies). That only confirmed rates are
written (`ConfirmedRates`) needs to be known of every answer on its way: `IInv` says of the running
request that its answers and its cache are honest about the day it asks for, which survives retries
and the change of provider (`RaisedHonest`) because neither touches them. That positions are
priced as shown (`PositionsPricedAsShown`) needs more: `SyncInv` adds that the prices so far belong to
the beginning of the list of currencies taken twice, and that a price which is not the placeholder is
in the cache and is every later price of its currency. `OneMorePrice` is the step.

Of `AgentLoop`; assumptions: those, `CallsAssumption` (a response calls a list of names) and
`NothingAssumption` (no request is also the mark of none). `EveryCallAnswered` compares the last message
with `results` and `pending`; it is inductive only with the shape of the conversation (roles
alternate from the user's first message) and the tie of a running skill to the first pending call, which
`AInv` adds. It holds for any registry of skills, any answers of tools and model, and any number of
rounds.

| Theorem | States |
|---|---|
| `ConfirmedRates` | `RatesSpec => []ConfirmedRatesOnly` |
| `PositionsPricedAsShown` | `RatesSpec => []PricedAsShown` |
| `CallsAnswered` | `Spec => []EveryCallAnswered` (of `AgentLoop`) |

**Only model-checked.** `JobsEnd` and `RequestsEnd` are liveness, and `ENABLED` is out of the prover's
reach. `CostConserved` and `NoCostShownTwice` follow one amount through swaps, purchases
and redemptions, and hold for the payloads of their runs, not for all: where users share an asset, or an event
has two inflows of one currency, the code loses or repeats a cost (section 6). `PurchasesAreNotGains` compares
the report before and after one event and is left to its run. `ReplayAgrees` compares two histories that number
their rows differently and would need an invariant about the order of all earlier events. `ReimportAddsNothing`, `ImportCompletes` and `DedupeLosesNothing` are about matching rows of a
workbook with stored ones over sequences of imports. What a RECURSIVE operator computes cannot be proved at all:
the modules with theorems, and those they use, have none.

## 6. Where the code and its documents disagree

Five runs end in a violation:

* `unreplayable`: `POST .../historical-rate` on a manual adjustment of unknown basis stores a
  rate; the rebuild then finds neither a basis nor the mark of an unknown one and raises
  (`services.py:567`), for this user from now on. Requirement 7.4 wants such lots rebuilt.
* `forgotten`: `rmb_basis` (and `zero_basis`) of an adjustment is read from the request and kept
  in no column the rebuild reads, so a rebuild turns a priced lot into an unpriced one. Goal 5 wants
  recalculation deterministic. `ReplayAgrees` states what does hold: it excludes such bases.
* `unfunded`: deleting a funding event removes its part of a purchase's attributions without a
  gap or a rebuild, and the asset stays COMPLETE. Requirement 7.2 wants a rebuild.
  Without deletions `CompleteMeansFunded` holds (run `records`).
* `repriced`: `carried or spot or cash basis` takes a carried basis of zero for none, and prices
  the proceeds at the spot rate (`services.py:495`). Requirement 4.4 rules that out. Where no
  money came in for nothing `CostConserved` holds (run `records`).
* `reimported`: two redemptions of one product at one time and amount, without 交易ID and with
  different quantities, are both stored by a first import; the second import takes the second row
  for a supplement of the first event (`excel_import_service.py:155`) and rewrites its quantity.
  `src/README.md:274` says that importing a workbook again skips what exists. `ReimportAddsNothing`
  states what does hold: it excludes workbooks with such twins (as `ImportCompletes` does).

Seen while modelling, in the model as the code has it, and not given a run: editing an event's
time leaves its lots dated as before (7.2); storing a rate rebuilds nothing (7.4); rows imported
with an earlier date do not recompute later allocations (7.1); `zero_basis` sent through the API
is never looked at, because the request model always has the key `rmb_basis` (2.4); bond sales and
redemptions open no lot (2.3); a redemption reduces other users' attributions of a shared asset;
with two inflows of one currency each gets the whole carried basis; a rebuild by date range clears
everything and replays the range; tracing fails after ten hops; the gap kind BASIS_MISSING is
read but never written, and that status of an asset is unreachable.

Of the transactions and the import: a sale of `usd` is checked against the rows in `USD`
(`repositories.py:117`) and stored as `usd` (`repositories.py:52`), so that any number of them pass, although
`validators.py:34` is there to refuse a sale that exceeds the position (`NothingSoldUnheld` is about ledgers in upper
case); a trade against CNY without a stated cost but with a rate other than 1
is booked at price times rate, while positions ignore the rate; deleting or re-rating a transaction leaves its
event as it was; a currency that came from a swap event cannot be sold as a
transaction; a backdated sale passes the check (which looks at all dates) and then makes the asset
vanish from the positions; compatibility events of swaps are listed twice in the history; history
filters apply after the limit; a restore followed by a re-import stores the FX events twice;
the import runs all FX trades before all other events, so lots are not allocated in the order of their dates; a
redemption with another 交易ID but the same time and amount is swallowed as a supplement; a 交易ID
that occurs twice in one workbook is stored twice; editing a time, storing a rate or renaming a
product makes a re-import store a second copy; a row whose price is 0 is "ready" but undoes the whole import; the options that
would look up missing CNY amounts are switched on by no caller, so that no row is ever PENDING; an
asset first created by a snapshot and then imported by name becomes two, and the next snapshot of
that name fails.

Of the reports: the overview's FX gain includes manual adjustments and CNY gains at constant rates;
a purchase after an older snapshot shows as a loss; PENDING events count in the balances and the cost of a PENDING purchase is
shown twice; at a past cutoff the audit and the report differ by design of their queries; when an oversold
asset's newest snapshot is empty, the report goes back to an older one and the page shows none; negative adjustments and
bond sales do not touch the lots; of two rates of one instant
the report takes the confirmed one and the page the one stored last, so that they value a currency differently;
an asset that several users bought is INCOMPLETE because of another's gap, which the hints, of the user's own gaps,
do not list; for an asset with units whose native cost is known the page shows the whole gain as investment while
the calculator splits off FX; the list of lots without a basis omits spent ones; records are suggested by the
asset's currency while values count in the snapshot's; only tests call
`PerformanceCalculator`.

Of rates and the assistant: `cache_hit` is False also for a hit; a position without a rate is valued
at 100, and its stored price may then be another; a fallback row dated later outranks the primary source's
rate of the Friday before; a day before the fallback table begins is answered with its
latest day; in chat mode the positions handed to the advice skill lack `average_cost_cny`, which
`build_portfolio_summary` requires, so the prompt cannot be rendered and the answer is always the error
text; `_local_advice`, described as serving when the AI is unavailable, is never called;
no skill uses `get_exchange_rate`; `LLMOrchestrator` has no route and `sync_positions` no caller, both
are modelled as operations of their classes.

## 7. Faithfulness notes

* The INSERT of the event row takes the write lock before anything is read for the
  allocation, so one job at a time is what the database allows.
* `Rates` holds what the primary source may answer; estimates and fallback answers are
  not stored by the code (`transactions.py:508`), which is the empty case of `Rerate`.
* `ComputeStatus` is asked about foreign-currency assets only; for CNY the code answers NOT_APPLICABLE
  before it reads anything. As in the code, gaps are not filtered by user.
* Codes and currencies are stored in the case they were sent in: the frontend (`validation.ts`) and the workbooks
  (`_normalize_currency`) send upper case, a direct request need not. `TradeLedger` models this; the events of the other
  models start from upper-case currencies because `create_event` applies `upper()` (`services.py:267`, `:289`).
* `OneOwnerPerRequest` is checked in `history` with payloads that buy, but do not redeem, a shared asset: the run has no
  time for more. The theorem `OneOwner` covers every payload.
* `ReplayAgrees` compares books up to the renumbering of primary keys.
* Requests of one server do not interleave: the handlers are coroutines that never await while they
  work. So `AgentLoop` and `ExchangeRates` serve one request at a time, although a request takes
  many steps.
* Every request builds its own `ExchangeRateTool`: the cache lives as long as the request.
* The two lookups of one sync see the same table of published rates but may fail independently.
* `ById` and `Supplemented` take the stored event with the least key, the order of the code's query.
* `ConfirmedRatesOnly` takes the payload of the primary source to carry its date; the code takes a payload
  without one for the day that was asked for.

## 8. Abstractions

Descriptions, source types, allocation policies other than FIFO (which the code refuses) and audit log rows
are left out. Amounts below the quantum, which `consume_lot` refuses, do not occur.
Trades are never dated in the future (`validate_trade_time_not_future`): the models have no clock, so none is refused for it.
`mark_lot_status` has no caller. `Earliest` and `Latest` stand for an absent date limit.

In the reports, the ledger and the import quantities, prices and amounts are whole units: the rounding
of the JSON fields and of imported prices is left out, and the average cost is an exact fraction. An
event in `TradeLedger` is its ledger entries; what it does to the funding books is
`FundingAttribution`'s, so the rebuild at the end of an import is not repeated there. A restore is
of the newest backup and of the transactions only. Cells are values, their parsing is left out.
Products have a code of three origins (`<<"bank" | "registry" | "digest", type, name>>`), never its
characters.

In `AgentLoop` a message is its role, its calls and its answers; tools and model answer anything. A
conversation starts with the user's message: the context a caller may hand to `handle` comes from
no caller. The answers of one round and of the trace are the same list, kept once.

## 9. Not modelled

* Two processes on one database: the check of a sale and its insert (`repositories.py:161`).
* `trace_to_origin` beyond the acyclicity it relies on, and its limit of ten hops.
* Parse, advice and audit-log tables, which nothing modelled reads; five of the six tables of a backup.
* Request formats of the AI providers, the estimate of tokens, rendering of prompts and parsing of answers.
* Text recognition (OCR, NLP, parsers, the xlsx reader) and the screenshot import, which keep no
  state; wording of advice, logging, settings, request schemas, migrations, the frontend, the
  demo and the editor hooks.
