------------------------- MODULE FundingAttribution -------------------------
(***************************************************************************)
(* The funding books as whole handlers see them: every event type of       *)
(* PortfolioEventService, the history routes that delete, edit and re-rate *)
(* an event, and AttributionRebuildService.                                *)
(*                                                                         *)
(* Each action is one request, which commits as a whole or not at all      *)
(* (FundingLots shows that no intermediate step of it is ever visible).    *)
(* A deleted greatest primary key is given out again, as SQLite does.      *)
(***************************************************************************)
EXTENDS LotOps, Tables

CONSTANTS Users, Assets, Times,
          Payloads,      \* the request bodies of create_event
          Rates,         \* what the primary exchange-rate source may answer
          MaxEvents,     \* bound: primary keys of portfolio_events
          MaxKey,        \* bound: primary keys of the other tables
          NoAsset

CNY == "CNY"

(* The columns of a cash entry and, in `raw', the keys of its JSON that only *)
(* MANUAL_ADJUSTMENT reads and that no column keeps.                       *)
CashEntry == [currency : STRING, delta : Int, rmb : Bases, rate : Bases, external : BOOLEAN,
              raw : [keys : SUBSET {"rmb_basis", "zero_basis", "unknown_basis"},
                     rmb_basis : Bases]]

AssetEntry == [asset : Assets, quantity : Int, currency : STRING,
               amount : Bases, rate : Bases]

Purchases == {"FUND_BUY", "WEALTH_BUY", "BOND_BUY"}
Returns == {"FUND_SELL", "WEALTH_REDEEM", "FUND_DIVIDEND", "WEALTH_INCOME", "INTEREST_INCOME"}
EventTypes == {"FX_BUY", "FX_SELL", "FX_SWAP", "MANUAL_ADJUSTMENT", "BOND_SELL",
               "BOND_REDEMPTION", "FUND_DIVIDEND_REINVEST"} \cup Purchases \cup Returns

(* What the columns of portfolio_events and the request schema demand. *)
Payload == [type : EventTypes, status : {"PENDING", "CONFIRMED", "REJECTED"},
            cash : Seq(CashEntry), assets : Seq(AssetEntry)]

ASSUME FundingAttributionAssumption ==
    Times \subseteq Nat /\ Rates \subseteq Nat /\ Payloads \subseteq Payload

VARIABLES events,   \* portfolio_events with their ledger entries
          books     \* funding_lots, lot_consumptions, attributions, attribution_gaps

vars == <<events, books>>

EmptyBooks == [lots |-> <<>>, consumptions |-> <<>>, attributions |-> <<>>, gaps |-> <<>>]
-----------------------------------------------------------------------------
(* Lots and allocation.                                                    *)

Inflows(cash) == Chosen(cash, {c \in ToSet(cash) : c.currency # CNY /\ c.delta > 0})

Outflows(cash) == Chosen(cash, {c \in ToSet(cash) : c.currency # CNY /\ c.delta < 0})

(* _cash_entry_basis, which is only asked about inflows. *)
CashBasis(c) == IF c.rmb # NoBasis THEN c.rmb
                ELSE IF c.rate # NoBasis THEN c.delta * c.rate ELSE NoBasis

OpenLot(book, e, ev, currency, amount, basis) ==
    [book EXCEPT !.lots = Insert(@, NewLot(ev.user, currency, e, amount, basis, ev.time))]

(* One turn of allocate()'s loop: consume_lot on lot l. *)
Draw(run, e, l) ==
    IF run.left = 0 THEN run
    ELSE LET lot == run.book.lots[l]
             row == ConsumptionOf(l, lot, e, Smaller(lot.remaining_amount, run.left))
         IN  [run EXCEPT !.book.lots[l] = Consumed(@, row.amount),
                         !.book.consumptions = Insert(@, row),
                         !.left = @ - row.amount,
                         !.cost = @ + row.basis,
                         !.drawn = Append(@, row)]

(* Mutated form: target_asset_id is not passed on. *)
RecordGapOfNoAsset(book, e, ev, currency, asset, shortfall) ==
    [book EXCEPT !.gaps = Insert(@, [user |-> ev.user, event |-> e, asset |-> NoAsset,
                                     currency |-> currency, shortfall |-> shortfall])]

RecordGap(book, e, ev, currency, asset, shortfall) ==
    [book EXCEPT !.gaps = Insert(@, [user |-> ev.user, event |-> e, asset |-> asset,
                                     currency |-> currency, shortfall |-> shortfall])]

Allocate(book, e, ev, currency, needed, asset) ==
    LET order == InOrder(Where(book.lots, LAMBDA k : Spendable(k, ev.user, currency, ev.time)),
                         LAMBDA k, l : Precedes(book.lots, k, l))
        run == FoldLeft(LAMBDA r, l : Draw(r, e, l),
                        [book |-> book, left |-> needed, cost |-> 0, drawn |-> <<>>], order)
    IN  IF run.left = 0 THEN run
        ELSE [run EXCEPT !.book = RecordGap(@, e, ev, currency, asset, run.left)]
-----------------------------------------------------------------------------
(* One handler per group of event types.                                   *)

(* A lot for every inflow, with the basis that `basis' gives it. *)
OpenEach(book, e, ev, basis) ==
    FoldLeft(LAMBDA b, c : OpenLot(b, e, ev, c.currency, c.delta, basis[c]),
             book, Inflows(ev.cash))

FxBuy(book, e, ev) == OpenEach(book, e, ev, [c \in ToSet(Inflows(ev.cash)) |-> CashBasis(c)])

FxSell(book, e, ev) ==
    FoldLeft(LAMBDA b, c : Allocate(b, e, ev, c.currency, -c.delta, NoAsset).book,
             book, Outflows(ev.cash))

(* Mutated form: a swap without enough funds opens no lot. *)
FxSwapIfFunded(book, e, ev) ==
    IF Inflows(ev.cash) = <<>> \/ Outflows(ev.cash) = <<>> THEN book
    ELSE LET source == Head(Outflows(ev.cash))
             target == Head(Inflows(ev.cash))
             run == Allocate(book, e, ev, source.currency, -source.delta, NoAsset)
         IN  IF run.left = 0
             THEN OpenLot(run.book, e, ev, target.currency, target.delta, run.cost)
             ELSE run.book

(* Only the first leg of each sign counts; a one-legged swap does nothing. *)
FxSwap(book, e, ev) ==
    IF Inflows(ev.cash) = <<>> \/ Outflows(ev.cash) = <<>> THEN book
    ELSE LET source == Head(Outflows(ev.cash))
             target == Head(Inflows(ev.cash))
             run == Allocate(book, e, ev, source.currency, -source.delta, NoAsset)
         IN  OpenLot(run.book, e, ev, target.currency, target.delta,
                     IF run.left = 0 THEN run.cost ELSE NoBasis)

(* Take money back from one attribution of the redeemed asset. *)
Release(run, a) ==
    LET row == run.book.attributions[a]
        amount == Smaller(row.native_amount, run.left)
        basis == BasisShare(row.rmb_basis, amount, row.native_amount)
        kept == [row EXCEPT !.native_amount = @ - amount, !.rmb_basis = @ - basis]
    IN  IF run.left = 0 \/ row.native_amount = 0 THEN run
        ELSE [run EXCEPT !.book.attributions[a] = kept,
                         !.left = @ - amount,
                         !.carried = @ + basis]

(* The attributions of an asset, whoever's they are, oldest purchase first. *)
CarryingRows(book, evs, asset) ==
    LET time(a) == evs[book.attributions[a].target_event].time
    IN  InOrder(Where(book.attributions, LAMBDA r : r.target_asset = asset),
                LAMBDA a, b : Sooner(time, a, b))

Redeemed(ev) ==
    Chosen(ev.assets, {x \in ToSet(ev.assets) : x.quantity < 0 /\ x.amount # NoBasis})

(* _reduce_asset_attributions_for_redemption: the books, and the basis     *)
(* released per currency (none and zero are the same to the caller).       *)
ReleaseAll(book, evs, ev) ==
    FoldLeft(LAMBDA acc, x :
                LET run == FoldLeft(Release, [book |-> acc.book, left |-> x.amount, carried |-> 0],
                                    CarryingRows(acc.book, evs, x.asset))
                IN  [book |-> run.book,
                     carried |-> [acc.carried EXCEPT ![x.currency] = @ + run.carried]],
             [book |-> book, carried |-> [c \in {x.currency : x \in ToSet(ev.assets)} |-> 0]],
             Redeemed(ev))

(* The redeemed assets at their own row's exchange rate. *)
SpotBasis(ev, currency) ==
    FoldLeft(LAMBDA sum, x : sum + x.amount * x.rate, 0,
             Chosen(Redeemed(ev), {x \in ToSet(ev.assets) : x.currency = currency /\ x.rate # NoBasis}))

(* Mutated form: the redeemed money is priced at the redemption's rate. *)
RedemptionBasisAtSpot(carried, ev, c) ==
    IF SpotBasis(ev, c.currency) # 0 THEN SpotBasis(ev, c.currency) ELSE CashBasis(c)

(* "carried or spot or the cash entry's": zero counts as no answer. *)
RedemptionBasis(carried, ev, c) ==
    IF c.currency \in DOMAIN carried /\ carried[c.currency] # 0 THEN carried[c.currency]
    ELSE IF SpotBasis(ev, c.currency) # 0 THEN SpotBasis(ev, c.currency)
    ELSE CashBasis(c)

IncomeOrRedemption(book, evs, e, ev) ==
    LET released == ReleaseAll(book, evs, ev)
    IN  OpenEach(released.book, e, ev,
                 [c \in ToSet(Inflows(ev.cash)) |-> RedemptionBasis(released.carried, ev, c)])

ManualBasisGiven(c) == c.raw.keys # {} \/ c.rmb # NoBasis

ManualBasis(c) ==
    IF "rmb_basis" \in c.raw.keys THEN c.raw.rmb_basis
    ELSE IF c.rmb # NoBasis THEN c.rmb
    ELSE IF "zero_basis" \in c.raw.keys THEN 0 ELSE NoBasis

ManualAdjustment(book, e, ev) ==
    OpenEach(book, e, ev, [c \in ToSet(Inflows(ev.cash)) |-> ManualBasis(c)])

(* Mutated form: every lot is attributed the whole purchase. *)
AttributeWhole(book, e, x, row) ==
    [book EXCEPT !.attributions =
        Insert(@, [target_event |-> e, target_asset |-> x.asset, source_lot |-> row.lot,
                   native_amount |-> x.amount, rmb_basis |-> row.basis])]

Attribute(book, e, x, row) ==
    [book EXCEPT !.attributions =
        Insert(@, [target_event |-> e, target_asset |-> x.asset, source_lot |-> row.lot,
                   native_amount |-> row.amount, rmb_basis |-> row.basis])]

Purchased(ev) ==
    Chosen(ev.assets, {x \in ToSet(ev.assets) : /\ x.currency # CNY /\ x.quantity > 0
                                                /\ x.amount # NoBasis})

AssetPurchase(book, e, ev) ==
    FoldLeft(LAMBDA b, x :
                LET run == Allocate(b, e, ev, x.currency, x.amount, x.asset)
                IN  FoldLeft(LAMBDA d, row : Attribute(d, e, x, row), run.book, run.drawn),
             book, Purchased(ev))

(* _process_funding_attribution; BOND_SELL, BOND_REDEMPTION and            *)
(* FUND_DIVIDEND_REINVEST fall through.                                    *)
Process(book, evs, e) ==
    LET ev == evs[e]
    IN  IF ev.status # "CONFIRMED" THEN book
        ELSE
        CASE ev.type = "FX_BUY"             -> FxBuy(book, e, ev)
          [] ev.type = "FX_SELL"            -> FxSell(book, e, ev)
          [] ev.type = "FX_SWAP"            -> FxSwap(book, e, ev)
          [] ev.type \in Returns            -> IncomeOrRedemption(book, evs, e, ev)
          [] ev.type = "MANUAL_ADJUSTMENT"  -> ManualAdjustment(book, e, ev)
          [] ev.type \in Purchases          -> AssetPurchase(book, e, ev)
          [] OTHER                          -> book

(* The ValueErrors of _manual_adjustment_basis and of allocate(), which    *)
(* undo the whole request.                                                 *)
Refused(ev) ==
    /\ ev.status = "CONFIRMED"
    /\ \/ /\ ev.type = "MANUAL_ADJUSTMENT"
          /\ \E c \in ToSet(Inflows(ev.cash)) : ~ManualBasisGiven(c)
       \/ /\ ev.type \in Purchases
          /\ \E x \in ToSet(Purchased(ev)) : x.amount = 0
-----------------------------------------------------------------------------
(* Requests.                                                               *)

Init == events = <<>> /\ books = EmptyBooks

WithinKeys(book) ==
    /\ DOMAIN book.lots \cup DOMAIN book.consumptions \subseteq 1 .. MaxKey
    /\ DOMAIN book.attributions \cup DOMAIN book.gaps \subseteq 1 .. MaxKey

(* create_event, for an API request or an imported row. *)
CreateEvent(user, payload, time) ==
    LET e == NextId(events)
        ev == [user |-> user, time |-> time, type |-> payload.type, status |-> payload.status,
               cash |-> payload.cash, assets |-> payload.assets]
    IN  /\ e <= MaxEvents
        /\ ~Refused(ev)
        /\ events' = Insert(events, ev)
        /\ books' = Process(books, events', e)
        /\ WithinKeys(books')

(* The consumptions that go with event e and the lots it opened. *)
ConsumptionsByOnly(e, opened) == Where(books.consumptions, LAMBDA c : c.event = e)   \* mutated

ConsumptionsTied(e, opened) ==
    Where(books.consumptions, LAMBDA c : c.lot \in opened \/ c.event = e)

(* DELETE /EVENT/{id}: the event's own lots and rows go; what it drew from *)
(* other lots is not given back.                                           *)
DeleteEvent(e) ==
    LET opened == Where(books.lots, LAMBDA l : l.source_event = e)
    IN  /\ e \in DOMAIN events
        /\ events' = Without(events, {e})
        /\ books' = [books EXCEPT
               !.lots         = Without(@, opened),
               !.consumptions = Without(@, ConsumptionsTied(e, opened)),
               !.attributions = Without(@, Where(@, LAMBDA a : \/ a.source_lot \in opened
                                                             \/ a.target_event = e)),
               !.gaps         = Without(@, Where(@, LAMBDA g : g.event = e))]

(* PATCH /EVENT/{id}: the event's time only. *)
EditEvent(e, time) ==
    /\ e \in DOMAIN events
    /\ events' = [events EXCEPT ![e].time = time]
    /\ UNCHANGED books

(* POST /EVENT/{id}/historical-rate: `rate' holds the currencies for which  *)
(* the primary source answered.                                            *)
UpdateHistoricalRate(e, rate) ==
    LET rerate(x) == IF x.currency \in DOMAIN rate THEN [x EXCEPT !.rate = rate[x.currency]] ELSE x
        rated(entries) == [i \in DOMAIN entries |-> rerate(entries[i])]
    IN  /\ e \in DOMAIN events
        /\ DOMAIN rate # {}
        /\ events' = [events EXCEPT ![e].cash = rated(@), ![e].assets = rated(@)]
        /\ UNCHANGED books

ForeignCurrencies(ev) ==
    {x.currency : x \in ToSet(ev.cash) \cup ToSet(ev.assets)} \ {CNY}

(* The payload rebuild puts together from the stored columns. *)
FromColumns(ev) ==
    LET unknown(c) == /\ ev.type = "MANUAL_ADJUSTMENT" /\ c.currency # CNY /\ c.delta > 0
                      /\ c.rmb = NoBasis /\ c.rate = NoBasis
        stored(c) == [c EXCEPT !.raw = [keys |-> IF unknown(c) THEN {"unknown_basis"} ELSE {},
                                        rmb_basis |-> NoBasis]]
    IN  [ev EXCEPT !.cash = [i \in DOMAIN @ |-> stored(@[i])]]

(* The rows _clear_user_attribution deletes, and mutated forms of each set. *)
UnspentLotsOf(book, user) ==                                                  \* mutated
    Where(book.lots, LAMBDA l : l.user = user /\ l.status # "FULLY_CONSUMED")
AllLots(book, user) == DOMAIN book.lots                                       \* mutated
LotsOf(book, user) == Where(book.lots, LAMBDA l : l.user = user)

NoConsumptions(book, own, lots) == {}                                         \* mutated
ConsumptionsOf(book, own, lots) ==
    Where(book.consumptions, LAMBDA c : c.event \in own \/ c.lot \in lots)

NoGaps(book, own) == {}                                                       \* mutated
GapsOf(book, own) == Where(book.gaps, LAMBDA g : g.event \in own)

Cleared(book, evs, user) ==
    LET own == {e \in DOMAIN evs : evs[e].user = user}
        lots == LotsOf(book, user)
    IN  [lots         |-> Without(book.lots, lots),
         consumptions |-> Without(book.consumptions, ConsumptionsOf(book, own, lots)),
         attributions |-> Without(book.attributions,
             Where(book.attributions, LAMBDA a : a.target_event \in own \/ a.source_lot \in lots)),
         gaps         |-> Without(book.gaps, GapsOf(book, own))]

InRange(user, from, to) ==
    {e \in DOMAIN events : events[e].user = user /\ events[e].time \in from .. to}

Replayable(chosen) == \A e \in chosen : ~Refused(FromColumns(events[e]))

Replayed(user, chosen) ==
    LET stored == [e \in DOMAIN events |-> FromColumns(events[e])]
    IN  FoldLeft(LAMBDA book, e : Process(book, stored, e),
                 Cleared(books, events, user), InTimeOrder(events, chosen))

(* rebuild_user_attribution: everything is cleared, the range is replayed. *)
Rebuild(user, from, to) ==
    LET chosen == InRange(user, from, to)
    IN  /\ UNCHANGED events
        /\ Replayable(chosen)
        /\ books' = Replayed(user, chosen)
        /\ WithinKeys(books')

Earliest == Min(Times)
Latest == Max(Times)

Create == \E u \in Users, p \in Payloads, t \in Times : CreateEvent(u, p, t)
Delete == \E e \in DOMAIN events : DeleteEvent(e)
Edit == \E e \in DOMAIN events, t \in Times : EditEvent(e, t)
Rerate == \E e \in DOMAIN events : \E S \in SUBSET ForeignCurrencies(events[e]) :
             \E rate \in [S -> Rates] : UpdateHistoricalRate(e, rate)
RebuildRange ==
    \E u \in Users, from, to \in Times : from <= to /\ Rebuild(u, from, to)

Next == Create \/ Delete \/ Edit \/ Rerate \/ RebuildRange

Spec == Init /\ [][Next]_vars

(* Histories that are only added to. *)
CreateSpec == Init /\ [][Create]_vars

-----------------------------------------------------------------------------
Event == [user : Users, time : Times, type : EventTypes,
          status : {"PENDING", "CONFIRMED", "REJECTED"},
          cash : Seq(CashEntry), assets : Seq(AssetEntry)]

LotRow == [user : Users, currency : STRING, source_event : Nat, original_amount : Nat,
           remaining_amount : Nat, original_basis : Bases, remaining_basis : Bases,
           status : Statuses, created_at : Times]

(* The CHECK constraints of funding_lots, and what its status says. *)
LotChecks(lot) ==
    /\ lot.remaining_amount <= lot.original_amount
    /\ lot.original_basis = NoBasis <=> lot.remaining_basis = NoBasis
    /\ lot.status = "BASIS_MISSING" <=> lot.original_basis = NoBasis
    /\ lot.remaining_basis # NoBasis => lot.remaining_basis <= lot.original_basis

Lot == {lot \in LotRow : LotChecks(lot)}

Consumption == [lot : Nat, event : Nat, amount : Nat, basis : Nat, remaining_after : Nat]

Attribution == [target_event : Nat, target_asset : Assets, source_lot : Nat,
                native_amount : Nat, rmb_basis : Nat]

Gap == [user : Users, event : Nat, asset : Assets \cup {NoAsset}, currency : STRING,
        shortfall : Nat]

HasTables(book) == book = [lots |-> book.lots, consumptions |-> book.consumptions,
                           attributions |-> book.attributions, gaps |-> book.gaps]

RowsTyped(book) ==
    /\ IsTable(book.lots, Lot)
    /\ IsTable(book.consumptions, Consumption)
    /\ IsTable(book.attributions, Attribution)
    /\ IsTable(book.gaps, Gap)

(* Every row of every table has its type: the columns that are NOT NULL or  *)
(* checked non-negative are so, and a lot never holds more than it was     *)
(* opened with, whatever shares and reductions were taken.                 *)
TypeOK == IsTable(events, Event) /\ HasTables(books) /\ RowsTyped(books)

RowsOf(table, P(_)) == {table[i] : i \in Where(table, P)}

(* Lot l and event e exist in books `book' and history evs, and are the same user's. *)
SameOwner(book, evs, l, e) ==
    l \in DOMAIN book.lots /\ e \in DOMAIN evs /\ book.lots[l].user = evs[e].user

NoStraysIn(book, evs) ==
    /\ \A l \in DOMAIN book.lots : SameOwner(book, evs, l, book.lots[l].source_event)
    /\ \A c \in DOMAIN book.consumptions :
          SameOwner(book, evs, book.consumptions[c].lot, book.consumptions[c].event)
    /\ \A a \in DOMAIN book.attributions :
          SameOwner(book, evs, book.attributions[a].source_lot, book.attributions[a].target_event)
    /\ \A g \in DOMAIN book.gaps :
          book.gaps[g].event \in DOMAIN evs /\ book.gaps[g].user = evs[book.gaps[g].event].user

(* No row refers to a lot or an event that is gone, or that was somebody    *)
(* else's: deleting an event or clearing a user's books takes every row    *)
(* that would otherwise be adopted by the next row given the same key.     *)
NoStrayRows == NoStraysIn(books, events)

DrawnFrom(book, l) == {c \in DOMAIN book.consumptions : book.consumptions[c].lot = l}
DrawnBy(e) == Where(books.consumptions, LAMBDA c : c.event = e)

AmountTaken(book, S) ==
    SumFunctionOnSet([c \in DOMAIN book.consumptions |-> book.consumptions[c].amount], S)
BasisTaken(book, S) ==
    SumFunctionOnSet([c \in DOMAIN book.consumptions |-> book.consumptions[c].basis], S)

Native(S) == AmountTaken(books, S)
Basis(S) == BasisTaken(books, S)

SpentOnceIn(book) ==
    \A l \in DOMAIN book.lots :
       LET lot == book.lots[l]
           drawn == DrawnFrom(book, l)
       IN  /\ AmountTaken(book, drawn) + lot.remaining_amount <= lot.original_amount
           /\ lot.original_basis # NoBasis =>
                 BasisTaken(book, drawn) + lot.remaining_basis <= lot.original_basis

(* No money is spent twice: what the recorded consumptions of a lot took   *)
(* and what it still holds never exceed what it was opened with, in        *)
(* currency and in RMB, whatever was deleted, re-dated or replayed.        *)
NeverSpentTwice == SpentOnceIn(books)

(* What the attributions in S carry. *)
AmountCarried(book, S) ==
    SumFunctionOnSet([a \in DOMAIN book.attributions |-> book.attributions[a].native_amount], S)
BasisCarried(book, S) ==
    SumFunctionOnSet([a \in DOMAIN book.attributions |-> book.attributions[a].rmb_basis], S)

BackedIn(book) ==
    \A a \in DOMAIN book.attributions :
       LET row == book.attributions[a]
           alike == {i \in DOMAIN book.attributions :
                       /\ book.attributions[i].target_event = row.target_event
                       /\ book.attributions[i].source_lot = row.source_lot}
           paid == {c \in DrawnFrom(book, row.source_lot) :
                       book.consumptions[c].event = row.target_event}
       IN  /\ AmountCarried(book, alike) <= AmountTaken(book, paid)
           /\ BasisCarried(book, alike) <= BasisTaken(book, paid)

(* A purchase attributes to its assets no more of a lot than it consumed    *)
(* from it, before and after redemptions released part of it, whatever was *)
(* deleted or replayed.                                                    *)
AttributedFromConsumed == BackedIn(books)

(* compute_status for a foreign-currency asset. *)
ComputeStatus(asset, user) ==
    LET rows == Where(books.attributions, LAMBDA a : a.target_asset = asset)
    IN  IF \E a \in rows : books.lots[books.attributions[a].source_lot].original_basis = NoBasis
        THEN "BASIS_MISSING"
        ELSE IF /\ Where(books.gaps, LAMBDA g : g.asset = asset) = {}
                /\ \E a \in rows : events[books.attributions[a].target_event].user = user
        THEN "COMPLETE" ELSE "INCOMPLETE"

Needed(ev) == FoldLeft(LAMBDA sum, x : sum + x.amount, 0, Purchased(ev))

Missing(S) == SumFunctionOnSet([g \in DOMAIN books.gaps |-> books.gaps[g].shortfall], S)

(* What event e lacked for assets other than `asset'. *)
LackedElsewhere(e, asset) ==
    Where(books.gaps, LAMBDA g : g.event = e /\ g.asset \in Assets \ {asset})

(* An asset is reported COMPLETE only if every purchase of it by that user *)
(* is paid for by recorded consumptions, up to what the same purchase      *)
(* reports as missing for its other assets.                                *)
CompleteMeansFunded ==
    \A u \in Users, asset \in Assets : ComputeStatus(asset, u) = "COMPLETE" =>
       \A e \in DOMAIN events :
          (/\ events[e].user = u /\ events[e].status = "CONFIRMED"
           /\ events[e].type \in Purchases
           /\ \E x \in ToSet(Purchased(events[e])) : x.asset = asset)
          => Needed(events[e]) = Native(DrawnBy(e)) + Missing(LackedElsewhere(e, asset))

Handled(types) == {e \in DOMAIN events : events[e].status = "CONFIRMED" /\ events[e].type \in types}

AmountOf(entries, asset) ==
    FoldLeft(LAMBDA sum, x : sum + x.amount, 0,
             Chosen(entries, {x \in ToSet(entries) : x.asset = asset}))

(* Redemptions of an asset, up to event e, of no more than was bought before. *)
Carried(e, asset) ==
    Total({d \in Handled(Returns) : d <= e}, LAMBDA d : AmountOf(Redeemed(events[d]), asset))
        <= Total({d \in Handled(Purchases) : d < e}, LAMBDA d : AmountOf(Purchased(events[d]), asset))

(* No event spent or redeemed money that the books do not know the origin of. *)
OriginsKnown ==
    /\ DOMAIN books.gaps = {}
    /\ \A e \in Handled(Returns) : \A x \in ToSet(Redeemed(events[e])) : Carried(e, x.asset)

Held(l) == IF books.lots[l].original_basis = NoBasis THEN 0 ELSE books.lots[l].remaining_basis

PaidIn(l) ==
    IF events[books.lots[l].source_event].type \in {"FX_BUY", "MANUAL_ADJUSTMENT", "INTEREST_INCOME"}
         /\ books.lots[l].original_basis # NoBasis
    THEN books.lots[l].original_basis ELSE 0

(* While every origin is known, the RMB that was paid in is what the lots  *)
(* hold, plus what the assets carry, plus what was sold: swapping money,   *)
(* buying an asset with it, redeeming the asset in parts and buying again  *)
(* passes the cost on, and neither loses, repeats nor re-prices it.        *)
CostConserved ==
    OriginsKnown =>
       Total(DOMAIN books.lots, PaidIn) =
            Total(DOMAIN books.lots, Held)
          + Total(DOMAIN books.attributions, LAMBDA a : books.attributions[a].rmb_basis)
          + Basis(Where(books.consumptions, LAMBDA c : events[c.event].type = "FX_SELL"))

Rank(l, S) == Cardinality({k \in S : k <= l})

Listed(table, ids) == [i \in 1 .. Cardinality(ids) |-> table[InOrder(ids, <)[i]]]

(* What one user's books say, whatever primary keys the rows have. *)
View(book, user) ==
    LET own == {e \in DOMAIN events : events[e].user = user}
        lots == Where(book.lots, LAMBDA l : l.user = user)
        renumber(r) == [r EXCEPT !.lot = Rank(@, lots)]
        resource(r) == [r EXCEPT !.source_lot = Rank(@, lots)]
        cons == Listed(book.consumptions, Where(book.consumptions, LAMBDA c : c.event \in own))
        attrs == Listed(book.attributions,
                        Where(book.attributions, LAMBDA a : a.target_event \in own))
    IN  [lots         |-> Listed(book.lots, lots),
         consumptions |-> [i \in DOMAIN cons |-> renumber(cons[i])],
         attributions |-> [i \in DOMAIN attrs |-> resource(attrs[i])],
         gaps         |-> Listed(book.gaps, Where(book.gaps, LAMBDA g : g.event \in own))]

OwnEvents(u) == InRange(u, Earliest, Latest)

RecordedInOrder(u) ==
    \A d, e \in OwnEvents(u) : d < e => events[d].time <= events[e].time

BooksFollowEvents(u) ==
    Replayable(OwnEvents(u)) => View(Replayed(u, OwnEvents(u)), u) = View(books, u)

(* The columns keep every basis that a manual adjustment was given. *)
BasisStored(u) ==
    \A e \in OwnEvents(u) : events[e].type = "MANUAL_ADJUSTMENT" =>
       LET given == events[e].cash
           stored == FromColumns(events[e]).cash
       IN  \A i \in DOMAIN given : ManualBasis(stored[i]) = ManualBasis(given[i])

(* When a user's events were recorded in the order they happened and no     *)
(* basis was given outside the columns, replaying the stored events from   *)
(* nothing gives the very books that recording them one by one gave.       *)
ReplayAgrees == \A u \in Users : RecordedInOrder(u) /\ BasisStored(u) => BooksFollowEvents(u)

(* The same of every basis a caller may give: violated, because rmb_basis   *)
(* and zero_basis are only read from the request.                          *)
RecalculationDeterministic == \A u \in Users : RecordedInOrder(u) => BooksFollowEvents(u)

(* Every recorded history can be replayed: nothing that was accepted once  *)
(* makes a later rebuild of the user's books fail.                         *)
HistoryReplayable == \A u \in Users : Replayable(OwnEvents(u))

Exact(book, evs, user) ==
    /\ \A l \in DOMAIN book.lots : book.lots[l].user = user =>
          /\ book.lots[l].created_at = evs[book.lots[l].source_event].time
          /\ book.lots[l].original_amount
                = book.lots[l].remaining_amount + AmountTaken(book, DrawnFrom(book, l))
    /\ \A c \in DOMAIN book.consumptions :
          LET row == book.consumptions[c]
          IN  evs[row.event].user = user => book.lots[row.lot].created_at <= evs[row.event].time

(* A full rebuild repairs what deletions, edits and partial rebuilds left: *)
(* the user's lots hold exactly what the surviving events left in them,    *)
(* are dated by their events, and paid only for later ones.                *)
RebuildRepairs ==
    \A u \in Users : Replayable(OwnEvents(u)) => Exact(Replayed(u, OwnEvents(u)), events, u)

OthersRows(book, S) ==
    [lots         |-> RowsOf(book.lots, LAMBDA l : l.user \notin S),
     consumptions |-> RowsOf(book.consumptions, LAMBDA c : book.lots[c.lot].user \notin S),
     gaps         |-> RowsOf(book.gaps, LAMBDA g : g.user \notin S)]

(* No request touches the lots, consumptions or gaps of two users. *)
OneOwnerPerRequest ==
    [][UNCHANGED books \/ \E u \in Users : OthersRows(books, {u}) = OthersRows(books', {u})]_vars
=============================================================================
