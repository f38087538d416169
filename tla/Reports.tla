-------------------------------- MODULE Reports --------------------------------
(***************************************************************************)
(* What the program reports about the books: PerformanceService, the audit *)
(* of AuditService that reconciles it, and the positions route, each a     *)
(* computation of its own over the same tables.                            *)
(*                                                                         *)
(* The events and funding books are those of FundingAttribution; this      *)
(* module adds valuation_snapshots and exchange_rates, which are only ever *)
(* added to.  Amounts are whole units: the rounding of the JSON fields is  *)
(* left out.                                                               *)
(***************************************************************************)
EXTENDS FundingAttribution, StoredRates

CONSTANTS TypeOf,          \* assets.asset_type of each asset
          CurrencyOf,      \* assets.currency of each asset
          Snapshots,       \* the request bodies of create_valuation
          RateRows,        \* the rows refresh_rates may store
          MaxValuations,   \* bound: primary keys of valuation_snapshots
          MaxRates         \* bound: primary keys of exchange_rates

(* What the request schema demands of a snapshot, and the columns of a rate. *)
SnapshotRequest == [asset : Assets, time : Int, quantity : Int, value : Int, currency : STRING,
                    rate : Int \cup {NoBasis}, estimated : BOOLEAN]

RateRow == [currency : STRING, rate : Int, time : Int, estimated : BOOLEAN, source : Sources]

ASSUME ReportsAssumption == Snapshots \subseteq SnapshotRequest /\ RateRows \subseteq RateRow

VARIABLES valuations, rates

reportVars == <<events, books, valuations, rates>>

AmountValuedTypes == {"BOND", "FUND", "WEALTH_PRODUCT"}
AmountValued(asset) == TypeOf[asset] \in AmountValuedTypes

InvestmentPoolEvents == {"FX_BUY", "FX_SELL", "FX_SWAP", "MANUAL_ADJUSTMENT"}
-----------------------------------------------------------------------------
(* Ledger sums.                                                            *)

Own(user) == {e \in DOMAIN events : events[e].user = user}
OwnUpTo(user, cutoff) == {e \in Own(user) : events[e].time <= cutoff}

(* The cash entries of the events of E, as <<event, index>>. *)
CashRows(E) == UNION {{e} \X DOMAIN events[e].cash : e \in E}

CashAt(r) == events[r[1]].cash[r[2]]

InCurrency(rows, currency) == {r \in rows : CashAt(r).currency = currency}

OwnCash(user, currency) == InCurrency(CashRows(Own(user)), currency)

Delta(r) == CashAt(r).delta

InBalance(c) == ~(c.currency = CNY /\ c.external)

Balance(rows) == Total({r \in rows : InBalance(CashAt(r))}, Delta)

PoolRows(rows) == {r \in rows : events[r[1]].type \in InvestmentPoolEvents}

(* rmb_amount with the sign of the flow, or the amount at the row's rate. *)
SignedRmb(c) ==
    IF c.rmb # NoBasis THEN IF c.delta >= 0 THEN c.rmb ELSE -c.rmb
    ELSE IF c.rate # NoBasis THEN c.delta * c.rate ELSE 0

HistoricalNative(rows) == Total(PoolRows(rows), Delta)

(* Mutated form: the RMB of an outflow is added. *)
UnsignedCny(rows) ==
    Total({r \in PoolRows(rows) : CashAt(r).rmb # NoBasis}, LAMBDA r : CashAt(r).rmb)

HistoricalCny(rows) == Total(PoolRows(rows), LAMBDA r : SignedRmb(CashAt(r)))

NetInvested(user) == - Total({r \in OwnCash(user, CNY) : CashAt(r).external}, Delta)

(* The asset entries of one asset, in the order of event time and entry id. *)
AssetEntries(E, asset) ==
    FoldLeft(LAMBDA seq, e : seq \o Chosen(events[e].assets,
                                           {x \in ToSet(events[e].assets) : x.asset = asset}),
             <<>>, InTimeOrder(events, E))

(* A reduction of an amount-valued asset stops at zero. *)
AddQuantity(asset, quantity, delta) ==
    IF AmountValued(asset) /\ delta < 0 /\ quantity + delta < 0 THEN 0 ELSE quantity + delta

Quantity(E, asset) ==
    FoldLeft(LAMBDA q, x : AddQuantity(asset, q, x.quantity), 0, AssetEntries(E, asset))

RawQuantity(E, asset) == FoldLeft(LAMBDA q, x : q + x.quantity, 0, AssetEntries(E, asset))

Oversold(user, asset) == AmountValued(asset) /\ RawQuantity(Own(user), asset) < 0
-----------------------------------------------------------------------------
(* Valuations.                                                             *)

SnapshotsOf(user, asset, cutoff) ==
    {v \in DOMAIN valuations : /\ valuations[v].user = user /\ valuations[v].asset = asset
                               /\ valuations[v].time <= cutoff}

Positive(v) == valuations[v].quantity > 0 \/ valuations[v].value > 0

Newest(S) == FirstBy(S, LAMBDA v : <<-valuations[v].time, -v>>)

(* Mutated form: a snapshot counts whether the asset is held or not. *)
AnySnapshot(user, asset, cutoff, quantity, raw) == SnapshotsOf(user, asset, cutoff)

(* PerformanceService._latest_valuations for one asset: the snapshots that  *)
(* count, given its clamped and its raw quantity.                          *)
Qualifying(user, asset, cutoff, quantity, raw) ==
    {v \in SnapshotsOf(user, asset, cutoff) :
        quantity # 0 \/ (AmountValued(asset) /\ raw < 0 /\ Positive(v))}

(* Mutated form: only a snapshot gives an asset a value. *)
ValuedBySnapshot(user, asset, cutoff) ==
    LET quantity == Quantity(Own(user), asset)
        rows == Qualifying(user, asset, cutoff, quantity, RawQuantity(Own(user), asset))
    IN  IF rows = {} THEN <<>>
        ELSE <<valuations[Newest(rows)].currency, valuations[Newest(rows)].value>>

(* <<currency, native value>> of an asset in performance(), or none; an     *)
(* amount-valued asset without a snapshot is worth its ledger quantity.    *)
Valued(user, asset, cutoff) ==
    LET quantity == Quantity(Own(user), asset)
        rows == Qualifying(user, asset, cutoff, quantity, RawQuantity(Own(user), asset))
    IN  CASE rows # {} -> <<valuations[Newest(rows)].currency, valuations[Newest(rows)].value>>
          [] rows = {} /\ quantity # 0 /\ AmountValued(asset) -> <<CurrencyOf[asset], quantity>>
          [] OTHER -> <<>>

(* The assets that have a value, each with it. *)
ValuedAssets(user, cutoff) ==
    {p \in {<<a, Valued(user, a, cutoff)>> : a \in Assets} : p[2] # <<>>}

AssetValue(valued, currency) ==
    Total({p \in valued : p[2][1] = currency}, LAMBDA p : p[2][2])
-----------------------------------------------------------------------------
(* PerformanceService.performance.                                         *)

(* The currencies with a row: of cash entries, pools, snapshots and open assets. *)
ReportedCurrencies(user, valued) ==
    {CashAt(r).currency : r \in {x \in CashRows(Own(user)) : InBalance(CashAt(x))}}
    \cup {p[2][1] : p \in valued}
    \cup {CurrencyOf[a] : a \in {b \in Assets : Quantity(Own(user), b) # 0}}

InCny(amount, rate) == amount * rate

(* One by_currency row; a missing rate leaves out everything in CNY.        *)
RowOf(currency, cash, assets, native, cny, rate) ==
    LET value == InCny(cash + assets, rate)
        investment == IF currency = CNY THEN 0 ELSE InCny((cash + assets) - native, rate)
    IN  IF rate = NoRate
        THEN [currency |-> currency, cash |-> cash, assets |-> assets, native |-> native, rate |-> rate]
        ELSE [currency |-> currency, cash |-> cash, assets |-> assets, native |-> native, rate |-> rate,
              value |-> value, investment |-> investment,
              fx |-> IF currency = CNY THEN 0 ELSE value - cny - investment]

CurrencyRow(user, currency, cutoff, valued) ==
    LET rows == OwnCash(user, currency)
    IN  RowOf(currency, Balance(rows), AssetValue(valued, currency),
              IF currency = CNY THEN 0 ELSE HistoricalNative(rows),
              IF currency = CNY THEN 0 ELSE HistoricalCny(rows),
              RateFor(rates, currency, cutoff))

(* The overview adds up the rows that have a rate. *)
Overview(rows, invested) ==
    LET rated == {row \in rows : row.rate # NoRate}
        assets == Total(rated, LAMBDA row : row.value)
        investment == Total(rated, LAMBDA row : row.investment)
    IN  [by_currency |-> rows,
         assets      |-> assets,
         investment  |-> investment,
         pnl         |-> assets - invested,
         fx          |-> assets - invested - investment]

Performance(user, cutoff) ==
    LET valued == ValuedAssets(user, cutoff)
    IN  Overview({CurrencyRow(user, c, cutoff, valued) : c \in ReportedCurrencies(user, valued)},
                 NetInvested(user))

(* Mutated form: an asset that its snapshot keeps open counts as closed.   *)
ClosedByLedger(user, asset, cutoff) == Quantity(Own(user), asset) = 0

(* An asset whose quantity is zero, unless it was oversold and a snapshot  *)
(* still shows some of it.                                                 *)
Closed(user, asset, cutoff) ==
    /\ Quantity(Own(user), asset) = 0
    /\ LET rows == Qualifying(user, asset, cutoff, 0, RawQuantity(Own(user), asset))
       IN  rows # {} => ~(/\ RawQuantity(Own(user), asset) < 0
                          /\ Positive(Newest(rows)))

(* The priced purchases (sign 1) or sales (sign -1) of an asset.           *)
Trades(user, asset, cutoff, sign) ==
    SelectSeq(AssetEntries(OwnUpTo(user, cutoff), asset),
              LAMBDA x : x.amount # NoBasis /\ x.quantity * sign > 0)

Traded(user, asset, cutoff, sign) ==
    FoldLeft(LAMBDA sum, x : sum + x.amount, 0, Trades(user, asset, cutoff, sign))

(* _closed_amount_valued_realized_investment_pnl: the assets it lists and   *)
(* what each of them brought, in its currency. A sale for nothing is a sale, *)
(* a purchase for nothing is passed over.                                  *)
RealizedAssets(user, cutoff) ==
    {a \in Assets : /\ AmountValued(a) /\ Closed(user, a, cutoff)
                    /\ Trades(user, a, cutoff, -1) # <<>> /\ Traded(user, a, cutoff, 1) # 0
                    /\ RateFor(rates, CurrencyOf[a], cutoff) # NoRate}

Realized(user, asset, cutoff) ==
    Traded(user, asset, cutoff, -1) - Traded(user, asset, cutoff, 1)
-----------------------------------------------------------------------------
(* AuditService.                                                           *)

(* Mutated form: an event at the cutoff is left out. *)
CashBefore(user, currency, cutoff) ==
    Balance(InCurrency(CashRows({e \in Own(user) : events[e].time < cutoff}), currency))

(* get_cash_breakdown: the running balance after the last listed entry. *)
CashBreakdown(user, currency, cutoff) ==
    Balance(InCurrency(CashRows(OwnUpTo(user, cutoff)), currency))

(* get_asset_breakdown: quantities up to the cutoff, no raw quantities.     *)
AuditedAssets(user, currency, cutoff) ==
    {a \in Assets : CurrencyOf[a] = currency /\ Quantity(OwnUpTo(user, cutoff), a) # 0}

AssetBreakdown(user, currency, cutoff) ==
    LET quantity(a) == Quantity(OwnUpTo(user, cutoff), a)
        worth(a) == LET rows == Qualifying(user, a, cutoff, quantity(a), 0)
                    IN  CASE rows # {} -> valuations[Newest(rows)].value
                          [] rows = {} /\ AmountValued(a) -> quantity(a)
                          [] OTHER -> 0
    IN  Total(AuditedAssets(user, currency, cutoff), worth)

(* generate_calculation_trail: the metrics again, from the breakdowns.      *)
Trail(row, historicalCny, currency) ==
    LET assets == row.cash + row.assets
        investment == IF currency = CNY THEN 0 ELSE InCny(assets - row.native, row.rate)
    IN  IF row.rate = NoRate THEN <<>>
        ELSE [value      |-> InCny(assets, row.rate),
              investment |-> investment,
              fx         |-> IF currency = CNY THEN 0
                             ELSE (InCny(assets, row.rate) - historicalCny) - investment]

AuditedCurrency(user, row, cutoff) ==
    LET currency == row.currency
        rows == OwnCash(user, currency)
    IN  [currency   |-> currency,
         status     |-> IF row.rate = NoRate THEN "INCOMPLETE" ELSE "COMPLETE",
         cash       |-> CashBreakdown(user, currency, cutoff),
         assets     |-> AssetBreakdown(user, currency, cutoff),
         native     |-> HistoricalNative(rows),
         trail      |-> Trail(row, HistoricalCny(rows), currency),
         performance |-> row]

GenerateAudit(user, cutoff) ==
    {AuditedCurrency(user, row, cutoff) : row \in Performance(user, cutoff).by_currency}

(* get_attribution_diagnostics: the status of every asset with an entry,    *)
(* and the gaps listed beside them.                                        *)
StatusOf(asset, user) ==
    IF CurrencyOf[asset] = CNY THEN "NOT_APPLICABLE" ELSE ComputeStatus(asset, user)

Diagnostics(user) ==
    LET assets == {x.asset : x \in UNION {ToSet(events[e].assets) : e \in Own(user)}}
    IN  [products |-> [a \in assets |-> StatusOf(a, user)],
         gaps     |-> Where(books.gaps, LAMBDA g : g.user = user),
         missing  |-> Where(books.lots, LAMBDA l : l.user = user /\ l.status = "BASIS_MISSING")]
-----------------------------------------------------------------------------
(* generate_correction_suggestions: the rows it asks the reader to review   *)
(* when the asset value of a currency is not what was expected.            *)

(* Mutated form: the snapshots are left out of the join. *)
EntriesOnly(user, currency) ==
    {<<"asset", e>> : e \in {d \in Own(user) :
        \E x \in ToSet(events[d].assets) : CurrencyOf[x.asset] = currency}}

(* Snapshots are joined to the entries: an asset without one has neither.   *)
AssetRecords(user, currency) ==
    LET traded == {x.asset : x \in UNION {ToSet(events[e].assets) : e \in Own(user)}}
    IN  EntriesOnly(user, currency)
        \cup {<<"valuation", v>> : v \in {w \in DOMAIN valuations :
                /\ valuations[w].user = user
                /\ valuations[w].asset \in traded
                /\ CurrencyOf[valuations[w].asset] = currency}}
-----------------------------------------------------------------------------
(* Requests.                                                               *)

ReportsInit == Init /\ valuations = <<>> /\ rates = <<>>

RecordEvent == Create /\ UNCHANGED <<valuations, rates>>

(* create_valuation *)
CreateValuation(user, body) ==
    /\ NextId(valuations) <= MaxValuations
    /\ valuations' = Insert(valuations,
           [user |-> user, asset |-> body.asset, time |-> body.time, quantity |-> body.quantity,
            value |-> body.value, currency |-> body.currency, rate |-> body.rate,
            estimated |-> body.estimated])
    /\ UNCHANGED <<events, books, rates>>

RecordValuation == \E u \in Users, body \in Snapshots : CreateValuation(u, body)

(* refresh_rates for one currency: the tool's answer becomes a row. *)
RecordRate(row) ==
    /\ NextId(rates) <= MaxRates
    /\ rates' = Insert(rates, row)
    /\ UNCHANGED <<events, books, valuations>>

RefreshRate == \E row \in RateRows : RecordRate(row)

ReportsNext == RecordEvent \/ RecordValuation \/ RefreshRate

ReportsSpec == ReportsInit /\ [][ReportsNext]_reportVars
-----------------------------------------------------------------------------
Foreign(user) == {CashAt(r).currency : r \in CashRows(Own(user))} \ {CNY}

InOwnCurrency == \A v \in DOMAIN valuations : valuations[v].currency = CurrencyOf[valuations[v].asset]

(* The audit explains the performance report: its breakdowns, which read    *)
(* the tables again up to the cutoff and without the raw quantities, add   *)
(* up to the row they are shown beside once the cutoff is past every       *)
(* event, unless an asset was oversold; its calculation trail arrives at   *)
(* the row's own results at every cutoff.                                  *)
AuditReconciles ==
    \A u \in Users, cutoff \in Times :
       LET settled == /\ \A e \in Own(u) : events[e].time <= cutoff
                      /\ InOwnCurrency /\ \A a \in Assets : ~Oversold(u, a)
       IN  \A audit \in {x \in GenerateAudit(u, cutoff) : x.currency # CNY} :
              LET row == audit.performance
              IN  /\ audit.status = "COMPLETE" =>
                        \A m \in {"value", "investment", "fx"} : audit.trail[m] = row[m]
                  /\ settled => /\ audit.cash = row.cash
                                /\ audit.assets = row.assets
                                /\ audit.native = row.native

OfCurrency(entries, currency) == Chosen(entries, {x \in ToSet(entries) : x.currency = currency})

SumOf(entries, val(_)) == FoldLeft(LAMBDA sum, x : sum + val(x), 0, entries)

(* The legs of a confirmed event are what its handler looks at. *)
LegsHandled(ev) ==
    /\ ev.status = "CONFIRMED"
    /\ CASE ev.type = "FX_SELL" -> Inflows(ev.cash) = <<>>
         [] ev.type = "FX_SWAP" -> Len(Inflows(ev.cash)) = 1 /\ Len(Outflows(ev.cash)) = 1
         [] ev.type \in Purchases ->
               /\ Inflows(ev.cash) = <<>>
               /\ \A c \in {x.currency : x \in ToSet(ev.cash) \cup ToSet(ev.assets)} \ {CNY} :
                     SumOf(OfCurrency(Outflows(ev.cash), c), LAMBDA x : x.delta)
                        = -SumOf(OfCurrency(Purchased(ev), c), LAMBDA x : x.amount)
         [] ev.type \in Returns \cup {"FX_BUY", "MANUAL_ADJUSTMENT"} -> Outflows(ev.cash) = <<>>
         [] OTHER -> Inflows(ev.cash) = <<>> /\ Outflows(ev.cash) = <<>>

(* The two books agree: the cash balance that is reported, a sum over the   *)
(* ledger, is what the funding lots still hold less what the gaps say was  *)
(* spent without one, in whatever order the events were dated, as long as  *)
(* no event moves cash that its handler passes over.                       *)
BalancesBackedByLots ==
    \A u \in Users : (\A e \in Own(u) : LegsHandled(events[e])) =>
       \A c \in Foreign(u) :
          Balance(OwnCash(u, c)) =
              Total(Where(books.lots, LAMBDA l : l.user = u /\ l.currency = c),
                    LAMBDA l : books.lots[l].remaining_amount)
            - Total(Where(books.gaps, LAMBDA g : g.user = u /\ g.currency = c),
                    LAMBDA g : books.gaps[g].shortfall)

NativeGain(user, currency) ==
    Balance(OwnCash(user, currency)) + AssetValue(ValuedAssets(user, Latest), currency)
        - HistoricalNative(OwnCash(user, currency))

AtParTypes == Purchases \cup {"FUND_SELL", "WEALTH_REDEEM", "BOND_SELL", "BOND_REDEMPTION"}

(* Cash against as many units of an amount-valued asset. *)
AtPar(ev) ==
    /\ ev.type \in AtParTypes /\ Len(ev.assets) = 1 /\ Len(ev.cash) = 1
    /\ AmountValued(ev.assets[1].asset)
    /\ ev.cash[1].currency = CurrencyOf[ev.assets[1].asset]
    /\ ev.cash[1].delta = -ev.assets[1].quantity

NeverShort(user, asset) == Quantity(Own(user), asset) = RawQuantity(Own(user), asset)

(* Buying an amount-valued asset, and redeeming it at par, moves money from *)
(* one line to another: no investment gain appears or disappears in any    *)
(* currency, at any date it is recorded for, while the asset has no        *)
(* snapshot and was at no date sold short.                                 *)
PurchasesAreNotGains ==
    [][\A u \in Users, a \in Assets :
          LET e == NextId(events)
          IN  (/\ e \in DOMAIN events' /\ events'[e].user = u /\ AtPar(events'[e])
               /\ events'[e].assets[1].asset = a
               /\ SnapshotsOf(u, a, Latest) = {}
               /\ NeverShort(u, a) /\ NeverShort(u, a)')
              => \A c \in {CurrencyOf[b] : b \in Assets} :
                    NativeGain(u, c)' = NativeGain(u, c)]_reportVars

(* What an event brought into the pools in RMB came from outside. *)
Balanced(ev) ==
    LET pool == Chosen(ev.cash, {c \in ToSet(ev.cash) : /\ c.currency # CNY
                                                       /\ ev.type \in InvestmentPoolEvents})
        outside == Chosen(ev.cash, {c \in ToSet(ev.cash) : c.currency = CNY /\ c.external})
    IN  SumOf(pool, SignedRmb) + SumOf(outside, LAMBDA c : c.delta) = 0

(* The overview's exchange-rate gain, which is what remains of the total,   *)
(* is the sum of the currencies' own, computed row by row from other       *)
(* columns: when every currency has a rate, nothing is held in CNY and     *)
(* every exchange was recorded with the RMB it moved.                      *)
OverviewAddsUp ==
    \A u \in Users, cutoff \in Times :
       LET report == Performance(u, cutoff)
           rows == report.by_currency
       IN  (/\ \A row \in rows : row.rate # NoRate /\ (row.currency = CNY => row.value = 0)
            /\ \A e \in Own(u) : Balanced(events[e]))
           => report.fx = Total(rows, LAMBDA row : row.fx)

(* A reader who follows the audit's hints finds the cause: each snapshot a  *)
(* currency's asset value was taken from is among the records suggested    *)
(* for it, and an asset that was bought and is diagnosed as INCOMPLETE has *)
(* a gap among the gaps listed, unless another user's gap names it too:    *)
(* the status counts everybody's, the list shows the user's own.           *)
SuggestionsNameTheCause ==
    \A u \in Users, a \in Assets :
       /\ \A cutoff \in Times :
             LET rows == Qualifying(u, a, cutoff, Quantity(Own(u), a), RawQuantity(Own(u), a))
             IN  rows # {} => <<"valuation", Newest(rows)>> \in AssetRecords(u, CurrencyOf[a])
       /\ LET diagnosed == Diagnostics(u)
              bought == {e \in Own(u) : /\ events[e].status = "CONFIRMED" /\ events[e].type \in Purchases
                                        /\ \E x \in ToSet(Purchased(events[e])) : x.asset = a}
              own == Where(books.gaps, LAMBDA g : g.asset = a) \subseteq diagnosed.gaps
          IN  (bought # {} /\ own /\ diagnosed.products[a] = "INCOMPLETE") =>
                 \E g \in diagnosed.gaps : books.gaps[g].asset = a
=============================================================================
