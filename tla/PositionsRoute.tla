----------------------------- MODULE PositionsRoute -----------------------------
(***************************************************************************)
(* The positions route, which values cash and assets on its own: from the  *)
(* same tables as PerformanceService, with its own choice of snapshots,    *)
(* rates and costs.  NoBasis stands for every number that is left out.     *)
(***************************************************************************)
EXTENDS Reports

Known(x) == x # NoBasis

Minus(x, y) == IF Known(x) /\ Known(y) THEN x - y ELSE NoBasis

Times2(x, rate) == IF Known(x) /\ rate # NoRate THEN InCny(x, rate) ELSE NoBasis

(* The lots of a currency that still hold something. *)
OpenLots(user, currency) ==
    Where(books.lots, LAMBDA l : /\ l.user = user /\ l.currency = currency
                                 /\ l.remaining_amount > 0)

(* Mutated form: spent lots count with what they once cost. *)
OriginalCost(user, currency) ==
    LET lots == Where(books.lots, LAMBDA l : l.user = user /\ l.currency = currency)
    IN  IF lots = {} \/ \E l \in lots : ~Known(books.lots[l].original_basis) THEN NoBasis
        ELSE Total(lots, LAMBDA l : books.lots[l].original_basis)

CashCost(user, currency) ==
    LET lots == OpenLots(user, currency)
    IN  IF lots = {} \/ \E l \in lots : ~Known(books.lots[l].remaining_basis) THEN NoBasis
        ELSE Total(lots, LAMBDA l : books.lots[l].remaining_basis)

(* _build_cash_positions: the pnl of foreign cash is all exchange rate. *)
CashPosition(user, currency, cutoff) ==
    LET rate == LatestRate(rates, currency, cutoff)
        value == Times2(Balance(OwnCash(user, currency)), rate)
        pnl == Minus(value, CashCost(user, currency))
        zero == IF Known(pnl) THEN 0 ELSE NoBasis
    IN  [currency |-> currency, value |-> value, cost |-> CashCost(user, currency), pnl |-> pnl,
         investment |-> IF currency = CNY THEN pnl ELSE zero,
         fx |-> IF currency = CNY THEN zero ELSE pnl,
         status |-> IF rate = NoRate THEN "RATE_MISSING" ELSE "OK"]

CashPositions(user, cutoff) ==
    {CashPosition(user, c, cutoff) : c \in
        {d \in {CashAt(r).currency : r \in CashRows(Own(user))} : Balance(OwnCash(user, d)) # 0}}

(* What the ledger says an asset cost, in its currency and at the rates of  *)
(* its entries: a reduction of nothing still takes its amount off.          *)
LedgerCost(user, asset) ==
    LET turn(run, x) ==
            LET next == AddQuantity(asset, run.quantity, x.quantity)
                amount == IF x.amount = NoBasis THEN 0
                          ELSE IF next > run.quantity THEN x.amount ELSE -x.amount
                rated == x.amount # NoBasis /\ x.rate # NoBasis
            IN  [quantity |-> next,
                 native |-> run.native + amount,
                 cny |-> IF ~rated THEN run.cny
                         ELSE (IF Known(run.cny) THEN run.cny ELSE 0) + amount * x.rate]
    IN  FoldLeft(turn, [quantity |-> 0, native |-> 0, cny |-> NoBasis],
                 AssetEntries(Own(user), asset))

Attributed(user, asset) ==
    Where(books.attributions, LAMBDA a : a.target_asset = asset /\ events[a.target_event].user = user)

(* The attributed cost once there is an attribution, else the ledger's. *)
AssetCost(user, asset) ==
    LET rows == Attributed(user, asset)
    IN  IF rows = {} THEN LedgerCost(user, asset).cny
        ELSE Total(rows, LAMBDA a : books.attributions[a].rmb_basis)

NativeCost(user, asset) ==
    LET rows == Attributed(user, asset)
    IN  IF rows = {} THEN LedgerCost(user, asset).native
        ELSE Total(rows, LAMBDA a : books.attributions[a].native_amount)

(* Which assets have a line. *)
Shown(user, asset, cutoff) ==
    LET rows == SnapshotsOf(user, asset, cutoff)
    IN  \/ Quantity(Own(user), asset) # 0
        \/ Oversold(user, asset) /\ rows # {} /\ Positive(Newest(rows))

(* The line of one asset, from its snapshots and what it cost. *)
AssetLine(asset, rows, native, rate, nativeCost, cost) ==
    LET value == Times2(native, rate)
        split == AmountValued(asset) /\ CurrencyOf[asset] # CNY /\ rate # NoRate /\ nativeCost # 0
        earned == InCny(native - nativeCost, rate)
        gain == Minus(value, cost)
        pnl == IF split /\ ~Known(gain) THEN earned ELSE gain
    IN  [asset |-> asset, native |-> native, rate |-> rate, value |-> value,
         cost |-> cost, pnl |-> pnl,
         investment |-> IF split THEN earned ELSE pnl,
         fx |-> IF split THEN pnl - earned ELSE IF Known(pnl) THEN 0 ELSE NoBasis,
         status |-> IF ~Known(native) THEN "VALUATION_MISSING"
                    ELSE IF rate = NoRate THEN "RATE_MISSING"
                    ELSE IF rows # {} /\ valuations[Newest(rows)].estimated THEN "ESTIMATED"
                    ELSE "OK"]

(* _build_asset_positions for one asset. *)
AssetPosition(user, asset, cutoff) ==
    LET rows == SnapshotsOf(user, asset, cutoff)
        snapshot == valuations[Newest(rows)]
        native == IF rows # {} THEN snapshot.value
                  ELSE IF AmountValued(asset) THEN Quantity(Own(user), asset) ELSE NoBasis
        rate == IF rows = {} THEN LatestRate(rates, CurrencyOf[asset], cutoff)
                ELSE IF snapshot.rate # NoBasis THEN snapshot.rate
                ELSE LatestRate(rates, snapshot.currency, cutoff)
    IN  AssetLine(asset, rows, native, rate, NativeCost(user, asset), AssetCost(user, asset))

AssetPositions(user, cutoff) ==
    {AssetPosition(user, a, cutoff) : a \in {b \in Assets : Shown(user, b, cutoff)}}

(* PerformanceCalculator.get_native_cost_basis: without attributions, the   *)
(* ledger by the sign of each entry, not by what it left.                  *)
NativeBasis(user, asset) ==
    IF Attributed(user, asset) # {} THEN NativeCost(user, asset)
    ELSE FoldLeft(LAMBDA sum, x : IF x.amount = NoBasis THEN sum
                                  ELSE IF x.quantity > 0 THEN sum + x.amount ELSE sum - x.amount,
                  0, AssetEntries(Own(user), asset))

(* compute_product_performance, at a value and a rate the caller gives. *)
ProductPerformance(user, asset, value, rate) ==
    LET complete == Attributed(user, asset) # {} /\ StatusOf(asset, user) = "COMPLETE"
        investment == InCny(value - NativeBasis(user, asset), rate)
        pnl == IF complete THEN InCny(value, rate) - AssetCost(user, asset) ELSE NoBasis
    IN  [pnl |-> pnl, investment |-> investment,
         fx |-> IF complete THEN pnl - investment ELSE NoBasis]

(* _build_position_totals adds up what is known. *)
KnownTotal(positions, val(_)) == Total({p \in positions : Known(val(p))}, val)

Totals(cash, assets) ==
    LET sum(val(_)) == KnownTotal(cash, val) + KnownTotal(assets, val)
    IN  [value |-> sum(LAMBDA p : p.value),
         cost |-> sum(LAMBDA p : p.cost),
         pnl |-> sum(LAMBDA p : p.pnl),
         investment |-> sum(LAMBDA p : p.investment),
         fx |-> sum(LAMBDA p : p.fx)]

PositionTotals(user, cutoff) == Totals(CashPositions(user, cutoff), AssetPositions(user, cutoff))
-----------------------------------------------------------------------------
UntiedRates ==
    \A i, j \in DOMAIN rates :
       i # j => rates[i].currency # rates[j].currency \/ rates[i].time # rates[j].time

(* The newest snapshot says that nothing is left, an older one did not. *)
Emptied(user, asset) ==
    LET rows == SnapshotsOf(user, asset, Latest)
    IN  Oversold(user, asset) /\ rows # {} /\ ~Positive(Newest(rows))

(* The product calculator and the line of a fully attributed asset: the     *)
(* page splits the gain of amount-valued assets only.                      *)
LinesAgree(user) ==
    \A line \in AssetPositions(user, Latest) :
       (line.native # NoBasis /\ line.rate # NoRate) =>
          LET product == ProductPerformance(user, line.asset, line.native, line.rate)
              split == AmountValued(line.asset) /\ NativeCost(user, line.asset) # 0
          IN  Known(product.pnl) =>
                 /\ line.pnl = product.pnl
                 /\ split => line.investment = product.investment /\ line.fx = product.fx

(* The positions page, the performance report and the product calculator,   *)
(* which each add up the tables on their own, agree: the page and the      *)
(* report arrive at the same total of assets (unless two rates have one    *)
(* date, a snapshot brings its own rate, or the last snapshot of an        *)
(* oversold asset is empty), and the page and the calculator arrive at the *)
(* same gain of a COMPLETE asset, and split an amount-valued one's alike.  *)
SurfacesAgree ==
    \A u \in Users :
       /\ (/\ UntiedRates /\ \A v \in DOMAIN valuations : valuations[v].rate = NoBasis
           /\ \A a \in Assets : ~Emptied(u, a))
          => PositionTotals(u, Latest).value = Performance(u, Latest).assets
       /\ LinesAgree(u)

(* What is reported as realized is not reported as held: an asset in the    *)
(* realized list has no value in the same report and no line among the     *)
(* positions.                                                              *)
RealizedNotHeld ==
    \A u \in Users, cutoff \in Times : \A a \in RealizedAssets(u, cutoff) :
       Valued(u, a, cutoff) = <<>> /\ ~Shown(u, a, cutoff)

TradeTypes == {"FX_BUY", "FX_SELL", "FX_SWAP", "FUND_SELL", "WEALTH_REDEEM"} \cup Purchases

(* No yuan is shown as the cost of two positions: the costs of cash and     *)
(* assets, which come from lots, attributions or the ledger, are together  *)
(* at most what was paid in, while every origin is known and every trade   *)
(* is confirmed.                                                           *)
NoCostShownTwice ==
    (OriginsKnown /\ \A e \in DOMAIN events : /\ events[e].status = "CONFIRMED"
                                             /\ events[e].type \in TradeTypes) =>
       \A u \in Users :
          PositionTotals(u, Latest).cost
             <= Total(Where(books.lots, LAMBDA l : l.user = u), PaidIn)
=============================================================================
