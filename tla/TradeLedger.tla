------------------------------ MODULE TradeLedger ------------------------------
(***************************************************************************)
(* The transaction ledger of one user: TransactionRepository with the      *)
(* portfolio events it derives, the history routes on transactions and     *)
(* events, holding snapshots (which may rename a product), the calculation *)
(* of positions, and the backups.                                          *)
(*                                                                         *)
(* What an event does to the funding books is FundingAttribution's; here   *)
(* an event is its ledger entries.  Quantities, prices and amounts are     *)
(* whole units.                                                            *)
(***************************************************************************)
EXTENDS Tables

CONSTANTS EditTimes,       \* the times an edit may set
          Trades,          \* the request bodies of POST /api/transactions
          Holdings,        \* the holdings of a bank's snapshot
          PrimaryRates,    \* what the primary exchange-rate source may answer
          MaxTransactions, \* bound: primary keys of transactions
          MaxLedger,       \* bound: primary keys of portfolio_events
          MaxProducts,     \* bound: primary keys of assets
          MaxChanges,      \* bound: edits, deletions, restores and merges
          UpperCase,       \* the codes that are not in upper case, and what upper() makes of them
          None             \* SQL NULL, and an empty cell

CNY == "CNY"

AssetTypes == {"CASH", "FOREX", "BOND", "FUND", "WEALTH_PRODUCT"}

(* What the request schema demands of a trade; a rate and a cost may be     *)
(* missing.                                                                *)
TradeRequest == [type : AssetTypes, code : STRING, direction : {"BUY", "SELL"},
                 quantity : Int, price : Int, currency : STRING,
                 rate : Int \cup {None}, cost : Int \cup {None}, time : Nat]

ASSUME TradesAssumption ==
    Trades \subseteq TradeRequest /\ EditTimes \subseteq Nat /\ PrimaryRates \subseteq Int

ASSUME UpperCaseAssumption ==
    /\ UpperCase \in [DOMAIN UpperCase -> STRING] /\ CNY \notin DOMAIN UpperCase
    /\ \A code \in DOMAIN UpperCase : UpperCase[code] \notin DOMAIN UpperCase

VARIABLES transactions,
          ledger,      \* portfolio_events with their entries
          products,    \* assets
          saved,       \* the newest backup file, which a restore names
          changes      \* how many edits, deletions, restores and merges there were

tradeVars == <<transactions, ledger, products, saved, changes>>
-----------------------------------------------------------------------------
(* Transactions and the events they imply.                                 *)

Signed(t) == IF t.direction = "BUY" THEN t.quantity ELSE -t.quantity

Upper(code) == IF code \in DOMAIN UpperCase THEN UpperCase[code] ELSE code

(* get_position_quantity, of all dates: the rows that are stored in upper  *)
(* case, since a code is stored as it was sent.                            *)
Held(table, code) ==
    SumFunctionOnSet([i \in DOMAIN table |-> Signed(table[i])],
                     Where(table, LAMBDA t : t.code = Upper(code)))

CashLeg(currency, delta, rmb, external) ==
    [currency |-> currency, delta |-> delta, rmb |-> rmb, external |-> external]

CostInCny(t) ==
    IF t.cost # None THEN t.cost
    ELSE t.quantity * t.price * (IF t.rate \in {None, 0} THEN 1 ELSE t.rate)

(* Mutated form: what a sale brought in is booked as paid out. *)
SalePaidOut(t) ==
    [type |-> IF t.direction = "BUY" THEN "FX_BUY" ELSE "FX_SELL", time |-> t.time, id |-> None,
     assets |-> <<>>,
     cash |-> <<CashLeg(t.code, t.quantity, CostInCny(t), FALSE),
                CashLeg(CNY, -CostInCny(t), CostInCny(t), TRUE)>>]

(* _create_compat_portfolio_event *)
CompatEvent(t) ==
    LET sign == IF t.direction = "BUY" THEN 1 ELSE -1
        own == CashLeg(Upper(t.code), sign * t.quantity, CostInCny(t), FALSE)
        other == IF Upper(t.currency) = CNY
                 THEN CashLeg(CNY, -sign * CostInCny(t), CostInCny(t), TRUE)
                 ELSE CashLeg(Upper(t.currency), -sign * t.quantity * t.price, CostInCny(t), FALSE)
    IN  [type |-> IF Upper(t.currency) # CNY THEN "FX_SWAP"
                  ELSE IF t.direction = "BUY" THEN "FX_BUY" ELSE "FX_SELL",
         time |-> t.time, id |-> None, assets |-> <<>>,
         cash |-> IF sign = 1 THEN <<other, own>> ELSE <<own, other>>]

(* _validate_transaction: the rows of the batch before t are flushed.  The  *)
(* clock is left out: no trade is dated in the future.                     *)
ValidTrade(table, t) ==
    /\ t.quantity > 0 /\ t.price > 0
    /\ t.direction = "SELL" => t.quantity <= Held(table, t.code)

(* Mutated form: a sale does not see the earlier rows of its batch.        *)
Unflushed(table, events, batch) ==
    FoldLeft(LAMBDA run, t :
                IF ~run.ok \/ ~ValidTrade(table, t) THEN [run EXCEPT !.ok = FALSE]
                ELSE [run EXCEPT !.transactions = Insert(@, t),
                                 !.ledger = IF t.type = "FOREX" THEN Insert(@, CompatEvent(t)) ELSE @],
             [ok |-> TRUE, transactions |-> table, ledger |-> events], batch)

(* create_transactions up to its commit: ok says that no row was refused. *)
CreateTransactions(table, events, batch) ==
    FoldLeft(LAMBDA run, t :
                IF ~run.ok \/ ~ValidTrade(run.transactions, t) THEN [run EXCEPT !.ok = FALSE]
                ELSE [run EXCEPT !.transactions = Insert(@, t),
                                 !.ledger = IF t.type = "FOREX" THEN Insert(@, CompatEvent(t)) ELSE @],
             [ok |-> TRUE, transactions |-> table, ledger |-> events], batch)
-----------------------------------------------------------------------------
(* Positions.                                                              *)

RateOf(t) == IF (t.type = "FOREX" /\ Upper(t.currency) = CNY) \/ t.rate \in {None, 0} THEN 1 ELSE t.rate

UnitCost(t) == t.price * RateOf(t)

(* Mutated form: a sale leaves the cost basis as it is. *)
KeepsCost(position, t) ==
    IF t.direction = "BUY"
    THEN [position EXCEPT !.quantity = @ + t.quantity, !.cost = @ + t.quantity * UnitCost(t) * position.per]
    ELSE [position EXCEPT !.quantity = @ - t.quantity, !.sound = @ /\ t.quantity <= position.quantity]

(* One transaction in PositionCalculatorTool: the cost basis is the fraction *)
(* cost / per; a sale takes its share at the average cost, and one of more  *)
(* than is held is an error.                                               *)
Averaged(position, t) ==
    LET q == position.quantity
    IN  CASE t.direction = "BUY" ->
               [position EXCEPT !.quantity = q + t.quantity,
                                !.cost = @ + t.quantity * UnitCost(t) * position.per]
          [] t.direction = "SELL" /\ t.quantity > q -> [position EXCEPT !.sound = FALSE]
          [] t.direction = "SELL" /\ t.quantity = q ->
               [position EXCEPT !.quantity = 0, !.cost = 0, !.per = 1]
          [] OTHER -> [position EXCEPT !.quantity = q - t.quantity,
                                       !.cost = @ * (q - t.quantity), !.per = @ * q]

Calculated(table, ids) ==
    FoldLeft(LAMBDA position, i : IF position.sound THEN Averaged(position, table[i]) ELSE position,
             [quantity |-> 0, cost |-> 0, per |-> 1, sound |-> TRUE], InTimeOrder(table, ids))

OfAsset(table, key) == Where(table, LAMBDA t : <<t.type, t.code>> = key)

(* build_positions: an asset whose calculation fails has none. *)
BuildPositions(table) ==
    LET keys == {<<table[i].type, table[i].code>> : i \in DOMAIN table}
        result == [k \in keys |-> Calculated(table, OfAsset(table, k))]
    IN  Restrict(result, {k \in keys : result[k].sound})
-----------------------------------------------------------------------------
(* Backups.  Of the six tables a backup holds, the transactions are modelled. *)

BackedUp == saved' = transactions'

Change == changes < MaxChanges /\ changes' = changes + 1

(* restore_backup: whatever is not in the file stays as it is. *)
Restore ==
    /\ Change
    /\ transactions' = saved
    /\ UNCHANGED <<ledger, products, saved>>
-----------------------------------------------------------------------------
(* Requests.                                                               *)

TradeInit ==
    /\ transactions = <<>> /\ ledger = <<>> /\ products = <<>> /\ saved = <<>>
    /\ changes = 0

WithinBounds ==
    /\ DOMAIN transactions' \subseteq 1 .. MaxTransactions
    /\ DOMAIN ledger' \subseteq 1 .. MaxLedger
    /\ DOMAIN products' \subseteq 1 .. MaxProducts

(* POST /api/transactions *)
Trade(body) ==
    LET run == CreateTransactions(transactions, ledger, <<body>>)
    IN  /\ run.ok
        /\ transactions' = run.transactions
        /\ ledger' = run.ledger
        /\ UNCHANGED <<products, changes>>
        /\ WithinBounds
        /\ BackedUp

(* DELETE and PATCH of a history record touch the one row. *)
DeleteTransaction(i) ==
    /\ Change
    /\ transactions' = Without(transactions, {i})
    /\ UNCHANGED <<ledger, products, saved>>

DeleteEvent(e) ==
    /\ Change
    /\ ledger' = Without(ledger, {e})
    /\ UNCHANGED <<transactions, products, saved>>

EditTransaction(i, time) ==
    /\ Change
    /\ transactions' = [transactions EXCEPT ![i].time = time]
    /\ UNCHANGED <<ledger, products, saved>>

EditEvent(e, time) ==
    /\ Change
    /\ ledger' = [ledger EXCEPT ![e].time = time]
    /\ UNCHANGED <<transactions, products, saved>>

(* update_historical_rate of a transaction: its event keeps the old price. *)
RerateTransaction(i, rate) ==
    /\ Change
    /\ Upper(transactions[i].currency) = CNY
    /\ transactions' = [transactions EXCEPT ![i].price = rate, ![i].rate = 1,
                                            ![i].cost = transactions[i].quantity * rate]
    /\ UNCHANGED <<ledger, products, saved>>
-----------------------------------------------------------------------------
(* Products and the bank's holdings.  A code is <<kind, type, name>>: given *)
(* by the bank, by the fund registry, or a digest of type and name.        *)

WithCode(type, code) == Where(products, LAMBDA p : p.type = type /\ p.code = code)

WithName(name) == Where(products, LAMBDA p : p.type = "WEALTH_PRODUCT" /\ p.name = name)

(* ensure_asset *)
Ensured(table, product) ==
    IF \E p \in DOMAIN table : table[p].type = product.type /\ table[p].code = product.code
    THEN table ELSE Insert(table, product)

(* import_wealth_position_snapshot for one holding: a product known by name  *)
(* only takes the bank's code in place of its digest; two of that name are *)
(* an error.                                                               *)
RecordHolding(holding) ==
    LET named == WithName(holding.name)
        known == WithCode("WEALTH_PRODUCT", holding.code) # {}
        digests == {p \in named : products[p].code[1] = "digest"}
    IN  /\ known \/ Cardinality(named) <= 1
        /\ products' = CASE known -> products
                         [] ~known /\ named = {} ->
                               Insert(products, [type |-> "WEALTH_PRODUCT", code |-> holding.code,
                                                 name |-> holding.name])
                         [] OTHER -> [p \in DOMAIN products |->
                                        IF p \in digests THEN [products[p] EXCEPT !.code = holding.code]
                                        ELSE products[p]]
        /\ UNCHANGED <<transactions, ledger, saved, changes>>
        /\ WithinBounds

TradeNext ==
    \/ \E body \in Trades : Trade(body)
    \/ \E i \in DOMAIN transactions :
          \/ DeleteTransaction(i)
          \/ \E time \in EditTimes : EditTransaction(i, time)
          \/ \E rate \in PrimaryRates : RerateTransaction(i, rate)
    \/ \E e \in DOMAIN ledger : DeleteEvent(e) \/ \E time \in EditTimes : EditEvent(e, time)
    \/ \E holding \in Holdings : RecordHolding(holding)
    \/ Restore
-----------------------------------------------------------------------------
BuyPrices(key) ==
    {UnitCost(transactions[i]) : i \in {j \in OfAsset(transactions, key) :
        transactions[j].direction = "BUY"}}

(* The cost of what is left of an asset lies between the cheapest and the   *)
(* dearest purchase of it, whatever was sold in between, in whatever order *)
(* the trades were recorded, edited, re-rated, deleted or restored.        *)
AverageWithinPrices ==
    LET built == BuildPositions(transactions)
    IN  \A k \in DOMAIN built :
           LET position == built[k]
               units == position.quantity * position.per
           IN  position.quantity > 0 =>
                  /\ \E price \in BuyPrices(k) : price * units <= position.cost
                  /\ \E price \in BuyPrices(k) : position.cost <= price * units
=============================================================================
