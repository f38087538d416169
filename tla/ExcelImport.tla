------------------------------ MODULE ExcelImport ------------------------------
(***************************************************************************)
(* ExcelImportPreviewService: the rows of a workbook become transactions   *)
(* and events, unless the ledger already has them.  One import commits its *)
(* transactions before its events; when the first commit's backup fails,   *)
(* the events are not stored and the user sends the file again.            *)
(*                                                                         *)
(* The service is built without its options, as both of its callers do: no *)
(* exchange rate is looked up, so a row without its CNY amount fails.  A   *)
(* cell is a value or None; its parsing and the rounding of prices are     *)
(* left out.  Also here: the two maintenance scripts for imported rows.    *)
(***************************************************************************)
EXTENDS TradeLedger

CONSTANTS Workbooks,   \* sequences of sheet rows
          Registered   \* the product names of FUND_REGISTRY

(* What the parsing of a sheet row yields: currencies in upper case, by     *)
(* _normalize_currency; an amount may have any sign.                       *)
Normalized == {code \in STRING : Upper(code) = code}

SheetRow == [category : {None} \cup STRING, sell : {None} \cup Normalized, sold : {None} \cup Int,
             buy : {None} \cup Normalized, bought : {None} \cup Int, name : STRING,
             wealthy : BOOLEAN, dividend : BOOLEAN, units : {None} \cup Int,
             id : {None} \cup Int, time : {None} \cup Nat]

ASSUME WorkbooksAssumption == Workbooks \subseteq Seq(SheetRow)

Amount(cell) == cell \notin {None, 0}
-----------------------------------------------------------------------------
(* _build_row_preview: a row of the sheet becomes what is to be stored.     *)

Failed == [kind |-> "failed"]

TransactionRow(body) == [kind |-> "transaction", body |-> body]

EventRow(row, type, cash, assets) ==
    [kind |-> "event",
     body |-> [type |-> type, time |-> row.time, id |-> row.id, cash |-> cash, assets |-> assets]]

Leg(currency, delta) == CashLeg(currency, delta, None, FALSE)

(* _build_forex_transaction_preview; a currency against another than CNY is *)
(* a swap event.                                                           *)
ForexRow(row) ==
    LET buying == row.buy \notin {None, CNY}
        code == IF buying THEN row.buy ELSE row.sell
        own == IF buying THEN row.bought ELSE row.sold
        against == IF buying THEN row.sell ELSE row.buy
        paid == IF buying THEN row.sold ELSE row.bought
    IN  IF code \in {None, CNY} \/ ~Amount(own) \/ against = None \/ paid = None THEN Failed
        ELSE IF against = CNY
        THEN TransactionRow([type |-> "FOREX", code |-> code, quantity |-> own,
                             direction |-> IF buying THEN "BUY" ELSE "SELL",
                             price |-> paid \div own, currency |-> CNY, rate |-> 1,
                             cost |-> paid, time |-> row.time])
        ELSE EventRow(row, "FX_SWAP", <<Leg(against, -paid), Leg(code, own)>>, <<>>)

(* _asset_payload *)
ProductOf(type, name) ==
    [type |-> type, name |-> name,
     code |-> IF type = "FUND" /\ name \in Registered THEN <<"registry", type, name>>
              ELSE <<"digest", type, name>>]

(* A redemption without a quantity of its own gives up as many units as it  *)
(* brought in; explicit is _quantity_source, which is not stored.          *)
AssetLeg(product, quantity, amount, explicit) ==
    [product |-> product, quantity |-> quantity, amount |-> amount, explicit |-> explicit]

(* _build_asset_event_preview *)
AssetRow(row, type) ==
    LET product == ProductOf(type, row.name)
        units == IF Amount(row.units) THEN row.units ELSE row.bought
    IN  CASE row.sell # None /\ Amount(row.sold) ->
               EventRow(row, IF type = "FUND" THEN "FUND_BUY" ELSE "WEALTH_BUY",
                        <<Leg(row.sell, -row.sold)>>, <<AssetLeg(product, row.sold, row.sold, FALSE)>>)
          [] ~(row.sell # None /\ Amount(row.sold)) /\ row.buy # None /\ Amount(row.bought) ->
               IF type = "FUND" /\ row.dividend
               THEN EventRow(row, "FUND_DIVIDEND", <<Leg(row.buy, row.bought)>>, <<>>)
               ELSE EventRow(row, IF type = "FUND" THEN "FUND_SELL" ELSE "WEALTH_REDEEM",
                             <<Leg(row.buy, row.bought)>>,
                             <<AssetLeg(product, -units, row.bought, Amount(row.units))>>)
          [] OTHER -> Failed

(* _build_cash_income_event_preview *)
IncomeRow(row) ==
    IF row.buy = None \/ ~Amount(row.bought) THEN Failed
    ELSE EventRow(row, "INTEREST_INCOME", <<Leg(row.buy, row.bought)>>, <<>>)

BuildRow(row) ==
    CASE row.time = None -> Failed
      [] row.time # None /\ row.category = "FOREX" -> ForexRow(row)
      [] row.time # None /\ row.category = "INTEREST" -> IncomeRow(row)
      [] row.time # None /\ row.category = "DEPOSIT" -> AssetRow(row, "WEALTH_PRODUCT")
      [] row.time # None /\ row.category \in {"FUND", "WEALTH_PRODUCT"} ->
            AssetRow(row, IF row.wealthy THEN "WEALTH_PRODUCT" ELSE row.category)
      [] OTHER -> Failed

(* preview_forex_transactions without the failed rows, by time.  Nothing is *)
(* ever pending: a row with a warning has lost a required field as well.   *)
Preview(workbook) ==
    LET built == [n \in DOMAIN workbook |-> BuildRow(workbook[n])]
        good == {n \in DOMAIN built : built[n].kind # "failed"}
        order == InTimeOrder([n \in good |-> built[n].body], good)
    IN  [k \in DOMAIN order |-> built[order[k]]]

Previews == [w \in Workbooks |-> Preview(w)]
Selected(workbook) == Previews[workbook]

Events(workbook) == SelectSeq(Selected(workbook), LAMBDA r : r.kind = "event")
-----------------------------------------------------------------------------
(* Recognising what is stored.                                             *)

Counted(seq) == [x \in ToSet(seq) |-> Cardinality({n \in DOMAIN seq : seq[n] = x})]

Map(seq, Op(_)) == [n \in DOMAIN seq |-> Op(seq[n])]

(* _transaction_duplicate_key *)
TransactionKey(t) ==
    <<t.type, Upper(t.code), t.direction, t.time, t.quantity, t.price, Upper(t.currency), t.cost>>

(* _event_payload_from_model: the products by their present codes. *)
Payload(table, e) ==
    [table[e] EXCEPT !.assets =
        Map(@, LAMBDA x : AssetLeg(products[x.asset], x.quantity, x.amount, FALSE))]

(* _event_duplicate_key; the unit price follows from quantity and amount. *)
EventKey(event) ==
    <<event.type, event.time, Counted(event.cash),
      Counted(Map(event.assets, LAMBDA x :
                    <<x.product.type, x.product.code, x.quantity, x.amount>>))>>

(* _event_supplement_key *)
SupplementKey(event) ==
    <<event.type, event.time, Counted(event.cash),
      Counted(Map(event.assets, LAMBDA x : <<x.product.type, x.product.code, x.amount>>))>>

SameType(table, event) == Where(table, LAMBDA e : e.type = event.type)

(* _find_existing_event_by_source_transaction_id *)
ById(table, event) == {e \in SameType(table, event) : event.id # None /\ table[e].id = event.id}

ExplicitQuantity(event) ==
    event.type \in {"FUND_SELL", "WEALTH_REDEEM"} /\ \E x \in ToSet(event.assets) : x.explicit

(* _find_existing_event_for_quantity_supplement *)
Supplemented(table, event) ==
    {e \in SameType(table, event) : /\ ExplicitQuantity(event)
                                    /\ SupplementKey(Payload(table, e)) = SupplementKey(event)}

(* _event_exists *)
Existing(table, event) ==
    {e \in SameType(table, event) : EventKey(Payload(table, e)) = EventKey(event)}

(* Entry x of the ledger is the one that y, of a row or a duplicate, is about. *)
Matches(x, code, amount) == products[x.asset].code = code /\ x.amount = amount

(* Mutated form: the quantity of the row is added to what is stored.        *)
PatchedBy(table, e, event) ==
    [table EXCEPT ![e].assets = Map(@, LAMBDA x :
        LET given == {y \in ToSet(event.assets) : y.explicit /\ Matches(x, y.product.code, y.amount)}
        IN  IF given = {} THEN x
            ELSE [x EXCEPT !.quantity = @ + (CHOOSE y \in given : TRUE).quantity])]

(* _patch_event_redemption_quantity; an imported event has one entry at most. *)
Patched(table, e, event) ==
    [table EXCEPT ![e].assets = Map(@, LAMBDA x :
        LET given == {y \in ToSet(event.assets) : y.explicit /\ Matches(x, y.product.code, y.amount)}
        IN  IF given = {} THEN x ELSE [x EXCEPT !.quantity = (CHOOSE y \in given : TRUE).quantity])]

(* One event row in the loop of import_forex_transactions. *)
RecogniseEvent(run, event) ==
    LET known == ById(run.ledger, event)
        more == Supplemented(run.ledger, event)
    IN  CASE known # {} -> [run EXCEPT !.ledger = Patched(@, Min(known), event)]
          [] known = {} /\ more # {} -> [run EXCEPT !.ledger = Patched(@, Min(more), event)]
          [] known = {} /\ more = {} /\ (\/ \E seen \in ToSet(run.events) : EventKey(seen) = EventKey(event)
                                        \/ Existing(run.ledger, event) # {}) -> run
          [] OTHER -> [run EXCEPT !.events = Append(@, event)]

(* _transaction_exists *)
Candidates(t) == {transactions[i] : i \in Where(transactions, LAMBDA s : s.code = Upper(t.code))}

(* One transaction row. *)
RecogniseTransaction(run, t) ==
    IF \E s \in ToSet(run.trades) \cup Candidates(t) : TransactionKey(s) = TransactionKey(t)
    THEN run ELSE [run EXCEPT !.trades = Append(@, t)]

Recognised(workbook) ==
    FoldLeft(LAMBDA run, row : IF row.kind = "transaction" THEN RecogniseTransaction(run, row.body)
                               ELSE RecogniseEvent(run, row.body),
             [ledger |-> ledger, trades |-> <<>>, events |-> <<>>], Selected(workbook))
-----------------------------------------------------------------------------
(* import_forex_transactions                                               *)

AssetId(table, product) ==
    CHOOSE p \in DOMAIN table : table[p].type = product.type /\ table[p].code = product.code

(* create_event of an imported row, with ensure_asset. *)
StoreEvent(run, event) ==
    LET table == FoldLeft(LAMBDA t, x : Ensured(t, x.product), run.products, event.assets)
        entries == Map(event.assets, LAMBDA x : [asset    |-> AssetId(table, x.product),
                                                 quantity |-> x.quantity, amount |-> x.amount])
    IN  [products |-> table, ledger |-> Insert(run.ledger, [event EXCEPT !.assets = entries])]

(* Mutated form: the events are only stored when no transaction is.         *)
StoreUnlessTraded(run, made) ==
    FoldLeft(StoreEvent, [products |-> products, ledger |-> made.ledger],
             IF run.trades = <<>> THEN run.events ELSE <<>>)

StoreEvents(run, made) ==
    FoldLeft(StoreEvent, [products |-> products, ledger |-> made.ledger], run.events)

(* stops: the backup after the commit of the transactions fails, and with it *)
(* the request.  An import that fails earlier, as when a sale is refused,  *)
(* stores nothing.                                                         *)
Store(run, stops) ==
    LET made == CreateTransactions(transactions, run.ledger, run.trades)
        stored == StoreEvents(run, made)
    IN  /\ made.ok
        /\ stops => run.trades # <<>> /\ run.events # <<>>
        /\ transactions' = made.transactions
        /\ ledger' = IF stops THEN made.ledger ELSE stored.ledger
        /\ products' = IF stops THEN products ELSE stored.products
        /\ IF stops \/ (run.trades \o run.events = <<>> /\ run.ledger = ledger)
           THEN UNCHANGED saved ELSE BackedUp
        /\ UNCHANGED changes
        /\ WithinBounds

Import(workbook, stops) == Store(Recognised(workbook), stops)
-----------------------------------------------------------------------------
(* Maintenance scripts.                                                    *)

(* Mutated form: the duplicate's quantities are dropped with it.            *)
KeepAsIs(table, keep, duplicate) == table

(* patch_keep_event_sql: a quantity that is just the amount is not taken over. *)
TakeOver(table, keep, duplicate) ==
    FoldLeft(LAMBDA t, y :
                IF -y.quantity = y.amount \/ y.quantity = y.amount THEN t
                ELSE [t EXCEPT ![keep].assets = Map(@, LAMBDA x :
                        IF Matches(x, products[y.asset].code, y.amount)
                        THEN [x EXCEPT !.quantity = y.quantity] ELSE x)],
             table, table[duplicate].assets)

Duplicates == {e \in DOMAIN ledger : ledger[e].id # None
                                     /\ \E d \in DOMAIN ledger : d < e /\ ledger[d].id = ledger[e].id}

KeptFor(e) == Min(Where(ledger, LAMBDA d : d.id = ledger[e].id))

(* dedupe_imported_events_by_transaction_id.py, up to its first commit. *)
Dedupe ==
    /\ UNCHANGED changes
    /\ ledger' = Without(FoldLeft(LAMBDA t, e : TakeOver(t, KeptFor(e), e), ledger,
                                  InOrder(Duplicates, LAMBDA d, f : d < f)), Duplicates)
    /\ UNCHANGED <<transactions, products, saved>>

(* merge_duplicate_assets.py with the code and the name of one of the two. *)
MergeAssets(target, source, identity) ==
    /\ Change
    /\ target # source /\ identity \in {target, source}
    /\ ledger' = [e \in DOMAIN ledger |->
                    [ledger[e] EXCEPT !.assets =
                        Map(@, LAMBDA x : IF x.asset = source THEN [x EXCEPT !.asset = target] ELSE x)]]
    /\ products' = Without([products EXCEPT ![target].code = products[identity].code,
                                            ![target].name = products[identity].name], {source})
    /\ UNCHANGED <<transactions, saved>>

Next ==
    \/ TradeNext
    \/ \E w \in Workbooks : LET run == Recognised(w) IN \E stops \in BOOLEAN : Store(run, stops)
    \/ Dedupe
    \/ \E target, source, identity \in DOMAIN products : MergeAssets(target, source, identity)

Spec == TradeInit /\ [][Next]_tradeVars
-----------------------------------------------------------------------------
(* Event e of the ledger says what an imported row says. *)
Says(e, event) ==
    LET stored == Payload(ledger, e)
        entries(ev) == Map(ev.assets, LAMBDA x : <<x.product.type, x.product.code, x.quantity, x.amount>>)
    IN  /\ stored.type = event.type /\ stored.time = event.time /\ stored.cash = event.cash
        /\ entries(stored) = entries(event)

(* Transaction i says what an imported row says, whatever its rate. *)
SaysTrade(i, t) ==
    [transactions[i] EXCEPT !.rate = t.rate, !.currency = Upper(@)] = t

Stored(row) ==
    IF row.kind = "transaction" THEN \E i \in DOMAIN transactions : SaysTrade(i, row.body)
    ELSE \E e \in DOMAIN ledger : Says(e, row.body)

SameSource(e, event) == event.id # None /\ ledger[e].id = event.id /\ ledger[e].type = event.type

Accounted(row) ==
    Stored(row) \/ (row.kind = "event" /\ \E e \in DOMAIN ledger : SameSource(e, row.body))

Imported(workbook) == \A row \in ToSet(Selected(workbook)) : Stored(row)

(* No two rows share a 交易ID or differ in their quantity only. *)
NoTwins(workbook) ==
    LET rows == Events(workbook)
    IN  \A m, n \in DOMAIN rows : m # n =>
           /\ rows[m].body.id = None \/ rows[m].body.id # rows[n].body.id
           /\ SupplementKey(rows[m].body) # SupplementKey(rows[n].body)

TwinFree == {w \in Workbooks : NoTwins(w)}

(* Sending a workbook again whose every row is stored changes nothing: no   *)
(* second transaction, no second event, no other quantity, whatever else   *)
(* was imported, edited, deleted, renamed or restored in between, as long  *)
(* as its rows are distinct and no 交易ID is stored twice.                  *)
ReimportAddsNothing ==
    [][(Duplicates = {} /\ <<transactions, ledger, products>>' # <<transactions, ledger, products>>) =>
          \A w \in TwinFree, stops \in BOOLEAN : ~(Imported(w) /\ Import(w, stops))]_tradeVars

(* README.md:274: "Re-importing the same workbook skips existing records".  *)
ReimportSkipsExisting ==
    [][\A w \in Workbooks, stops \in BOOLEAN :
          (Imported(w) /\ Import(w, stops)) => UNCHANGED <<transactions, ledger>>]_tradeVars

(* An import that is not interrupted leaves every row of its workbook in    *)
(* the books, by its data or by its 交易ID, also when an earlier attempt    *)
(* was interrupted or its records were edited, deleted or merged since, as *)
(* long as no two rows of the workbook are twins.                          *)
ImportCompletes ==
    [][\A w \in TwinFree :
          (\E row \in ToSet(Selected(w)) : ~Accounted(row)') => ~Import(w, FALSE)]_tradeVars

Codes == {transactions[i].code : i \in DOMAIN transactions}

(* A trade or an import with transactions. *)
Adding == /\ transactions' # transactions
          /\ \A i \in DOMAIN transactions : i \in DOMAIN transactions' /\ transactions'[i] = transactions[i]
          /\ ~Restore

(* What the rows of a code add up to, in whatever case they spell it. *)
Holding(table, code) ==
    SumFunctionOnSet([i \in DOMAIN table |-> Signed(table[i])],
                     Where(table, LAMBDA t : Upper(t.code) = Upper(code)))

InUpperCase(table) == \A i \in DOMAIN table : Upper(table[i].code) = table[i].code

SoldBelowZero == \E c \in Codes' : Holding(transactions, c) >= 0 /\ Holding(transactions', c) < 0

(* No trade and no import, however many sales its batch has, takes a        *)
(* holding that was sound below zero, as long as all codes are in upper    *)
(* case, as the frontend and the workbooks send them; a sale in another    *)
(* case is checked against a holding that it does not reduce.              *)
NothingSoldUnheld == [][Adding /\ InUpperCase(transactions') => ~SoldBelowZero]_tradeVars

(* What a trade against CNY says it cost. *)
StatedCost(t) == IF t.cost # None THEN t.cost ELSE t.quantity * t.price

(* What a trade against CNY moves in one currency. *)
Moves(t, code) ==
    (IF Upper(t.code) = code THEN Signed(t) ELSE 0)
      + (IF code # CNY THEN 0 ELSE IF t.direction = "BUY" THEN -StatedCost(t) ELSE StatedCost(t))

Gained(event, code) ==
    FoldLeft(LAMBDA sum, c : sum + (IF c.currency = code THEN c.delta ELSE 0), 0, event.cash)

(* What the events of foreign-currency trades brought in, beyond what the   *)
(* transactions say.                                                       *)
Drift(table, events, code) ==
      Total(Where(events, LAMBDA e : e.type \in {"FX_BUY", "FX_SELL"}),
            LAMBDA e : Gained(events[e], code))
    - Total(Where(table, LAMBDA t : t.type = "FOREX" /\ Upper(t.currency) = CNY),
            LAMBDA i : Moves(table[i], code))

(* Without a stated cost, the event's is the price times this rate, although *)
(* the price is in CNY.                                                    *)
AtParity(t) == Upper(t.currency) = CNY /\ t.cost = None => t.rate \in {None, 0, 1}

(* The transactions and the ledger move together: a trade or an import, an  *)
(* interrupted one as well, changes both by the same foreign and the same  *)
(* CNY amount, as long as a trade against CNY states its cost or has no    *)
(* rate but 1.                                                             *)
LedgerKeepsUp ==
    [][(Adding /\ \A i \in DOMAIN transactions' \ DOMAIN transactions : AtParity(transactions'[i]))
       => \A code \in Codes' \cup {CNY} :
             Drift(transactions', ledger', Upper(code)) = Drift(transactions, ledger, Upper(code))]_tradeVars

(* Deduplication leaves one event of each 交易ID, and it has the quantity   *)
(* of a redemption that any of its duplicates knew.                        *)
DedupeLosesNothing ==
    [][Dedupe => \A e \in DOMAIN ledger : ledger[e].id # None =>
          \E k \in DOMAIN ledger' :
             /\ {d \in DOMAIN ledger' : ledger'[d].id = ledger[e].id} = {k}
             /\ \A n \in DOMAIN ledger[e].assets : LET x == ledger[e].assets[n] IN
                   (/\ -x.quantity # x.amount /\ x.quantity # x.amount
                    /\ \E y \in ToSet(ledger'[k].assets) : Matches(y, products[x.asset].code, x.amount))
                   => \E y \in ToSet(ledger'[k].assets), d \in DOMAIN ledger :
                         /\ ledger[d].id = ledger[e].id
                         /\ y.quantity \in {z.quantity : z \in ToSet(ledger[d].assets)}
                         /\ -y.quantity # y.amount]_tradeVars
=============================================================================
