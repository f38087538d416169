-------------------------------- MODULE MCImport --------------------------------
(* A small instance of ExcelImport: dollars and one wealth product.        *)
EXTENDS ExcelImport

Blank == [category |-> None, sell |-> None, sold |-> None, buy |-> None, bought |-> None,
          name |-> "plan", wealthy |-> FALSE, dividend |-> FALSE, units |-> None, id |-> None,
          time |-> 1]

Row(category, sell, sold, buy, bought) ==
    [Blank EXCEPT !.category = category, !.sell = sell, !.sold = sold, !.buy = buy, !.bought = bought]

BuyDollars == Row("FOREX", CNY, 6, "USD", 2)
SellDollars == [Row("FOREX", "USD", 1, CNY, 4) EXCEPT !.time = 2]
Purchase == Row("WEALTH_PRODUCT", "USD", 2, None, None)
Redemption(units, id) ==
    [Row("FUND", None, None, "USD", 2) EXCEPT !.wealthy = TRUE, !.units = units, !.id = id, !.time = 2]

Trading == <<BuyDollars, SellDollars, Purchase>>
Selling == <<[Row("FOREX", "USD", 2, CNY, 8) EXCEPT !.time = 2], SellDollars>>
Unpriced == Row("FOREX", CNY, None, "USD", 2)
Bare == <<Unpriced, Redemption(None, 7)>>
Detailed == <<Redemption(1, 7)>>
Twice == Bare \o Detailed \o <<Row("FOREX", "EUR", 1, "USD", 1)>>
Twins == <<Redemption(1, None), Redemption(3, None), Row("INTEREST", None, None, "USD", 1)>>

SomeWorkbooks == {Trading, Selling, Bare, Detailed, Twice}
TwinWorkbooks == {Twins, Trading}

Deal(direction, quantity, price, currency, rate) ==
    [type |-> "FOREX", code |-> "USD", direction |-> direction, quantity |-> quantity,
     price |-> price, currency |-> currency, rate |-> rate, cost |-> None, time |-> 1]

Stating(cost, deal) == [deal EXCEPT !.cost = cost]

SomeTrades == {[Deal("SELL", 1, 2, "EUR", 4) EXCEPT !.code = "usd"], Stating(5, Deal("BUY", 2, 3, "cny", 7))}

SomeUpperCase == [usd |-> "USD", cny |-> CNY]

SomeHoldings == {[code |-> <<"bank", "WEALTH_PRODUCT", "plan">>, name |-> "plan"]}
=============================================================================
