------------------------------- MODULE MCReports -------------------------------
(* A small instance of Reports and PositionsRoute: one user and a dollar   *)
(* fund, in whole units.                                                   *)
EXTENDS PositionsRoute

CONSTANTS u1, fund

NoKeys == [keys |-> {}, rmb_basis |-> NoBasis]

Cash(currency, delta, rmb) ==
    [currency |-> currency, delta |-> delta, rmb |-> rmb, rate |-> NoBasis,
     external |-> currency = CNY, raw |-> NoKeys]

Entry(asset, quantity, amount) ==
    [asset |-> asset, quantity |-> quantity, currency |-> "USD", amount |-> amount, rate |-> 2]

Confirmed(type, cash, assets) ==
    [type |-> type, status |-> "CONFIRMED", cash |-> cash, assets |-> assets]

Buy == Confirmed("FX_BUY", <<Cash(CNY, -6, NoBasis), Cash("USD", 3, 6)>>, <<>>)
Sell == Confirmed("FX_SELL", <<Cash("USD", -1, 3), Cash(CNY, 3, NoBasis)>>, <<>>)
Swap == Confirmed("FX_SWAP", <<Cash("USD", -2, 4), Cash("EUR", 1, 4)>>, <<>>)
Purchase == Confirmed("FUND_BUY", <<Cash("USD", -1, NoBasis)>>, <<Entry(fund, 1, 1)>>)
Redemption == Confirmed("FUND_SELL", <<Cash("USD", 1, NoBasis)>>, <<Entry(fund, -1, 1)>>)
Interest == Confirmed("INTEREST_INCOME", <<Cash("USD", 1, NoBasis)>>, <<>>)

ReportPayloads == {Buy, Sell, Swap, Purchase, Redemption, Interest}

Funds == [a \in Assets |-> "FUND"]
Dollars == [a \in Assets |-> "USD"]

Snapshot(asset, quantity, value, rate, time) ==
    [asset |-> asset, quantity |-> quantity, value |-> value, currency |-> "USD",
     rate |-> rate, estimated |-> FALSE, time |-> time]

ReportSnapshots == {Snapshot(fund, 1, 2, NoBasis, 1), Snapshot(fund, 0, 0, NoBasis, 2),
                    Snapshot(fund, 1, 3, 5, 2)}

Rate(currency, rate, time, source) ==
    [currency |-> currency, rate |-> rate, time |-> time, estimated |-> source = "FALLBACK",
     source |-> source]

ReportRates == {Rate("USD", 3, 1, "PRIMARY"), Rate("EUR", 5, 2, "FALLBACK")}
=============================================================================
