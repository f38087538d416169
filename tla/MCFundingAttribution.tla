------------------------ MODULE MCFundingAttribution ------------------------
(* Small instances of FundingAttribution: the request bodies to choose from. *)
EXTENDS FundingAttribution, TLC

CONSTANTS u1, u2, fund, other

NoKeys == [keys |-> {}, rmb_basis |-> NoBasis]

Cash(currency, delta, rmb, rate) ==
    [currency |-> currency, delta |-> delta, rmb |-> rmb, rate |-> rate,
     external |-> currency = CNY, raw |-> NoKeys]

Position(asset, quantity, amount) ==
    [asset |-> asset, quantity |-> quantity, currency |-> "USD", amount |-> amount, rate |-> 4]

Confirmed(type, cash, assets) ==
    [type |-> type, status |-> "CONFIRMED", cash |-> cash, assets |-> assets]

\* Three units for five cents: a part of the lot has a rounded basis.
Buy == Confirmed("FX_BUY", <<Cash("CNY", -5, NoBasis, NoBasis), Cash("USD", 3, 5, NoBasis)>>, <<>>)
Sell == Confirmed("FX_SELL", <<Cash("USD", -1, NoBasis, 4)>>, <<>>)
BuyEuro == Confirmed("FX_BUY", <<Cash("EUR", 1, 3, NoBasis)>>, <<>>)
SwapBack == Confirmed("FX_SWAP", <<Cash("USD", -2, NoBasis, NoBasis), Cash("EUR", 2, NoBasis, NoBasis)>>, <<>>)

Purchase == Confirmed("FUND_BUY", <<>>, <<Position(fund, 1, 2)>>)
DoublePurchase == Confirmed("WEALTH_BUY", <<>>, <<Position(fund, 1, 2), Position(other, 1, 2)>>)
Redemption == Confirmed("FUND_SELL", <<Cash("USD", 1, NoBasis, NoBasis)>>, <<Position(fund, -1, 1)>>)
Interest == Confirmed("INTEREST_INCOME", <<Cash("USD", 1, NoBasis, NoBasis)>>, <<>>)
Pending == [Purchase EXCEPT !.status = "PENDING"]

\* As the API posts them: rmb_basis is always a key of the body.
Adjust(keys, rmb, basis) ==
    Confirmed("MANUAL_ADJUSTMENT",
              <<[Cash("USD", 2, rmb, NoBasis) EXCEPT !.raw = [keys |-> keys, rmb_basis |-> basis]]>>, <<>>)
AdjustUnknown == Adjust({"rmb_basis", "unknown_basis"}, NoBasis, NoBasis)
AdjustFree == Adjust({"rmb_basis"}, NoBasis, 0)
AdjustGiven == Adjust({"rmb_basis"}, NoBasis, 6)
\* As a caller of the service posts them: no key, or no column.
AdjustByColumn == Adjust({}, 6, NoBasis)
AdjustNothing == Adjust({}, NoBasis, NoBasis)

\* Only the rate of the purchase of currency can still change to 4.
RateFour(payload) == [payload EXCEPT !.cash = [i \in DOMAIN @ |-> [@[i] EXCEPT !.rate = 4]]]
BuyThreeAtRate == Confirmed("FX_BUY", <<Cash("USD", 3, NoBasis, 3)>>, <<>>)

RecordPayloads == {Buy, BuyEuro, Sell, SwapBack, DoublePurchase, Redemption,
                   Interest, AdjustByColumn, AdjustGiven, AdjustNothing, Pending}
HistoryPayloads == {BuyThreeAtRate, Purchase}

UnknownPayloads == {AdjustUnknown}
SplitPayloads == {BuyEuro, [BuyEuro EXCEPT !.cash[1].currency = "USD"], Purchase}
GivenPayloads == {AdjustGiven, AdjustFree}
FreePayloads == {AdjustFree, Purchase, Redemption}

Symmetry == Permutations(Users)
=============================================================================
