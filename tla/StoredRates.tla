------------------------------ MODULE StoredRates ------------------------------
(***************************************************************************)
(* The exchange_rates table: a function from primary keys to rows          *)
(* [currency, rate, time, estimated, source], all quoted in CNY, and the   *)
(* two ways the program picks the row that values a currency.              *)
(***************************************************************************)
EXTENDS Integers

CONSTANT NoRate      \* no row answers

Sources == {"MANUAL", "PRIMARY", "FALLBACK"}

Candidates(rates, currency, cutoff) ==
    {i \in DOMAIN rates : rates[i].currency = currency /\ rates[i].time <= cutoff}

SourcePriority(source) == CASE source = "MANUAL" -> 0 [] source = "PRIMARY" -> 1 [] OTHER -> 2

(* The row of S that is before all others in an order given by keys, which  *)
(* are compared place by place and end in the primary key.                 *)
FirstBy(S, key(_)) ==
    LET before(a, b) == \E n \in DOMAIN a : a[n] < b[n] /\ \A k \in 1 .. n - 1 : a[k] = b[k]
    IN  CHOOSE i \in S : \A j \in S \ {i} : before(key(i), key(j))

(* ORDER BY of latest_rates, _rate_for_currency and _exchange_rate_details. *)
Ranking(rates, i) ==
    <<-rates[i].time, IF rates[i].estimated THEN 1 ELSE 0, SourcePriority(rates[i].source), -i>>

(* PerformanceService._rate_for_currency *)
RateFor(rates, currency, cutoff) ==
    LET rows == Candidates(rates, currency, cutoff)
    IN  IF currency = "CNY" THEN 1
        ELSE IF rows = {} THEN NoRate
        ELSE rates[FirstBy(rows, LAMBDA i : Ranking(rates, i))].rate

(* _latest_rate of the positions route: the source and the estimate flag    *)
(* are not looked at.                                                      *)
LatestRate(rates, currency, cutoff) ==
    LET rows == Candidates(rates, currency, cutoff)
    IN  IF currency = "CNY" THEN 1
        ELSE IF rows = {} THEN NoRate
        ELSE rates[FirstBy(rows, LAMBDA i : <<-rates[i].time, -i>>)].rate
=============================================================================
