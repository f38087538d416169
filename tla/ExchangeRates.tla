----------------------------- MODULE ExchangeRates -----------------------------
(***************************************************************************)
(* Looking up exchange rates: the retries, the fallback and the cache of   *)
(* ExchangeRateTool, and the requests that store what it answers: the      *)
(* refresh of the latest rates, the historical rate of one record, and the *)
(* positions calculated from the transactions.                             *)
(*                                                                         *)
(* Every request builds its own tool, so a cache lives as long as its      *)
(* request.  The primary source is a service outside the program: a table  *)
(* of what it has published, which may fail to answer at any attempt.      *)
(***************************************************************************)
EXTENDS StoredRates, Sequences

CONSTANTS Currencies,  \* the currencies asked for, without CNY
          Today,
          Published,   \* per currency, the rates the primary source has, by day
          StaticTable, \* per currency, the rates the fallback has, by day
          Records,     \* the stored records: [day, currencies]
          Lists,       \* the orders in which a request may ask for currencies
          MaxRetries,  \* attempts per provider
          MaxRows,     \* bound: primary keys of exchange_rates
          Nothing      \* no timestamp, no answer, no request

(* Days and rates are numbers, and the series of the providers are finite.  *)
IsSeries(series) ==
    /\ DOMAIN series \subseteq Int
    /\ \A d \in DOMAIN series : series[d] \in Int
    /\ \A S \in SUBSET DOMAIN series : S # {} => \E d \in S : \A e \in S : e <= d

ASSUME SeriesAssumption ==
    /\ Today \in Int
    /\ \A c \in Currencies : IsSeries(Published[c]) /\ IsSeries(StaticTable[c])

ASSUME RecordsAssumption == \A r \in Records : r.day \in Int /\ r.day # Nothing

ASSUME ListsAssumption == Lists \subseteq Seq(Currencies)

Placeholder == 100     \* _current_price_for_asset without a rate

VARIABLES stored,     \* the exchange_rates table, in the order of its keys
          costs,      \* per record and currency, the historical rate written to it
          positions,  \* per currency, the price a position was valued at and the one stored
          lookup      \* the request being served, or Nothing

rateVars == <<stored, costs, positions, lookup>>
-----------------------------------------------------------------------------
(* What the two providers answer.                                          *)

Answer(currency, rate, day, estimated, source) ==
    [currency |-> currency, rate |-> rate, time |-> day, estimated |-> estimated, source |-> source]

Newest(days) == CHOOSE d \in days : \A e \in days : e <= d

UpTo(days, day) == {d \in days : d <= day}

(* FrankfurterExchangeRateProvider.fetch, when the service answers: a day   *)
(* without a rate of its own is answered with the one before.              *)
Frankfurter(currency, day) ==
    LET series == Published[currency]
        days == UpTo(DOMAIN series, IF day = Nothing THEN Today ELSE day)
        found == Newest(days)
    IN  IF days = {} THEN Nothing
        ELSE Answer(currency, series[found], found, day # Nothing /\ found # day, "PRIMARY")

(* StaticExchangeRateProvider.fetch *)
Static(currency, day) ==
    LET series == StaticTable[currency]
        target == IF day = Nothing THEN Today ELSE day
        prior == UpTo(DOMAIN series, target)
        found == Newest(IF prior = {} THEN DOMAIN series ELSE prior)
    IN  IF DOMAIN series = {} THEN Nothing
        ELSE Answer(currency, series[found], found, found # target, "FALLBACK")
-----------------------------------------------------------------------------
(* ExchangeRateTool._run.  A request asks for currencies one by one: todo   *)
(* are the ones it still asks for, answers what it found, and prices what  *)
(* _current_price_for_asset makes of each.                                 *)

Request(kind, record, day, todo) ==
    [kind |-> kind, record |-> record, day |-> day, todo |-> todo,
     answers |-> <<>>, prices |-> <<>>, provider |-> "PRIMARY", attempt |-> 1,
     cache |-> [c \in Currencies |-> Nothing]]

(* The tool has nothing for the first currency of todo, or has its answer;  *)
(* the next lookup starts again with the first provider.                   *)
Unavailable(q) ==
    [q EXCEPT !.todo = Tail(@), !.prices = Append(@, Placeholder), !.provider = "PRIMARY", !.attempt = 1]

Answered(q, answer) ==
    [q EXCEPT !.todo = Tail(@), !.prices = Append(@, answer.rate), !.answers = Append(@, answer),
              !.provider = "PRIMARY", !.attempt = 1]

(* Mutated form: only the live source's answers are kept. *)
RemembersPrimary(q, answer) ==
    IF answer.source = "PRIMARY" THEN [Answered(q, answer) EXCEPT !.cache[answer.currency] = answer]
    ELSE Answered(q, answer)

(* self.cache[cache_key] = result *)
Found(q, answer) == [Answered(q, answer) EXCEPT !.cache[answer.currency] = answer]

(* Mutated form: the providers are tried in turns. *)
TriesInTurns(q, retryable) ==
    IF retryable /\ q.attempt < MaxRetries THEN [q EXCEPT !.attempt = @ + 1]
    ELSE IF q.provider = "PRIMARY" THEN [q EXCEPT !.provider = "FALLBACK", !.attempt = 1]
    ELSE [q EXCEPT !.provider = "PRIMARY", !.attempt = 1]

(* An attempt raised: the same provider again, then the other one, then     *)
(* exchange_rate_unavailable, which is not cached.                         *)
Raised(q, retryable) ==
    IF retryable /\ q.attempt < MaxRetries THEN [q EXCEPT !.attempt = @ + 1]
    ELSE IF q.provider = "PRIMARY" THEN [q EXCEPT !.provider = "FALLBACK", !.attempt = 1]
    ELSE Unavailable(q)

Asking == lookup # Nothing /\ lookup.todo # <<>>

CacheHit ==
    /\ Asking /\ lookup.cache[Head(lookup.todo)] # Nothing
    /\ lookup' = Answered(lookup, lookup.cache[Head(lookup.todo)])
    /\ UNCHANGED <<stored, costs, positions>>

(* A provider answers, or has no such pair. *)
Fetched ==
    /\ Asking /\ lookup.cache[Head(lookup.todo)] = Nothing
    /\ LET currency == Head(lookup.todo)
           answer == IF lookup.provider = "PRIMARY" THEN Frankfurter(currency, lookup.day)
                                                    ELSE Static(currency, lookup.day)
       IN  lookup' = IF answer = Nothing THEN Raised(lookup, FALSE) ELSE Found(lookup, answer)
    /\ UNCHANGED <<stored, costs, positions>>

(* The primary source cannot be reached or fails (5xx), or refuses (4xx). *)
Unreachable ==
    /\ Asking /\ lookup.cache[Head(lookup.todo)] = Nothing
    /\ lookup.provider = "PRIMARY"
    /\ \E retryable \in BOOLEAN : lookup' = Raised(lookup, retryable)
    /\ UNCHANGED <<stored, costs, positions>>
-----------------------------------------------------------------------------
(* The requests, which are served one at a time.                           *)

Serve(request) ==
    /\ lookup = Nothing
    /\ lookup' = request
    /\ UNCHANGED <<stored, costs, positions>>

(* POST /api/exchange-rates/refresh *)
Refresh ==
    /\ Len(stored) < MaxRows
    /\ \E todo \in Lists : Serve(Request("refresh", Nothing, Nothing, todo))

(* POST /api/transactions/{record_type}/{record_id}/historical-rate: a      *)
(* transaction asks for one currency, an event for those of its entries.   *)
Rerate ==
    \E r \in Records, todo \in Lists :
        /\ {todo[n] : n \in DOMAIN todo} = r.currencies
        /\ Serve(Request("rerate", r, r.day, todo))

(* sync_positions: build_positions asks for the price of every currency     *)
(* held, and storing the rows asks again.                                  *)
SyncPositions == \E todo \in Lists : Serve(Request("sync", todo, Nothing, todo \o todo))

Served(kind) == lookup # Nothing /\ lookup.kind = kind /\ lookup.todo = <<>> /\ lookup' = Nothing

(* refresh_rates: one commit of everything found. *)
StoreRates ==
    /\ Served("refresh")
    /\ stored' = stored \o lookup.answers
    /\ UNCHANGED <<costs, positions>>

(* Mutated form: the fallback's own rates count as confirmed. *)
NotEstimated(answers) == {a \in {answers[n] : n \in DOMAIN answers} : ~a.estimated}

(* The answers a historical rate may be taken from. *)
Confirmed(answers) ==
    {a \in {answers[n] : n \in DOMAIN answers} : ~a.estimated /\ a.source = "PRIMARY"}

StoreCosts ==
    /\ Served("rerate")
    /\ costs' = [costs EXCEPT ![lookup.record] =
                   [c \in Currencies |->
                       IF \E a \in Confirmed(lookup.answers) : a.currency = c
                       THEN (CHOOSE a \in Confirmed(lookup.answers) : a.currency = c).rate
                       ELSE costs[lookup.record][c]]]
    /\ UNCHANGED <<stored, positions>>

(* The rows of a sync replace all positions there were. *)
StorePositions ==
    /\ Served("sync")
    /\ LET held == lookup.record
       IN  positions' = [c \in {held[n] : n \in DOMAIN held} |->
                           LET n == CHOOSE k \in DOMAIN held : held[k] = c
                           IN  [valued |-> lookup.prices[n], current |-> lookup.prices[Len(held) + n]]]
    /\ UNCHANGED <<stored, costs>>
-----------------------------------------------------------------------------
RatesInit ==
    /\ stored = <<>>
    /\ costs = [r \in Records |-> [c \in Currencies |-> Nothing]]
    /\ positions = <<>>
    /\ lookup = Nothing

Lookup == CacheHit \/ Fetched \/ Unreachable \/ StoreRates \/ StoreCosts \/ StorePositions

RatesNext == Refresh \/ Rerate \/ SyncPositions \/ Lookup

RatesSpec == RatesInit /\ [][RatesNext]_rateVars
-----------------------------------------------------------------------------
(* A rate written to a record is the one the primary source published for   *)
(* the record's own day, never an estimate or the built-in table; and a    *)
(* stored rate marked PRIMARY is the published one of the day it bears.    *)
ConfirmedRatesOnly ==
    /\ \A r \in Records, c \in Currencies :
          costs[r][c] # Nothing =>
              r.day \in DOMAIN Published[c] /\ costs[r][c] = Published[c][r.day]
    /\ \A n \in DOMAIN stored :
          stored[n].source = "PRIMARY" =>
              /\ stored[n].time \in DOMAIN Published[stored[n].currency]
              /\ stored[n].rate = Published[stored[n].currency][stored[n].time]

(* A stored position shows the price its value was computed with, although  *)
(* sync_positions asks twice; only where the first lookup found nothing    *)
(* (and valued the currency at the placeholder) may the second differ.     *)
PricedAsShown ==
    \A c \in DOMAIN positions :
        positions[c].current # positions[c].valued => positions[c].valued = Placeholder
=============================================================================
