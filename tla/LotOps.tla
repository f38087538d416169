------------------------------- MODULE LotOps -------------------------------
(***************************************************************************)
(* The arithmetic of one funding lot: the rows of the funding_lots and     *)
(* lot_consumptions tables and what FundingLotManager does to one of them. *)
(*                                                                         *)
(* Amounts are integers in units of AMOUNT_QUANT (0.000001) and RMB bases  *)
(* integers in units of BASIS_QUANT (0.01), so quantize() to either unit   *)
(* is exact and only the ROUND_HALF_UP of a proportional share remains.    *)
(***************************************************************************)
EXTENDS Integers

CONSTANT NoBasis     \* the NULL of original_rmb_basis / remaining_rmb_basis

ASSUME NoBasisAssumption == NoBasis \notin Int

Bases == Nat \cup {NoBasis}

Statuses == {"AVAILABLE", "FULLY_CONSUMED", "BASIS_MISSING"}

(* Decimal(n / d).quantize(unit, ROUND_HALF_UP) for n >= 0 and d > 0. *)
RoundHalfUp(n, d) == (2 * n + d) \div (2 * d)

(* The RMB basis that leaves with `amount' of the `remaining' units. *)
BasisShare(basis, amount, remaining) ==
    IF amount = remaining THEN basis ELSE RoundHalfUp(basis * amount, remaining)

(* create_lot: a lot whose RMB basis is unknown is never spendable. *)
NewLot(user, currency, event, amount, basis, time) ==
    [user             |-> user,
     currency         |-> currency,
     source_event     |-> event,
     original_amount  |-> amount,
     remaining_amount |-> amount,
     original_basis   |-> basis,
     remaining_basis  |-> basis,
     status           |-> IF basis = NoBasis THEN "BASIS_MISSING" ELSE "AVAILABLE",
     created_at       |-> time]

(* Mutated forms, used only to show that the properties notice them.       *)
SpendableAnyTime(lot, user, currency, time) ==
    /\ lot.user = user /\ lot.currency = currency
    /\ lot.status = "AVAILABLE" /\ lot.remaining_amount > 0
SpendableAnyCurrency(lot, user, currency, time) ==
    /\ lot.user = user /\ lot.created_at <= time
    /\ lot.status = "AVAILABLE" /\ lot.remaining_amount > 0

(* The filter of get_available_lots. *)
Spendable(lot, user, currency, time) ==
    /\ lot.user = user
    /\ lot.currency = currency
    /\ lot.status = "AVAILABLE"
    /\ lot.remaining_amount > 0
    /\ lot.created_at <= time

(* The ORDER BY of get_available_lots: created_at, then the primary key. *)
Precedes(lots, k, l) ==
    \/ lots[k].created_at < lots[l].created_at
    \/ lots[k].created_at = lots[l].created_at /\ k < l

(* Mutated forms: the share is cut off, not rounded; the lot is never closed. *)
ConsumedTruncating(lot, amount) ==
    [lot EXCEPT
        !.remaining_amount = @ - amount,
        !.remaining_basis  = @ - (@ * amount) \div lot.remaining_amount,
        !.status           = IF amount = lot.remaining_amount THEN "FULLY_CONSUMED" ELSE @]
ConsumedLeftOpen(lot, amount) ==
    [lot EXCEPT
        !.remaining_amount = @ - amount,
        !.remaining_basis  = @ - BasisShare(@, amount, lot.remaining_amount)]

(* consume_lot's effect on the lot; it is called with 0 < amount <= remaining. *)
Consumed(lot, amount) ==
    [lot EXCEPT
        !.remaining_amount = @ - amount,
        !.remaining_basis  = @ - BasisShare(@, amount, lot.remaining_amount),
        !.status           = IF amount = lot.remaining_amount THEN "FULLY_CONSUMED" ELSE @]

(* Mutated forms: the row is written before the lot is reduced; it names   *)
(* the event that opened the lot.                                          *)
ConsumptionBeforehand(l, lot, event, amount) ==
    [lot             |-> l,
     event           |-> event,
     amount          |-> amount,
     basis           |-> BasisShare(lot.remaining_basis, amount, lot.remaining_amount),
     remaining_after |-> lot.remaining_amount]

ConsumptionByOpener(l, lot, event, amount) ==
    [lot             |-> l,
     event           |-> lot.source_event,
     amount          |-> amount,
     basis           |-> BasisShare(lot.remaining_basis, amount, lot.remaining_amount),
     remaining_after |-> lot.remaining_amount - amount]

(* consume_lot's lot_consumptions row. *)
ConsumptionOf(l, lot, event, amount) ==
    [lot             |-> l,
     event           |-> event,
     amount          |-> amount,
     basis           |-> BasisShare(lot.remaining_basis, amount, lot.remaining_amount),
     remaining_after |-> lot.remaining_amount - amount]

(* Mutated form of Smaller: max() for min(). *)
Larger(a, b) == IF a <= b THEN b ELSE a

Smaller(a, b) == IF a <= b THEN a ELSE b
=============================================================================
