----------------------------- MODULE FundingPool -----------------------------
(***************************************************************************)
(* What the funding engine promises its callers, without lots: each user   *)
(* holds priced foreign money, known only by currency and by the date it   *)
(* came in.  Money leaves oldest date first, money dated after an event    *)
(* never pays for it, and a swap's proceeds are priced (spendable) only    *)
(* when the money it gave up was there in full.                            *)
(***************************************************************************)
EXTENDS Integers, FiniteSets, Functions, FiniteSetsExt

CONSTANTS Users, Currencies, Amounts, Times

VARIABLE pool        \* [user, currency, date -> priced money held]

Keys == Users \X Currencies \X Times

(* What pool p holds over the dates T. *)
Held(p, u, c, T) == SumFunctionOnSet([s \in Times |-> p[<<u, c, s>>]], T)
UpTo(t) == {s \in Times : s <= t}
Earlier(s) == {r \in Times : r < s}

(* What stays of the money dated s when `needed' is spent at time t. *)
Left(p, u, c, s, t, needed) ==
    LET wanted == Max({0, needed - Held(p, u, c, Earlier(s))})
    IN  IF s <= t THEN Max({0, p[<<u, c, s>>] - wanted}) ELSE p[<<u, c, s>>]

(* Pool p after a deposit, after spending, and after a swap. *)
Deposit(p, u, c, t, a) == [p EXCEPT ![<<u, c, t>>] = @ + a]

Withdraw(p, u, c, t, needed) ==
    [k \in Keys |-> IF k[1] = u /\ k[2] = c THEN Left(p, u, c, k[3], t, needed) ELSE p[k]]

Exchange(p, u, c, t, needed, d, a) == Deposit(Withdraw(p, u, c, t, needed), u, d, t, a)

(* What one event may make of pool p; a swap's proceeds count only when    *)
(* the money it gave up was all there.                                     *)
Allowed(p, next) ==
    \E u \in Users, c \in Currencies, t \in Times, a \in Amounts :
       \/ next = Deposit(p, u, c, t, a)
       \/ next = Withdraw(p, u, c, t, a)
       \/ /\ Held(p, u, c, UpTo(t)) >= a
          /\ \E d \in Currencies, b \in Amounts : next = Exchange(p, u, c, t, a, d, b)

Init == pool = [k \in Keys |-> 0]

Next == Allowed(pool, pool')

Spec == Init /\ [][Next]_pool
=============================================================================
