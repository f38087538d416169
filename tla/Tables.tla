--------------------------------- MODULE Tables ---------------------------------
(***************************************************************************)
(* Database tables: a table is a function from primary keys to rows.       *)
(***************************************************************************)
EXTENDS Integers, FiniteSets, SequencesExt

NextId(table) == Max({0} \cup DOMAIN table) + 1

Insert(table, row) ==
    [i \in DOMAIN table \cup {NextId(table)} |-> IF i \in DOMAIN table THEN table[i] ELSE row]

Without(table, ids) == Restrict(table, DOMAIN table \ ids)

Where(table, P(_)) == {i \in DOMAIN table : P(table[i])}

(* The columns of the rows have their types, and ids are primary keys. *)
IsTable(table, rows) ==
    /\ IsFiniteSet(DOMAIN table) /\ DOMAIN table \subseteq Nat \ {0}
    /\ table \in [DOMAIN table -> rows]

(* A list without the members that are not in S. *)
Chosen(list, S) ==
    FoldLeft(LAMBDA taken, x : IF x \in S THEN Append(taken, x) ELSE taken, <<>>, list)

Total(S, val(_)) == SumFunctionOnSet([x \in S |-> val(x)], S)

InOrder(S, Before(_, _)) ==
    [n \in 1 .. Cardinality(S) |->
        CHOOSE x \in S : Cardinality({y \in S : Before(y, x)}) = n - 1]

(* ORDER BY event_time, id *)
Sooner(time(_), d, e) == time(d) < time(e) \/ (time(d) = time(e) /\ d < e)

InTimeOrder(evs, ids) == InOrder(ids, LAMBDA d, e : Sooner(LAMBDA i : evs[i].time, d, e))
=============================================================================
