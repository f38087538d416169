---------------------------- MODULE MCFundingLots ----------------------------
(* Small instances of FundingLots. *)
EXTENDS FundingLots, TLC

CONSTANTS u1, u2, USD, EUR

\* Five cents over three units: every proportional share is rounded.
FiveOrUnknown == {NoBasis, 5}

Symmetry == Permutations(Users) \cup Permutations(Currencies)
=============================================================================
