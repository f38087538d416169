\* A basis given in the request is not there when the books are rebuilt.
CONSTANTS
    u1 = u1
    u2 = u2
    fund = fund
    other = other
    NoBasis = NoBasis
    NoAsset = NoAsset
    Users = {u1}
    Assets = {fund, other}
    Times = {1}
    Payloads <- GivenPayloads
    Rates = {4}
    MaxEvents = 2
    MaxKey = 4
SPECIFICATION CreateSpec
INVARIANTS
    RecalculationDeterministic
CHECK_DEADLOCK FALSE
