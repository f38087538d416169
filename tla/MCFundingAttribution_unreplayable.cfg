\* Re-rating an adjustment of unknown basis makes the rebuild fail.
CONSTANTS
    u1 = u1
    u2 = u2
    fund = fund
    other = other
    NoBasis = NoBasis
    NoAsset = NoAsset
    Users = {u1}
    Assets = {fund, other}
    Times = {1}
    Payloads <- UnknownPayloads
    Rates = {4}
    MaxEvents = 2
    MaxKey = 4
SPECIFICATION Spec
INVARIANTS
    HistoryReplayable
CHECK_DEADLOCK FALSE
