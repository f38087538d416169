\* Two users whose events are deleted, edited, re-rated and rebuilt.
CONSTANTS
    u1 = u1
    u2 = u2
    fund = fund
    other = other
    NoBasis = NoBasis
    NoAsset = NoAsset
    Users = {u1, u2}
    Assets = {fund}
    Times = {1, 2}
    Payloads <- HistoryPayloads
    Rates = {4}
    MaxEvents = 3
    MaxKey = 3
SPECIFICATION Spec
SYMMETRY Symmetry
INVARIANTS
    NoStrayRows
    NeverSpentTwice
    RebuildRepairs
PROPERTIES
    OneOwnerPerRequest
CHECK_DEADLOCK FALSE
