SPECIFICATION Spec
CONSTANTS
 None = None
 UpperCase <- SomeUpperCase
 EditTimes = {1}
 Trades <- SomeTrades
 Holdings <- SomeHoldings
 PrimaryRates = {5}
 Workbooks <- SomeWorkbooks
 Registered = {"known"}
 MaxTransactions = 3
 MaxLedger = 4
 MaxProducts = 2
 MaxChanges = 2
INVARIANTS
 AverageWithinPrices
PROPERTIES
 ReimportAddsNothing
 ImportCompletes
 NothingSoldUnheld
 LedgerKeepsUp
 DedupeLosesNothing
CHECK_DEADLOCK FALSE
