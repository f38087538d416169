SPECIFICATION Spec
CONSTANTS
 None = None
 UpperCase <- SomeUpperCase
 EditTimes = {1}
 Trades <- SomeTrades
 Holdings <- SomeHoldings
 PrimaryRates = {5}
 Workbooks <- TwinWorkbooks
 Registered = {"known"}
 MaxTransactions = 2
 MaxLedger = 3
 MaxProducts = 2
 MaxChanges = 0
PROPERTIES
 ReimportSkipsExisting
CHECK_DEADLOCK FALSE
