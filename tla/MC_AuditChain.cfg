\* Three replicas, four requests, both databases.
SPECIFICATION FairSpec
CONSTANTS
    a = a
    b = b
    c = c
    d = d
    p1 = p1
    p2 = p2
    p3 = p3
    None = None
    Txs <- McTxs
    Procs <- McProcs
    HomeOf <- McHome
    Budget <- McBudget
    Dialects = {"postgresql", "sqlite"}
    Batch = 2
INVARIANTS ChainIntact AppendsSerialised NoFalseAlarm AlterationDetected
PROPERTIES WholeTransactions RequestsEnd
