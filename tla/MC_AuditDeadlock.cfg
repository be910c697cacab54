\* One process on PostgreSQL; a request with two records meets another.
SPECIFICATION FairSpec
CONSTANTS
    a = a
    b = b
    c = c
    d = d
    p1 = p1
    p2 = p2
    p3 = p3
    None = None
    Txs = {a, b}
    Procs = {p1}
    HomeOf <- OneHome
    Budget <- OneBudget
    Dialects = {"postgresql"}
    Batch = 2
PROPERTY RequestsEnd
