CONSTANTS
    old = old
    new = new
    team = team
    trade = trade
    reset = reset
    bad = bad
    Earlier <- Order
    Holder <- Account
    Server = {s1, s2}
    Nobody = nobody
    Record = {bad, trade, old, new, reset}
    Bad = {bad}
    Ruled = {old, new}
    Reset = {reset}
    Unfit = {old}
    Batch = 2
    Capacity = 2
    MaxOpens = 2
    MaxUpsets = 1
SPECIFICATION FairSpec
PROPERTIES ImplementsDurableLog AppendReturns CatchesUp
INVARIANTS TablesFollow
CHECK_DEADLOCK FALSE
