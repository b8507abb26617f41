CONSTANTS
    Team = {"t1", "t2", "i1"}
    FundIds <- Ids
    Standing <- Result
    TieBreak <- Steps
    Toss <- Coins
    Sym = "s"
    StartCash = 10
    Pasts <- Logs
    Price = {2, 3}
    Opening = 2
    Rules <- Book
    Call <- All
    Wants <- Requests
    Rush = FALSE
    MaxCalls = 3
    MaxMoves = 1
    MaxKills = 1
    MayBreak = TRUE
SPECIFICATION Spec
INVARIANTS MoneyKept UnitsOwned RestartMatches FeesOnNewHighs
PROPERTIES NavHolds
CHECK_DEADLOCK FALSE
