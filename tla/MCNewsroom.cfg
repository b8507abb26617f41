CONSTANTS
    Schedule <- Scenario
    Story <- Stories
    Desk = {"word"}
    Table <- OneStep
    Drift = 1
    Opening = 8
    Least = 1
    Floor = 3
    Cap = 9
    Grid = 2
    TickSeconds = 1
    MarketClock = TRUE
    Lead = 3
    Poll = 2
    Phase2 = 2
    Close = 4
    Organiser = {organiser}
    Wants <- Requests
    MaxWall = 3
    MaxCalls = 1
    MaxUpsets = 2
    MaxItems = 8
SPECIFICATION FairSpec
INVARIANTS FiredOnce PriceInside
PROPERTIES HeadStart 
CHECK_DEADLOCK FALSE
