CONSTANTS
    a1 = a1 a2 = a2 s1 = s1 s2 = s2
    Account = {a1}
    Symbol = {s1}
    Call = {c1, c2}
    Request <- Mixed
    Organiser = {o1}
    Operation <- Withdrawals
    PriceTable <- TwoPrices
    StartCash = 20
    MaxPercent = 50
    MaxMoves = 1
    MaxKills = 1
    MaxPowerCuts = 1
SPECIFICATION FairSpec
INVARIANTS OnceOnly RetriesAgree OwnTradesStand BooksStand Diversified
PROPERTIES OneBook RequestsEnd
CHECK_DEADLOCK FALSE
