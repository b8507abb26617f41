CONSTANTS
    n1 = n1
    n2 = n2
    c1 = c1
    c2 = c2
    x = x
    y = y
    y2 = y2
    w = w
    None = None
    Team = {"t1", "t2"}
    Account = {"t1", "t2"}
    Member = {"m1", "m2"}
    Address = {y, y2, w}
    Mailbox <- Boxes
    Founder <- First
    TeamSize = 2
    Token = {"k1"}
    Newcomer = {n1, n2}
    Actor = {"a1", "a2"}
    Call = {"SignOut", "Lock", "Unlock", "Eject", "Readmit", "Promote", "Warn", "Disqualify", "Reinstate", "SetRole", "NewTeamCode", "SetTrader", "Remove", "SignOutMember", "SignOutAll", "Reset", "Fresh"}
    Socket = {c1, c2}
    PerAccount = 1
    MaxConns = 2
    MaxDeeds = 4
    MaxUpsets = 1
    Overtake = FALSE
SYMMETRY Like
SPECIFICATION Spec
INVARIANTS OneMailbox RestartMatches PagesClosed FewPages
PROPERTIES EndedStays
CHECK_DEADLOCK FALSE
