------------------------------ MODULE MCFundOps ------------------------------
(* One fund of two teams, an investor, and the requests of all of them.    *)
EXTENDS FundOps

Ids == <<"F1">>

Result == {[id |-> 1, team |-> "t1", value |-> 12, peak |-> 12, trades |-> 1],
           [id |-> 2, team |-> "t2", value |-> 12, peak |-> 14, trades |-> 1],
           [id |-> 3, team |-> "i1", value |-> 10, peak |-> 10, trades |-> 0]}
Steps  == <<"peak", "trades", "toss">>
Coins  == [i \in 1 .. 3 |-> i]

Bought(who, n) == [kind |-> "trade", acct |-> who, sym |-> "s", buy |-> TRUE, qty |-> n, price |-> 2]
Phase1 == <<Bought("t1", 4), Bought("t2", 5)>>

Book == [floor |-> 2, floorPercent |-> 10, mandatory |-> 30, single |-> 60,
         mgmt |-> 10, perf |-> 50, logs |-> 1]

Invest(n)   == [kind |-> "alloc", who |-> "i1", fund |-> "F1", amount |-> n]
TakeOut(n)  == [kind |-> "redeem", who |-> "i1", fund |-> "F1", amount |-> n, all |-> FALSE]
Deal(u, buy, n) == [kind |-> "trade", who |-> u, buy |-> buy, qty |-> n]

Requests ==
    [form     |-> [kind |-> "form", pairs |-> <<>>],
     chosen   |-> [kind |-> "form", pairs |-> << <<"t1", "t2">> >>],
     dissolve |-> [kind |-> "dissolve"],
     trader   |-> [kind |-> "trader", who |-> "t1", fund |-> "F1"],
     fee      |-> [kind |-> "profile", who |-> "t2", fee |-> 20],
     deal     |-> Deal("t2", TRUE, 1),
     own      |-> Deal("i1", TRUE, 3),
     enter    |-> Invest(3), more |-> Invest(3),
     leave    |-> TakeOut(3),
     first    |-> [kind |-> "checkpoint", name |-> "w0"],
     last     |-> [kind |-> "checkpoint", name |-> "final"],
     sample   |-> [kind |-> "sample"],
     out      |-> [kind |-> "fundDQ", fund |-> "F1"],
     entry    |-> [kind |-> "log", who |-> "i1"]]

All == {"form", "chosen", "dissolve", "trader", "fee", "deal", "enter", "leave", "first", "last",
        "sample", "out", "entry"}

(* The log once the funds have been formed at a price of 2. *)
Shares(who, n) == [from |-> who, to |-> "F1", cash |-> 0, qty |-> n, cost |-> 2 * n]
Cash(who, n)   == [from |-> who, to |-> "F1", cash |-> n, qty |-> 0, cost |-> 0]
Seed(who)   == [fund |-> "F1", team |-> who, amount |-> 10, units |-> 10]
Promoted(who) == [kind |-> "role", who |-> who, role |-> "manager"]
Pairing     == << <<"t2", "t1">> >>
Formed ==
    Phase1 \o
    << FundRecord([op |-> "formed", funds |-> FundsOf(Pairing), ranking |-> Pairing,
                   moves |-> <<Shares("t2", 5), Cash("t1", 2), Shares("t1", 4)>>,
                   seeds |-> <<Seed("t2"), Seed("t1")>>]),
       Promoted("t2"), Promoted("t1") >>

(* ... and somebody has put money in since, which the fund has spent. *)
Invested ==
    Formed \o << FundRecord([op |-> "alloc", fund |-> "F1", who |-> "i1", window |-> 0,
                               amount |-> 3, units |-> 3, nav |-> [of |-> 20, per |-> 20],
                               at |-> 0]),
                 Bought("F1", 2) >>

Logs == {Phase1, Invested}
=============================================================================
