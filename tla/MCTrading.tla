----------------------------- MODULE MCTrading -----------------------------
(* Small worlds for Trading: requests that repeat, contradict and compete  *)
(* with one another, and the corrections an organiser may make meanwhile.  *)
EXTENDS Trading

CONSTANTS a1, a2, s1, s2

Ask1(acct, cid, sym, buy, qty) ==
    [acct |-> acct, cid |-> cid, sym |-> sym, buy |-> buy, qty |-> qty, expect |-> 0]

(* Two purchases of one account under two ids, one of the ids used again   *)
(* for a sale, and the other by another account.                           *)
Retries == {Ask1(a1, "x", s1, TRUE, 1), Ask1(a1, "y", s1, TRUE, 1),
            Ask1(a1, "y", s1, FALSE, 1), Ask1(a2, "x", s1, TRUE, 1)}

(* Buys and a sale of one account; one names the price it expects. *)
Dealing == {Ask1(a1, "x", s1, TRUE, 2), Ask1(a1, "y", s1, FALSE, 1),
            [Ask1(a1, "z", s1, TRUE, 1) EXCEPT !.expect = 10]}

(* A purchase, the same purchase again or a sale under its id, and a       *)
(* purchase under another that names the price it expects.                 *)
Mixed == {Ask1(a1, "x", s1, TRUE, 1), Ask1(a1, "x", s1, FALSE, 1),
          [Ask1(a1, "y", s1, TRUE, 1) EXCEPT !.expect = 10]}

OnePrice  == {[s \in {s1, s2} |-> 10]}
TwoPrices == {[s \in {s1, s2} |-> p] : p \in {10, 15}}

Cash(delta) == [kind |-> "cash", acct |-> a1, delta |-> delta]
Take(n)     == [kind |-> "take", acct |-> a1, sym |-> s1, qty |-> n]
Hold(n)     == [kind |-> "hold", acct |-> a1, sym |-> s1, qty |-> n]
SetTo(n)    == [kind |-> "set", acct |-> a1, cash |-> n]

NoOps       == {}
Withdrawals == {Cash(-20), Take(1), Hold(2)}
Credits     == {Cash(10), SetTo(20)}
Takes       == {Take(1)}
=============================================================================
