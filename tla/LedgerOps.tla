------------------------------ MODULE LedgerOps ------------------------------
(***************************************************************************)
(* Package ledger: what one account holds and what each operation does to  *)
(* it.  An account is its cash and its positions; a position is a number   *)
(* of shares and what they cost together.  Live operations check first     *)
(* (Affords, Holds, Covers); replaying the log never refuses a record that *)
(* was accepted.  Amounts are integers: the int64 of the code is not       *)
(* reached by the amounts of the models.                                   *)
(*                                                                         *)
(* A change is a record of the log: a trade, a correction of cash, shares  *)
(* given at a price, or shares taken back.                                 *)
(***************************************************************************)
EXTENDS Integers, Sequences, SequencesExt

Opened(cash) == [cash |-> cash, pos |-> <<>>]

Position(a, s) ==
    IF s \in DOMAIN a.pos THEN a.pos[s] ELSE [qty |-> 0, cost |-> 0]

WithPosition(a, s, p) ==
    [a EXCEPT !.pos = [x \in DOMAIN a.pos \cup {s} |-> IF x = s THEN p ELSE a.pos[x]]]

-----------------------------------------------------------------------------
(* What live operations check under the account's lock.  A definition      *)
(* named ...Mutant is a plausible bug in the one after it; only the        *)
(* mutation runs use it.                                                   *)
Affords(a, amount) == a.cash >= amount

Holds(a, s, n) == s \in DOMAIN a.pos /\ a.pos[s].qty >= n

Covers(a, delta) == a.cash + delta >= 0

(* May this trade be made on the account as it stands? *)
TradeAllowed(a, t) == IF t.buy THEN Affords(a, t.price * t.qty)
                               ELSE Holds(a, t.sym, t.qty)

-----------------------------------------------------------------------------
(* n shares leave a position at its average cost; an empty one costs       *)
(* nothing, and a position is never left below zero.                       *)
Without(p, n) ==
    IF p.qty - n <= 0 THEN [qty |-> 0, cost |-> 0]
    ELSE [qty |-> p.qty - n, cost |-> p.cost - (p.cost * n) \div p.qty]

With(p, n, price) == [qty |-> p.qty + n, cost |-> p.cost + price * n]

AfterGrant(a, s, n, price) == WithPosition(a, s, With(Position(a, s), n, price))

AfterRevoke(a, s, n) == WithPosition(a, s, Without(Position(a, s), n))

AfterCash(a, delta) == [a EXCEPT !.cash = @ + delta]

(* applyTrade: a buy pays and adds shares at what they cost, a sale is     *)
(* paid and takes shares at average cost.                                  *)
AfterTrade(a, t) ==
    LET paid == AfterCash(a, IF t.buy THEN -(t.price * t.qty) ELSE t.price * t.qty)
    IN  IF t.buy THEN AfterGrant(paid, t.sym, t.qty, t.price)
                 ELSE AfterRevoke(paid, t.sym, t.qty)

(* The average cost of a share, for undoing a revocation. *)
Average(a, s) ==
    LET p == Position(a, s) IN IF p.qty > 0 THEN p.cost \div p.qty ELSE 0

(* What the account is worth at these prices. *)
Worth(a, price) ==
    a.cash + SumFunction([s \in DOMAIN a.pos |-> a.pos[s].qty * price[s]])

-----------------------------------------------------------------------------
(* Between two accounts: cash, or shares with what they cost.  Neither     *)
(* refuses: Move has checked the cash, and MoveShares leaves the check to  *)
(* its caller.                                                             *)
MoveCash(accts, from, to, amount) ==
    LET paid == [accts EXCEPT ![from].cash = @ - amount]
    IN  [paid EXCEPT ![to].cash = @ + amount]

MoveShares(accts, from, to, s, n, cost) ==
    LET src  == accts[from]
        p    == Position(src, s)
        left == IF p.qty - n <= 0 THEN [qty |-> 0, cost |-> 0]
                ELSE [qty |-> p.qty - n, cost |-> p.cost - cost]
        dst  == Position(accts[to], s)
        sent == [accts EXCEPT ![from] = IF s \in DOMAIN src.pos
                                        THEN WithPosition(@, s, left) ELSE @]
    IN  [sent EXCEPT ![to] = WithPosition(@, s, [qty |-> dst.qty + n, cost |-> dst.cost + cost])]

-----------------------------------------------------------------------------
AfterMutant(a, rec) ==
    CASE rec.kind = "trade" -> AfterTrade(a, rec)
      [] rec.kind = "cash"  -> AfterCash(a, rec.delta)
      [] rec.kind = "give"  -> AfterGrant(a, rec.sym, rec.qty, rec.price)
      [] rec.kind = "take"  -> a

(* What a record of the log does to its account. *)
After(a, rec) ==
    CASE rec.kind = "trade" -> AfterTrade(a, rec)
      [] rec.kind = "cash"  -> AfterCash(a, rec.delta)
      [] rec.kind = "give"  -> AfterGrant(a, rec.sym, rec.qty, rec.price)
      [] rec.kind = "take"  -> AfterRevoke(a, rec.sym, rec.qty)

(* The one record a replay refuses: shares taken from a position that was  *)
(* never opened.                                                           *)
Replayable(a, rec) == rec.kind = "take" => rec.sym \in DOMAIN a.pos

(* The accounts after replaying a log over the opening balances. *)
Replayed(opening, log) ==
    FoldLeft(LAMBDA accts, rec : [accts EXCEPT ![rec.acct] = After(@, rec)],
             opening, log)
=============================================================================
