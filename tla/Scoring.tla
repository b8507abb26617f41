------------------------------- MODULE Scoring -------------------------------
(***************************************************************************)
(* Package scoring: the ranking of Phase 1, the pairing of the teams that  *)
(* qualify, and what a fund may take in during an allocation window.       *)
(*                                                                         *)
(* A standing is [id, value, peak, trades]: ids are numbers in the order   *)
(* the code's account ids compare.  Money is in integers; a percentage is  *)
(* rounded where the code rounds it.                                       *)
(***************************************************************************)
EXTENDS Integers, Sequences, FiniteSets, SequencesExt

(* n / d to the nearest integer, halves up. *)
Rounded(n, d) == (2 * n + d) \div (2 * d)

Total(values) == FoldLeft(LAMBDA sum, v : sum + v, 0, values)

-----------------------------------------------------------------------------
(* Ranking.  Every step of a comparison has a key; the lower key is ahead. *)
StepKey(step, s, toss) ==
    CASE step = "value"  -> -s.value
      [] step = "peak"   -> -s.peak
      [] step = "trades" -> s.trades
      [] step = "toss"   -> toss[s.id]
      [] step = "id"     -> s.id

(* The value first, then the configured steps, then the account's id.      *)
Comparison(tieBreak) == <<"value">> \o tieBreak \o <<"id">>

(* The first step that separates two teams. *)
Decider(a, b, tieBreak, toss) ==
    LET steps == Comparison(tieBreak)
        apart == {i \in DOMAIN steps :
                    StepKey(steps[i], a, toss) # StepKey(steps[i], b, toss)}
    IN  steps[CHOOSE i \in apart : \A j \in apart : i <= j]

Ahead(a, b, tieBreak, toss) ==
    LET step == Decider(a, b, tieBreak, toss)
    IN  StepKey(step, a, toss) < StepKey(step, b, toss)

(* RankPhase1: best first, each with what put it behind the one above.     *)
RankPhase1(standings, tieBreak, toss) ==
    LET order == SetToSortSeq(standings, LAMBDA a, b : Ahead(a, b, tieBreak, toss))
    IN  [i \in DOMAIN order |->
            [team |-> order[i], rank |-> i,
             decidedBy |-> IF i = 1 THEN "value"
                           ELSE Decider(order[i - 1], order[i], tieBreak, toss)]]

(* Rank k is paired with rank n + 1 - k; the number of teams is even.      *)
MirrorPairing(best) ==
    [k \in 1 .. Len(best) \div 2 |-> <<best[k], best[Len(best) + 1 - k]>>]

-----------------------------------------------------------------------------
(* Limits on investments. *)

(* The lower of the absolute floor and a share of the wallet. *)
MinInvestment(wallet, floor, percent) ==
    LET share == Rounded(wallet * percent, 100)
    IN  IF share < floor THEN share ELSE floor

MandatoryPool(values, percent) == Rounded(percent * Total(values), 100)

(* A fund of a window is [heads, inflow, active]. *)
Tranche(f, pool, count, standard) == (pool * f.heads) \div (count * standard)

(* The level of a window: one above the whole tranches filled by the       *)
(* active fund that has filled fewest.  What is left of a tranche counts   *)
(* as filled when it is less than the smallest ticket.                     *)
Level(funds, pool, count, standard, ticket) ==
    LET active == {f \in DOMAIN funds : funds[f].active}
        spare  == IF ticket > 1 THEN ticket - 1 ELSE 0
        filled(f) == (funds[f].inflow + spare) \div Tranche(funds[f], pool, count, standard)
    IN  IF active = {} \/ \E f \in active : Tranche(funds[f], pool, count, standard) <= 0
        THEN 1
        ELSE 1 + filled(CHOOSE f \in active : \A g \in active : filled(f) <= filled(g))

(* How much more each fund may take now; Unlimited when there is no pool.  *)
Rooms(funds, pool, count, standard, ticket, unlimited) ==
    LET level == Level(funds, pool, count, standard, ticket)
        left(f) == level * Tranche(funds[f], pool, count, standard) - funds[f].inflow
    IN  [f \in DOMAIN funds |->
            IF ~funds[f].active THEN 0
            ELSE IF Tranche(funds[f], pool, count, standard) <= 0 THEN unlimited
            ELSE IF left(f) > 0 THEN left(f) ELSE 0]

(* Herfindahl: the sum of the squared shares of what is held, as a         *)
(* fraction; 1 when nothing is.                                            *)
Herfindahl(values) ==
    LET kept  == SelectSeq(values, LAMBDA v : v > 0)
        total == Total(kept)
    IN  IF total <= 0 THEN <<1, 1>>
        ELSE <<Total([i \in DOMAIN kept |-> kept[i] * kept[i]]), total * total>>
=============================================================================
