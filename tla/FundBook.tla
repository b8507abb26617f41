------------------------------ MODULE FundBook ------------------------------
(***************************************************************************)
(* Package funds: the book of the investment funds.  A book changes by     *)
(* events only; Apply is what one event does to it, live and replayed, and *)
(* Accepts says which events it takes.                                     *)
(*                                                                         *)
(* Money and units are integers and a unit is launched at one unit of      *)
(* money; a NAV is the fraction [of, per] of a value and the units it is   *)
(* for.  Names, texts and times are left out.                              *)
(***************************************************************************)
EXTENDS Integers, Sequences, FiniteSets, SequencesExt

LaunchNAV == [of |-> 1, per |-> 1]

Above(a, b) == a.of * b.per > b.of * a.per

(* NAV times units, to the nearest unit of money. *)
ValueOf(units, nav) == (2 * units * nav.of + nav.per) \div (2 * nav.per)

(* What a fund is launched with, before anybody holds units of it. *)
Launched(f) ==
    [account |-> f.account, members |-> f.members, trader |-> f.trader,
     fee |-> 0, units |-> 0, seeded |-> 0, minted |-> 0, redeemed |-> 0,
     active |-> TRUE, mark |-> LaunchNAV, peak |-> LaunchNAV,
     fall |-> [of |-> 0, per |-> 1],
     aums |-> <<>>]

NewBook ==
    [formed |-> FALSE, funds |-> <<>>, held |-> <<>>, inflow |-> <<>>,
     ranking |-> <<>>, moves |-> <<>>, risks |-> <<>>, checks |-> <<>>, logs |-> <<>>]

NoHolding == [units |-> 0, paid |-> 0, back |-> 0, seed |-> FALSE]

HoldingIn(b, who, f) ==
    IF <<who, f>> \in DOMAIN b.held THEN b.held[<<who, f>>] ELSE NoHolding

(* A function with one more value, and one laid over another. *)
Put(g, k, v) == [x \in DOMAIN g \cup {k} |-> IF x = k THEN v ELSE g[x]]

Over(g, h) == [x \in DOMAIN g \cup DOMAIN h |-> IF x \in DOMAIN g THEN g[x] ELSE h[x]]

InflowIn(b, w, f) == IF <<w, f>> \in DOMAIN b.inflow THEN b.inflow[<<w, f>>] ELSE 0

(* The larger of two falls, each a fraction. *)
Deeper(a, b) == IF Above(b, a) THEN b ELSE a

-----------------------------------------------------------------------------
(* What each event does.  A definition named ...Mutant is a plausible bug  *)
(* in the one after it; only the mutation runs use it.                     *)

(* formed: the funds, and the units their teams get for what they bring.   *)
Brought(seeds, f) ==
    SumFunction([i \in {n \in DOMAIN seeds : seeds[n].fund = f} |-> seeds[i].units])

SeedOf(seeds, k) == CHOOSE s \in ToSet(seeds) : <<s.team, s.fund>> = k

Form(b, ev) ==
    [b EXCEPT
        !.formed = TRUE, !.ranking = ev.ranking, !.moves = ev.moves,
        !.funds = [f \in DOMAIN ev.funds |->
                     [Launched(ev.funds[f]) EXCEPT !.units = Brought(ev.seeds, f),
                                                   !.seeded = Brought(ev.seeds, f)]],
        !.held = [k \in {<<s.team, s.fund>> : s \in ToSet(ev.seeds)} |->
                    [units |-> SeedOf(ev.seeds, k).units, paid |-> SeedOf(ev.seeds, k).amount,
                     back |-> 0, seed |-> TRUE]]]

AllocMutant(b, ev) ==
    LET k == <<ev.who, ev.fund>>
        h == HoldingIn(b, ev.who, ev.fund)
    IN  [b EXCEPT
            !.held = Put(@, k, [h EXCEPT !.units = ev.units, !.paid = @ + ev.amount]),
            !.inflow = Put(@, <<ev.window, ev.fund>>,
                           InflowIn(b, ev.window, ev.fund) + ev.amount),
            !.funds[ev.fund].units = @ + ev.units,
            !.funds[ev.fund].minted = @ + ev.units]

(* alloc: units for money, counted in the window's inflow. *)
Alloc(b, ev) ==
    LET k == <<ev.who, ev.fund>>
        h == HoldingIn(b, ev.who, ev.fund)
    IN  [b EXCEPT
            !.held = Put(@, k, [h EXCEPT !.units = @ + ev.units, !.paid = @ + ev.amount]),
            !.inflow = Put(@, <<ev.window, ev.fund>>,
                           InflowIn(b, ev.window, ev.fund) + ev.amount),
            !.funds[ev.fund].units = @ + ev.units,
            !.funds[ev.fund].minted = @ + ev.units]

(* Units never go below zero, whatever an event says. *)
Less(n, m) == IF m < n THEN n - m ELSE 0

(* redeem: money for units; the inflow of the window stands.               *)
Redeem(b, ev) ==
    LET k == <<ev.who, ev.fund>>
        h == HoldingIn(b, ev.who, ev.fund)
    IN  [b EXCEPT
            !.held = Put(@, k, [h EXCEPT !.units = Less(@, ev.units), !.back = @ + ev.amount]),
            !.funds[ev.fund].units = Less(@, ev.units),
            !.funds[ev.fund].redeemed = @ + ev.units]

(* series: the highest value and the largest fall of investors and funds,  *)
(* and the funds' values since the last checkpoint.                        *)
Sampled(r, v) ==
    LET peak == IF v > r.peak THEN v ELSE r.peak
    IN  [r EXCEPT !.peak = peak,
                  !.fall = IF peak > 0 THEN Deeper(@, [of |-> peak - v, per |-> peak])
                           ELSE @]

FallFrom(peak, nav) ==
    [of |-> peak.of * nav.per - nav.of * peak.per, per |-> peak.of * nav.per]

Rated(f, nav) ==
    LET peak == IF Above(nav, f.peak) THEN nav ELSE f.peak
    IN  [f EXCEPT !.peak = peak, !.fall = Deeper(@, FallFrom(peak, nav))]

RisksWith(b, ev) ==
    LET seen(i) == IF i \in DOMAIN b.risks THEN b.risks[i]
                   ELSE [first |-> ev.values[i], peak |-> ev.values[i],
                         fall |-> [of |-> 0, per |-> 1]]
    IN  Over([i \in DOMAIN ev.values |-> Sampled(seen(i), ev.values[i])], b.risks)

Sample(b, ev) ==
    [b EXCEPT
        !.risks = RisksWith(b, ev),
        !.funds = [f \in DOMAIN b.funds |->
            IF f \in DOMAIN ev.navs
            THEN [Rated(b.funds[f], ev.navs[f]) EXCEPT !.aums = Append(@, ev.aums[f])]
            ELSE b.funds[f]]]

CheckMutant(b, ev) == [b EXCEPT !.checks = Append(@, ev.check)]

(* checkpoint: the high-water marks, and the start of the next period.     *)
Check(b, ev) ==
    [b EXCEPT
        !.checks = Append(@, ev.check),
        !.funds = [f \in DOMAIN @ |->
            IF f \in DOMAIN ev.check.funds
            THEN [@[f] EXCEPT !.mark = ev.check.funds[f].markAfter, !.aums = <<>>]
            ELSE @[f]]]

(* Events about a fund are taken only while there is that fund, and the    *)
(* trader has to be one of its teams.                                      *)
Accepts(b, ev) ==
    CASE ev.op = "formed" -> ~b.formed
      [] ev.op \in {"profile", "alloc", "redeem", "fundDQ"} -> ev.fund \in DOMAIN b.funds
      [] ev.op = "trader" -> /\ ev.fund \in DOMAIN b.funds
                             /\ ev.who \in ToSet(b.funds[ev.fund].members)
      [] OTHER -> TRUE

Apply(b, ev) ==
    CASE ev.op = "formed"     -> Form(b, ev)
      [] ev.op = "alloc"      -> Alloc(b, ev)
      [] ev.op = "redeem"     -> Redeem(b, ev)
      [] ev.op = "series"     -> Sample(b, ev)
      [] ev.op = "checkpoint" -> Check(b, ev)
      [] ev.op = "profile"    -> [b EXCEPT !.funds[ev.fund].fee = ev.fee]
      [] ev.op = "trader"     -> [b EXCEPT !.funds[ev.fund].trader = ev.who]
      [] ev.op = "fundDQ"     -> [b EXCEPT !.funds[ev.fund].active = FALSE]
      [] ev.op = "log"        -> [b EXCEPT !.logs = Append(@, ev.entry)]
      [] ev.op = "dissolve"   -> NewBook

-----------------------------------------------------------------------------
(* What the book is asked. *)

FundOfMember(b, who) == {f \in DOMAIN b.funds : who \in ToSet(b.funds[f].members)}

(* Everybody who ever put money into a fund; a fund's own teams do not     *)
(* count.                                                                  *)
InvestorsOf(b, f) ==
    {k[1] : k \in {h \in DOMAIN b.held : h[2] = f /\ ~b.held[h].seed}}

Investors(b) == UNION {InvestorsOf(b, f) : f \in DOMAIN b.funds}

HasInvestors(b, f) == \E i \in InvestorsOf(b, f) : b.held[<<i, f>>].paid > 0

(* The share of the units ever issued that are still invested. *)
Retention(b, f) ==
    LET fund == b.funds[f]
    IN  IF fund.minted <= 0 THEN [of |-> 1, per |-> 1]
        ELSE [of |-> Less(fund.minted, fund.redeemed), per |-> fund.minted]

(* The investors of a fund who are in profit at this NAV. *)
InProfit(b, f, nav) ==
    {i \in InvestorsOf(b, f) : LET h == b.held[<<i, f>>]
                               IN  h.paid > 0 /\ ValueOf(h.units, nav) + h.back > h.paid}

(* The fee on the average value since the last checkpoint; the first       *)
(* checkpoint only starts the period.  Percentages are fractions of 100.   *)
ManagementFee(b, f, aum, mgmt) ==
    LET fund == b.funds[f]
        sum  == FoldLeft(LAMBDA n, v : n + v, 0, fund.aums)
        avg  == IF fund.aums = <<>> THEN [of |-> aum, per |-> 1]
                ELSE [of |-> sum, per |-> Len(fund.aums)]
        rate == IF fund.fee > 0 THEN fund.fee ELSE mgmt
    IN  IF b.checks = <<>> THEN 0
        ELSE ValueOf(rate, [of |-> avg.of, per |-> avg.per * 100])

(* The fee on the profit per unit above the high-water mark.               *)
PerformanceFee(fund, nav, perf) ==
    LET profit == [of  |-> (nav.of * fund.mark.per - fund.mark.of * nav.per) * perf,
                   per |-> nav.per * fund.mark.per * 100]
    IN  IF Above(nav, fund.mark) THEN ValueOf(fund.units, profit) ELSE 0

(* PlanCheckpoint: what a checkpoint says of a fund, and of all.           *)
Checked(b, f, nav, aum, mgmt, perf) ==
    LET mark == b.funds[f].mark
    IN  [nav |-> nav,
         mgmt |-> ManagementFee(b, f, aum, mgmt),
         perf |-> PerformanceFee(b.funds[f], nav, perf),
         markBefore |-> mark,
         markAfter  |-> IF Above(nav, mark) THEN nav ELSE mark]

PlanCheckpoint(b, name, navs, aums, mgmt, perf) ==
    [name  |-> name,
     funds |-> [f \in DOMAIN b.funds |->
                  Checked(b, f, IF navs[f].of > 0 THEN navs[f] ELSE LaunchNAV,
                          aums[f], mgmt, perf)]]
=============================================================================
