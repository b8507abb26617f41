------------------------------- MODULE FundOps -------------------------------
(***************************************************************************)
(* app/funds.go: the operations on the investment funds, their log, and    *)
(* the restart that replays it.  The funds are formed of the best teams'   *)
(* whole portfolios, investors put money in and take it out, the trader of *)
(* a fund trades with its account, and organisers may take it all apart.   *)
(*                                                                         *)
(* Everything that changes the book holds fundMu, which is where the calls *)
(* are; what a call checks before it has fundMu may be out of date when it *)
(* acts.  Trades take no fundMu.  One company is traded; a trade, or a     *)
(* move of cash that is stored, is one step under the ledger's locks.      *)
(***************************************************************************)
EXTENDS FundBook, LedgerOps

Sc == INSTANCE Scoring

CONSTANTS
    Team,           \* the users that are not organisers
    FundIds,        \* the funds there may be, in order of their number
    Standing,       \* the Phase 1 result: [id, team, value, peak, trades]
    TieBreak, Toss,
    Sym,            \* the company that is traded
    StartCash,
    Pasts,          \* the logs it may start from
    Price, Opening, \* the prices the company may have, and the first of them
    Rules,          \* the rulebook: [floor, mandatory, single, mgmt, perf]
    Call, Wants,    \* the requests, and what each of them asks for
    Rush,           \* may forming and dissolving meet trades, trader and profile?
    MaxCalls, MaxMoves, MaxKills, MayBreak      \* bounds

(* What a request may ask for. *)
Request ==
    LET id == ToSet(FundIds) IN
         [kind : {"form"}, pairs : Seq(Team \X Team)]
    \cup [kind : {"dissolve", "sample"}]
    \cup [kind : {"checkpoint"}, name : STRING]
    \cup [kind : {"fundDQ"}, fund : id]
    \cup [kind : {"log"}, who : Team]
    \cup [kind : {"profile"}, who : Team, fee : Nat]
    \cup [kind : {"trader"}, who : Team, fund : id]
    \cup [kind : {"trade"}, who : Team, buy : BOOLEAN, qty : Nat \ {0}]
    \cup [kind : {"alloc"}, who : Team, fund : id, amount : Nat \ {0}]
    \cup [kind : {"redeem"}, who : Team, fund : id, amount : Nat \ {0}, all : BOOLEAN]

ASSUME FundAssumption ==
    /\ IsFiniteSet(Team) /\ IsFiniteSet(Standing) /\ Team \cap ToSet(FundIds) = {}
    /\ FundIds \in Seq(ToSet(FundIds)) /\ IsInjective(FundIds)
    /\ StartCash \in Nat /\ Price \subseteq Nat \ {0} /\ Opening \in Price
    /\ Rules \in [floor : Nat, floorPercent : Nat, mandatory : Nat, single : Nat,
                  mgmt : Nat, perf : Nat, logs : Nat]
    /\ \A c \in Call : Wants[c] \in Request
    /\ Rush \in BOOLEAN /\ MayBreak \in BOOLEAN
    /\ MaxCalls \in Nat /\ MaxMoves \in Nat /\ MaxKills \in Nat

VARIABLES
    ledger,    \* the open accounts
    book,      \* the funds' book
    role,      \* the users' roles
    traded,    \* the accounts with a trade in the list of recent trades
    log, broken,
    pc, got,   \* where each call is, and what it has worked out
    price, open,            \* of the company; of the allocation window
    calls, moves, kills     \* how many there have been

state == <<ledger, book, role, traded>>
disk  == <<log, broken>>
world == <<price, open, calls, moves, kills>>
vars  == <<state, disk, pc, got, world>>

Window == 0
Nothing == [op |-> "nothing"]
Priced == [s \in {Sym} |-> price]

Investing(u) == role[u] = "investor"

-----------------------------------------------------------------------------
(* Replaying the log. *)

AfterMove(accts, m) == IF m.cash > 0 THEN MoveCash(accts, m.from, m.to, m.cash)
                       ELSE MoveShares(accts, m.from, m.to, Sym, m.qty, m.cost)

AfterMoves(accts, parts) == FoldLeft(AfterMove, accts, parts)

Removed(accts, gone) == [a \in DOMAIN accts \ gone |-> accts[a]]

WithFunds(accts, ids) == Over([f \in ids |-> Opened(0)], accts)

ReplayFundMutant(s, ev) ==
    LET b == Apply(s.book, ev)
    IN  CASE ev.op = "formed" ->
               [s EXCEPT !.book = b,
                         !.ledger = AfterMoves(WithFunds(@, DOMAIN ev.funds), ev.moves)]
          [] ev.op = "dissolve" ->
               [s EXCEPT !.book = b,
                         !.ledger = Removed(AfterMoves(@, ev.moves), DOMAIN s.book.funds)]
          [] ev.op = "alloc" ->
               [s EXCEPT !.book = b, !.ledger = MoveCash(@, ev.who, ev.fund, ev.amount)]
          [] ev.op = "redeem" ->
               [s EXCEPT !.book = b]
          [] OTHER -> [s EXCEPT !.book = b]

(* applyFundEvent, with replay: the cash of an allocation or a redemption  *)
(* moves too.                                                              *)
ReplayFund(s, ev) ==
    LET b == Apply(s.book, ev)
    IN  CASE ev.op = "formed" ->
               [s EXCEPT !.book = b,
                         !.ledger = AfterMoves(WithFunds(@, DOMAIN ev.funds), ev.moves)]
          [] ev.op = "dissolve" ->
               [s EXCEPT !.book = b,
                         !.ledger = Removed(AfterMoves(@, ev.moves), DOMAIN s.book.funds)]
          [] ev.op = "alloc" ->
               [s EXCEPT !.book = b, !.ledger = MoveCash(@, ev.who, ev.fund, ev.amount)]
          [] ev.op = "redeem" ->
               [s EXCEPT !.book = b, !.ledger = MoveCash(@, ev.fund, ev.who, ev.amount)]
          [] OTHER -> [s EXCEPT !.book = b]

(* What restore makes of a record, and whether it stops there. *)
Replays(s, rec) ==
    CASE rec.kind = "trade" -> rec.acct \in DOMAIN s.ledger
      [] rec.kind = "fund"  -> Accepts(s.book, rec.ev)
      [] rec.kind = "role"  -> TRUE

Replay(s, rec) ==
    CASE rec.kind = "trade" -> [s EXCEPT !.ledger[rec.acct] = AfterTrade(@, rec),
                                         !.traded = @ \cup {rec.acct}]
      [] rec.kind = "fund"  -> ReplayFund(s, rec.ev)
      [] rec.kind = "role"  -> [s EXCEPT !.role[rec.who] = rec.role]

Fresh == [ledger |-> [t \in Team |-> Opened(StartCash)], book |-> NewBook,
          role |-> [t \in Team |-> "investor"], traded |-> {}, ok |-> TRUE]

Restored(s, rec) == IF s.ok /\ Replays(s, rec) THEN Replay(s, rec)
                    ELSE [s EXCEPT !.ok = FALSE]

Rebuilt(l) == FoldLeft(Restored, Fresh, l)

(* What the state is made of. *)
FundId  == ToSet(FundIds)
Account == Team \cup FundId
Lot     == [qty : Nat, cost : Int]
Wallet  == [cash : Int, pos : [{} -> Lot] \cup [{Sym} -> Lot]]
Rate    == [of : Int, per : Nat \ {0}]
Move    == [from : Account, to : Account, cash : Nat, qty : Nat, cost : Int]
Given   == {m \in Move : m.from \in Team /\ m.to \in FundId}

FundOK(f) ==
    /\ f = [account |-> f.account, members |-> f.members, trader |-> f.trader,
            fee |-> f.fee, units |-> f.units, seeded |-> f.seeded, minted |-> f.minted,
            redeemed |-> f.redeemed, active |-> f.active, mark |-> f.mark,
            peak |-> f.peak, fall |-> f.fall, aums |-> f.aums]
    /\ f.members \in Team \X Team /\ f.trader \in Team /\ f.fee \in Nat
    /\ {f.units, f.seeded, f.minted, f.redeemed} \subseteq Int
    /\ f.mark \in Rate /\ f.peak \in Rate /\ f.aums \in Seq(Int)

CheckOK(k) ==
    \A f \in DOMAIN k.funds :
       k.funds[f].nav \in Rate /\ k.funds[f].markAfter \in Rate /\ k.funds[f].perf \in Int

BookOK(b) ==
    /\ b = [formed |-> b.formed, funds |-> b.funds, held |-> b.held, inflow |-> b.inflow,
            ranking |-> b.ranking, moves |-> b.moves, risks |-> b.risks,
            checks |-> b.checks, logs |-> b.logs]
    /\ b.formed \in BOOLEAN
    /\ b.moves \in Seq(Given)
    /\ b.funds = [f \in DOMAIN b.funds |-> b.funds[f]] /\ DOMAIN b.funds \subseteq FundId
    /\ ~b.formed => DOMAIN b.funds = {}
    /\ \A f \in DOMAIN b.funds : FundOK(b.funds[f])
    /\ b.held \in [DOMAIN b.held -> [units : Nat, paid : Int, back : Int, seed : BOOLEAN]]
    /\ DOMAIN b.held \subseteq Team \X DOMAIN b.funds
    /\ b.checks \in Seq(ToSet(b.checks))
    /\ \A k \in ToSet(b.checks) : CheckOK(k) /\ DOMAIN k.funds \subseteq DOMAIN b.funds

StateOK(s) ==
    /\ s = [ledger |-> s.ledger, book |-> s.book, role |-> s.role, traded |-> s.traded,
            ok |-> s.ok]
    /\ Team \subseteq DOMAIN s.ledger /\ DOMAIN s.ledger \subseteq Account
    /\ s.ledger \in [DOMAIN s.ledger -> Wallet]
    /\ BookOK(s.book) /\ DOMAIN s.book.funds \subseteq DOMAIN s.ledger
    /\ s.role \in [Team -> {"investor", "manager"}]
    /\ s.traded \subseteq Account /\ s.ok \in BOOLEAN

Live == [ledger |-> ledger, book |-> book, role |-> role, traded |-> traded, ok |-> TRUE]

(* The books are in order: units have owners, no NAV of a checkpoint was   *)
(* above the mark, fees were for new highs, and no team is in debt.        *)
UnitsIn(b) ==
    \A f \in DOMAIN b.funds :
        LET owners == {k \in DOMAIN b.held : k[2] = f}
            fund   == b.funds[f]
        IN  /\ fund.units = SumFunction([k \in owners |-> b.held[k].units])
            /\ fund.units = fund.seeded + fund.minted - fund.redeemed

MarksIn(b) ==
    \A k \in ToSet(b.checks) : \A f \in DOMAIN k.funds :
        ~Above(k.funds[f].nav, b.funds[f].mark)

HighsIn(b) ==
    \A i, j \in DOMAIN b.checks : i < j =>
        \A f \in DOMAIN b.checks[i].funds \cap DOMAIN b.checks[j].funds :
            b.checks[j].funds[f].perf > 0 =>
                Above(b.checks[j].funds[f].nav, b.checks[i].funds[f].nav)

InOrder(s) ==
    /\ UnitsIn(s.book) /\ MarksIn(s.book) /\ HighsIn(s.book)
    /\ \A t \in Team : s.ledger[t].cash >= 0

(* The server can start on each of the logs, and its books are in order.   *)
ASSUME PastAssumption ==
    \A past \in Pasts :
        LET s == Rebuilt(past)
        IN  past \in Seq(ToSet(past)) /\ s.ok /\ StateOK(s) /\ InOrder(s)

Becomes(s) == /\ ledger' = s.ledger /\ book' = s.book
              /\ role' = s.role /\ traded' = s.traded

Init ==
    /\ \E past \in Pasts :
          LET s == Rebuilt(past)
          IN  /\ ledger = s.ledger /\ book = s.book /\ role = s.role /\ traded = s.traded
              /\ log = past
    /\ broken = FALSE
    /\ pc = [c \in Call |-> "idle"]
    /\ got = [c \in Call |-> Nothing]
    /\ price = Opening /\ open = TRUE
    /\ calls = 0 /\ moves = 0 /\ kills = 0

-----------------------------------------------------------------------------
(* Values.  A definition named ...Mutant is a plausible bug in the one     *)
(* after it; only the mutation runs use it.                                *)

FundValue(f) == Worth(ledger[f], Priced)

NavOf(f) == IF book.funds[f].units <= 0 THEN LaunchNAV
            ELSE [of |-> FundValue(f), per |-> book.funds[f].units]

Navs == [f \in DOMAIN book.funds |-> NavOf(f)]

(* What somebody's units are worth, over all funds. *)
UnitsValue(who) ==
    Sc!Total([i \in DOMAIN FundIds |->
        IF FundIds[i] \in DOMAIN book.funds
        THEN ValueOf(HoldingIn(book, who, FundIds[i]).units, NavOf(FundIds[i])) ELSE 0])

TotalValue(who) == Worth(ledger[who], Priced) + UnitsValue(who)

(* The room of every fund under the equal-cap rule. *)
CapRooms ==
    LET investors == SetToSeq({u \in Team : Investing(u)})
        pool == Sc!MandatoryPool([i \in DOMAIN investors |-> TotalValue(investors[i])],
                                 Rules.mandatory)
        inflows == [f \in DOMAIN book.funds |->
                      [heads |-> 1, inflow |-> InflowIn(book, Window, f),
                       active |-> book.funds[f].active]]
    IN  Sc!Rooms(inflows, pool, Cardinality(DOMAIN book.funds), 1, Rules.floor, StartCash)

-----------------------------------------------------------------------------
(* Calls: where they are, and the locks they hold there. *)

Kind(c) == Wants[c].kind
Acting  == {"asked", "reading", "raising", "selling", "storing", "stored",
            "moving", "clearing", "roles", "made"}
\* then "over": answered, refused, failed or lost; or "stuck": not paid out

HoldsFundMu(c) == pc[c] \in Acting \ {"asked", "made"}
FundMuFree == \A c \in Call : ~HoldsFundMu(c)

To(c, place) == pc' = [pc EXCEPT ![c] = place]
Note(c, w)  == got' = [got EXCEPT ![c] = w]
Leaves(c, place) == To(c, place) /\ Note(c, Nothing)
Ends(c)     == Leaves(c, "over")

(* A record is stored, or the log fails and may have it all the same.      *)
Stored(rec) == ~broken /\ log' = Append(log, rec) /\ UNCHANGED broken
Failed(rec) ==
    /\ broken \/ MayBreak
    /\ broken' = TRUE
    /\ log' \in {log} \cup (IF broken THEN {} ELSE {Append(log, rec)})

FundRecord(ev) == [kind |-> "fund", ev |-> ev]

(* Unless Rush, forming and dissolving are kept apart from trades, and     *)
(* from SetFundTrader and SetFundProfile, which look at a fund before they *)
(* lock.  The code does not keep them apart: a trade may come between the  *)
(* reading of a portfolio and its moves, and a trader or profile may be    *)
(* logged for a fund that has been dissolved since, a record at which a    *)
(* restart stops.                                                          *)
Restructures(c) == Kind(c) \in {"form", "dissolve"}
Looks(c)        == Kind(c) \in {"trade", "trader", "profile"}
Quiet(c) ==
    \/ Rush
    \/ \A d \in Call \ {c} : pc[d] \in Acting =>
          ~(Restructures(c) /\ Looks(d)) /\ ~(Looks(c) /\ Restructures(d))

-----------------------------------------------------------------------------
(* What a call checks and notes before it has any lock. *)

(* App.Trade: a fund manager trades the fund's account, if it is active    *)
(* and this is the team that places its trades.                            *)
TradesWith(w) ==
    LET f == FundOfMember(book, w.who)
        managed == role[w.who] = "manager" /\ f # {}
    IN  IF managed
        THEN LET id == CHOOSE x \in f : TRUE
             IN  IF book.funds[id].active /\ book.funds[id].trader = w.who THEN {id} ELSE {}
        ELSE {w.who}

(* FundFee: the fund's own, or the rulebook's. *)
FeeOf(f) == IF book.funds[f].fee > 0 THEN book.funds[f].fee ELSE Rules.mgmt

(* SetFundProfile: the trader of a fund sets its fee until somebody has    *)
(* invested on the present one.                                            *)
MaySetFee(w) ==
    {f \in FundOfMember(book, w.who) :
        /\ role[w.who] = "manager" /\ book.funds[f].trader = w.who
        /\ w.fee # FeeOf(f) => ~HasInvestors(book, f)}

(* investorCheck, and the window. *)
MayInvest(w) == Investing(w.who) /\ book.formed /\ open

(* What a request goes on with; one refused here leaves nothing behind.    *)
Admitted(w) ==
    CASE w.kind = "trade"   -> {[acct |-> a] : a \in TradesWith(w)}
      [] w.kind = "profile" -> {[fund |-> f] : f \in MaySetFee(w)}
      [] w.kind = "trader"  -> {[fund |-> f] : f \in {x \in {w.fund} \cap DOMAIN book.funds :
                                                  w.who \in ToSet(book.funds[x].members)}}
      [] w.kind \in {"alloc", "redeem"} -> {x \in {Nothing} : MayInvest(w)}
      [] w.kind = "log" -> {x \in {Nothing} : Investing(w.who)}
      [] w.kind \in {"checkpoint", "sample"} -> {x \in {Nothing} : book.formed}
      [] OTHER -> {Nothing}

Enter(c) ==
    /\ pc[c] = "idle" /\ calls < MaxCalls /\ Quiet(c)
    /\ calls' = calls + 1
    /\ To(c, "asked")
    /\ \E n \in Admitted(Wants[c]) : Note(c, n)
    /\ UNCHANGED <<state, disk, price, open, moves, kills>>

-----------------------------------------------------------------------------
(* Trades. *)

TradeOf(acct, buy, n) ==
    [kind |-> "trade", acct |-> acct, sym |-> Sym, buy |-> buy, qty |-> n, price |-> price]

(* Executor.Execute on an account: refused, made and logged, or failed.    *)
Execute(c, t, made, refused) ==
    \/ /\ t.acct \notin DOMAIN ledger \/ ~TradeAllowed(ledger[t.acct], t)
       /\ Leaves(c, refused)
       /\ UNCHANGED <<ledger, disk>>
    \/ /\ t.acct \in DOMAIN ledger /\ TradeAllowed(ledger[t.acct], t)
       /\ Stored(t)
       /\ ledger' = [ledger EXCEPT ![t.acct] = AfterTrade(@, t)]
       /\ To(c, made) /\ UNCHANGED got
    \/ /\ t.acct \in DOMAIN ledger /\ TradeAllowed(ledger[t.acct], t)
       /\ Failed(t)
       /\ Ends(c) /\ UNCHANGED ledger

Trade(c) ==
    /\ pc[c] = "asked" /\ Kind(c) = "trade"
    /\ Execute(c, TradeOf(got[c].acct, Wants[c].buy, Wants[c].qty), "made", "over")
    /\ UNCHANGED <<book, role, traded, world>>

(* recordTrade: the trade joins the list of recent ones. *)
Record(c) ==
    /\ pc[c] = "made"
    /\ traded' = traded \cup {got[c].acct}
    /\ Ends(c)
    /\ UNCHANGED <<ledger, book, role, disk, world>>

-----------------------------------------------------------------------------
(* FormFunds: the pairs, then every team's portfolio, one after the other. *)

Pairs ==
    LET ranked == Sc!RankPhase1({s \in Standing : s.team \in Team}, TieBreak, Toss)
    IN  Sc!MirrorPairing([i \in 1 .. 2 * Len(FundIds) |-> ranked[i].team.team])

(* The teams of the pairs, pair by pair. *)
TeamsOf(pairs) ==
    [n \in 1 .. 2 * Len(pairs) |-> pairs[(n + 1) \div 2][IF n % 2 = 1 THEN 1 ELSE 2]]

(* Every team is ranked once, and chosen pairs that have a team twice, or  *)
(* are more than there may be funds, are refused.                          *)
Paired(pairs) ==
    /\ pairs \in Seq(Team \X Team) /\ Len(pairs) <= Len(FundIds)
    /\ IsInjective(TeamsOf(pairs))

ASSUME PairingAssumption ==
    /\ Cardinality(Standing) >= 2 * Len(FundIds) => Paired(Pairs)
    /\ \A c \in Call : Wants[c].kind = "form" => Paired(Wants[c].pairs)

FundsOf(pairs) ==
    [f \in {FundIds[i] : i \in DOMAIN pairs} |->
        LET i == CHOOSE n \in DOMAIN pairs : FundIds[n] = f
        IN  [account |-> f, members |-> pairs[i], trader |-> pairs[i][1]]]

PlanForm(c) ==
    /\ Kind(c) = "form"
    /\ LET pairs == IF Wants[c].pairs = <<>> THEN Pairs ELSE Wants[c].pairs
       IN  IF book.formed \/ (Wants[c].pairs = <<>> /\ Cardinality(Standing) < 2 * Len(FundIds))
           THEN Ends(c)
           ELSE /\ To(c, "reading")
                /\ Note(c, [op |-> "formed", funds |-> FundsOf(pairs), moves |-> <<>>,
                             seeds |-> <<>>, ranking |-> pairs, todo |-> TeamsOf(pairs)])

(* seedFunds, for one team: its cash, its shares, and units for both.      *)
ReadTeam(c) ==
    /\ pc[c] = "reading" /\ got[c].todo # <<>>
    /\ LET t == Head(got[c].todo)
           f == CHOOSE x \in DOMAIN got[c].funds : t \in ToSet(got[c].funds[x].members)
           a == ledger[t]
           p == Position(a, Sym)
           cash   == IF a.cash > 0
                     THEN << [from |-> t, to |-> f, cash |-> a.cash, qty |-> 0, cost |-> 0] >>
                     ELSE <<>>
           shares == IF p.qty > 0
                     THEN << [from |-> t, to |-> f, cash |-> 0, qty |-> p.qty, cost |-> p.cost] >>
                     ELSE <<>>
           worth  == Worth(a, Priced)
           seed   == [fund |-> f, team |-> t, amount |-> worth, units |-> worth]
       IN  Note(c, [got[c] EXCEPT !.todo = Tail(@), !.moves = @ \o cash \o shares,
                        !.seeds = IF cash \o shares = <<>> THEN @ ELSE Append(@, seed)])
    /\ UNCHANGED <<state, disk, pc, world>>

ReadAll(c) ==
    /\ pc[c] = "reading" /\ got[c].todo = <<>>
    /\ To(c, "storing")
    /\ UNCHANGED <<state, disk, got, world>>

(* DissolveFunds: not once anybody has invested, or a fund has traded.     *)
MayDissolveMutant == book.formed /\ Investors(book) = {}
MayDissolve ==
    /\ book.formed /\ Investors(book) = {}
    /\ DOMAIN book.funds \cap traded = {}

PlanDissolve(c) ==
    /\ Kind(c) = "dissolve"
    /\ IF ~MayDissolve THEN Ends(c)
       ELSE /\ To(c, "storing")
            /\ Note(c, [op |-> "dissolve",
                         moves |-> [i \in DOMAIN book.moves |->
                             [book.moves[i] EXCEPT !.from = book.moves[i].to,
                                                   !.to = book.moves[i].from]]])

-----------------------------------------------------------------------------
(* allocate and redeem: worked out on the NAV of this moment.  In a fund   *)
(* that is worth nothing nothing is bought - the units would be infinite,  *)
(* which no record can say - and nothing is paid out.                      *)

PlanAlloc(c) ==
    /\ Kind(c) = "alloc"
    /\ LET w      == Wants[c]
           known  == w.fund \in DOMAIN book.funds /\ book.funds[w.fund].active
           nav    == NavOf(w.fund)
           wallet == TotalValue(w.who)
           held   == ValueOf(HoldingIn(book, w.who, w.fund).units, nav)
           units  == (w.amount * nav.per) \div nav.of
       IN  IF /\ known
              /\ w.amount <= ledger[w.who].cash
              /\ w.amount >= Sc!MinInvestment(wallet, Rules.floor, Rules.floorPercent)
              /\ held + w.amount <= Sc!Rounded(wallet * Rules.single, 100)
              /\ w.amount <= CapRooms[w.fund]
              /\ nav.of > 0 /\ units > 0
           THEN /\ To(c, "storing")
                /\ Note(c, [op |-> "alloc", fund |-> w.fund, who |-> w.who, window |-> Window,
                             amount |-> w.amount, units |-> units, nav |-> nav, at |-> moves])
           ELSE Ends(c)

PaidMutant(units, nav) == (units * nav.of + nav.per - 1) \div nav.per

(* Paid out is what the units are worth, rounded down. *)
Paid(units, nav) == (units * nav.of) \div nav.per

PlanRedeem(c) ==
    /\ Kind(c) = "redeem"
    /\ LET w      == Wants[c]
           nav    == NavOf(w.fund)
           has    == HoldingIn(book, w.who, w.fund).units
           asked  == (w.amount * nav.per) \div nav.of
           units  == IF w.all \/ asked > has THEN has ELSE asked
           amount == Paid(units, nav)
       IN  IF /\ w.fund \in DOMAIN book.funds
              /\ nav.of > 0 /\ units > 0 /\ amount > 0
              /\ (UnitsValue(w.who) - amount) * 100 >= TotalValue(w.who) * Rules.mandatory
           THEN /\ To(c, "raising")
                /\ Note(c, [op |-> "redeem", fund |-> w.fund, who |-> w.who, window |-> Window,
                             amount |-> amount, units |-> units, nav |-> nav, at |-> moves,
                             sell |-> 0])
           ELSE Ends(c)

(* How many of p shares raise what is short: a thousandth more than the    *)
(* slice, rounded up.                                                      *)
Slice(p, short, held) ==
    LET n == (p * short * 1001) \div (held * 1000) + 1 IN IF n > p THEN p ELSE n

(* raiseFundCash: sells a slice of the holding if the fund is short.       *)
Raise(c) ==
    /\ pc[c] = "raising"
    /\ LET a == ledger[got[c].fund]
           p == Position(a, Sym).qty
           short == got[c].amount - a.cash
       IN  IF short <= 0 THEN To(c, "storing") /\ UNCHANGED got
           ELSE IF p = 0 THEN Leaves(c, "stuck")
           ELSE To(c, "selling") /\ Note(c, [got[c] EXCEPT !.sell = Slice(p, short, p * price)])
    /\ UNCHANGED <<state, disk, world>>

Sell(c) ==
    /\ pc[c] = "selling"
    /\ Execute(c, TradeOf(got[c].fund, FALSE, got[c].sell), "storing", "stuck")
    /\ traded' = IF pc'[c] = "storing" THEN traded \cup {got[c].fund} ELSE traded
    /\ UNCHANGED <<book, role, world>>

-----------------------------------------------------------------------------
(* The operations that are one event, worked out with fundMu held. *)

FundProfile(c) == {[op |-> "profile", fund |-> got[c].fund, fee |-> Wants[c].fee]}

FundTrader(c) == {[op |-> "trader", fund |-> got[c].fund, who |-> Wants[c].who]}

Disqualified(c) ==
    {[op |-> "fundDQ", fund |-> f] : f \in {Wants[c].fund} \cap DOMAIN book.funds}

(* An investor has so many strategy logs. *)
StrategyLog(c) ==
    LET who == Wants[c].who
    IN  IF Cardinality({i \in DOMAIN book.logs : book.logs[i] = who}) < Rules.logs
        THEN {[op |-> "log", entry |-> who]} ELSE {}

AUMs == [f \in DOMAIN book.funds |-> FundValue(f)]

Series(c) ==
    {[op |-> "series", navs |-> Navs, aums |-> AUMs,
      values |-> [u \in {t \in Team : Investing(t)} |-> TotalValue(u)]]}

(* A checkpoint is taken once. *)
CheckpointOnce(c) ==
    {[op |-> "checkpoint", check |-> PlanCheckpoint(book, n, Navs, AUMs, Rules.mgmt, Rules.perf)] :
        n \in {Wants[c].name} \ {book.checks[i].name : i \in DOMAIN book.checks}}

Planned(c) ==
    CASE Kind(c) = "profile"    -> FundProfile(c)
      [] Kind(c) = "trader"     -> FundTrader(c)
      [] Kind(c) = "fundDQ"     -> Disqualified(c)
      [] Kind(c) = "log"        -> StrategyLog(c)
      [] Kind(c) = "sample"     -> Series(c)
      [] Kind(c) = "checkpoint" -> CheckpointOnce(c)

PlanOne(c) ==
    /\ Kind(c) \in {"profile", "trader", "fundDQ", "log", "sample", "checkpoint"}
    /\ IF Planned(c) = {} THEN Ends(c)
       ELSE To(c, "storing") /\ \E ev \in Planned(c) : Note(c, ev)

(* With fundMu: what the operation reads and refuses. *)
Plan(c) ==
    /\ pc[c] = "asked" /\ FundMuFree
    /\ \/ PlanForm(c) \/ PlanDissolve(c) \/ PlanAlloc(c) \/ PlanRedeem(c) \/ PlanOne(c)
    /\ UNCHANGED <<state, disk, world>>

-----------------------------------------------------------------------------
(* fundAppend.  An allocation or a redemption is stored inside Ledger.Move *)
(* which has both accounts locked and has checked the cash.                *)
Moved(ev) ==
    CASE ev.op = "alloc"  -> MoveCash(ledger, ev.who, ev.fund, ev.amount)
      [] ev.op = "redeem" -> MoveCash(ledger, ev.fund, ev.who, ev.amount)
      [] OTHER -> ledger

Covered(ev) ==
    CASE ev.op = "alloc"  -> Affords(ledger[ev.who], ev.amount)
      [] ev.op = "redeem" -> Affords(ledger[ev.fund], ev.amount)
      [] OTHER -> TRUE

Store(c) ==
    /\ pc[c] = "storing"
    /\ LET ev == got[c]
       IN  \/ /\ ~Covered(ev)
              /\ Leaves(c, IF ev.op = "redeem" THEN "stuck" ELSE "over")
              /\ UNCHANGED <<ledger, disk>>
           \/ /\ Covered(ev) /\ Stored(FundRecord(ev))
              /\ ledger' = Moved(ev)
              /\ To(c, "stored") /\ UNCHANGED got
           \/ /\ Covered(ev) /\ Failed(FundRecord(ev))
              /\ Ends(c) /\ UNCHANGED ledger
    /\ UNCHANGED <<book, role, traded, world>>

(* Book.Apply, live: what it does not accept changes nothing. *)
ApplyEvent(c) ==
    /\ pc[c] = "stored" /\ got[c].op \notin {"formed", "dissolve"}
    /\ book' = IF Accepts(book, got[c]) THEN Apply(book, got[c]) ELSE book
    /\ Ends(c)
    /\ UNCHANGED <<ledger, role, traded, disk, world>>

(* applyFundEvent of formed: the book, the funds' accounts, then the moves *)
(* one at a time.                                                          *)
OpenFunds(c) ==
    /\ pc[c] = "stored" /\ got[c].op = "formed"
    /\ book' = Apply(book, got[c])
    /\ ledger' = WithFunds(ledger, DOMAIN got[c].funds)
    /\ Note(c, [todo |-> got[c].moves, op |-> "formed",
                 next |-> TeamsOf(got[c].ranking)])
    /\ To(c, "moving")
    /\ UNCHANGED <<role, traded, disk, world>>

(* ... and of dissolve: the moves, then the book, then the accounts.       *)
StartBack(c) ==
    /\ pc[c] = "stored" /\ got[c].op = "dissolve"
    /\ Note(c, [todo |-> got[c].moves, op |-> "dissolve",
                 next |-> SetToSeq(UNION {ToSet(book.funds[f].members) : f \in DOMAIN book.funds})])
    /\ To(c, "moving")
    /\ UNCHANGED <<state, disk, world>>

MoveNext(c) ==
    /\ pc[c] = "moving" /\ got[c].todo # <<>>
    /\ ledger' = AfterMoves(ledger, <<Head(got[c].todo)>>)
    /\ Note(c, [got[c] EXCEPT !.todo = Tail(@)])
    /\ UNCHANGED <<book, role, traded, disk, pc, world>>

AllMoved(c) ==
    /\ pc[c] = "moving" /\ got[c].todo = <<>>
    /\ IF got[c].op = "formed" THEN To(c, "roles") /\ UNCHANGED <<book, got>>
       ELSE /\ book' = NewBook
            /\ Note(c, [got[c] EXCEPT !.todo = DOMAIN book.funds])
            /\ To(c, "clearing")
    /\ UNCHANGED <<ledger, role, traded, disk, world>>

RemoveFunds(c) ==
    /\ pc[c] = "clearing"
    /\ ledger' = Removed(ledger, got[c].todo)
    /\ To(c, "roles")
    /\ UNCHANGED <<book, role, traded, disk, got, world>>

(* updateUser for each of the teams; one that cannot be stored is left.    *)
SetRole(c) ==
    /\ pc[c] = "roles" /\ got[c].next # <<>>
    /\ LET who == Head(got[c].next)
           new == IF got[c].op = "formed" THEN "manager" ELSE "investor"
           rec == [kind |-> "role", who |-> who, role |-> new]
       IN  \/ Stored(rec) /\ role' = [role EXCEPT ![who] = new]
           \/ Failed(rec) /\ UNCHANGED role
    /\ Note(c, [got[c] EXCEPT !.next = Tail(@)])
    /\ UNCHANGED <<ledger, book, traded, pc, world>>

RolesSet(c) ==
    /\ pc[c] = "roles" /\ got[c].next = <<>>
    /\ Ends(c)
    /\ UNCHANGED <<state, disk, world>>

-----------------------------------------------------------------------------
(* The world. *)

PriceMove ==
    /\ moves < MaxMoves
    /\ \E p \in Price \ {price} : price' = p
    /\ moves' = moves + 1
    /\ UNCHANGED <<state, disk, pc, got, open, calls, kills>>

CloseWindow ==
    /\ open /\ open' = FALSE
    /\ UNCHANGED <<state, disk, pc, got, price, calls, moves, kills>>

(* The process dies and starts again on its log.  A log that cannot be     *)
(* replayed is a server that does not come up.                             *)
Kill ==
    /\ kills < MaxKills
    /\ kills' = kills + 1
    /\ Rebuilt(log).ok /\ Becomes(Rebuilt(log))
    /\ broken' = FALSE
    /\ pc' = [c \in Call |-> IF pc[c] \in Acting THEN "over" ELSE pc[c]]
    /\ got' = [c \in Call |-> Nothing]
    /\ UNCHANGED <<log, price, open, calls, moves>>

CallStep(c) ==
    \/ Trade(c) \/ Record(c) \/ Plan(c) \/ ReadTeam(c) \/ ReadAll(c) \/ Raise(c) \/ Sell(c)
    \/ Store(c) \/ ApplyEvent(c) \/ OpenFunds(c) \/ StartBack(c) \/ MoveNext(c)
    \/ AllMoved(c) \/ RemoveFunds(c) \/ SetRole(c) \/ RolesSet(c)

Next == (\E c \in Call : Enter(c) \/ CallStep(c)) \/ PriceMove \/ CloseWindow \/ Kill

Spec == Init /\ [][Next]_vars

-----------------------------------------------------------------------------
(* Properties *)

Idle == \A c \in Call : pc[c] \notin Acting

TypeOK ==
    /\ StateOK(Live)
    /\ broken \in BOOLEAN /\ open \in BOOLEAN /\ price \in Price
    /\ pc \in [Call -> {"idle"} \cup Acting \cup {"over", "stuck"}]
    /\ calls \in 0 .. MaxCalls /\ moves \in 0 .. MaxMoves /\ kills \in 0 .. MaxKills

(* No rupee and no share is made or lost but in trades: what all accounts  *)
(* hold is what the teams started with and what their trades paid and      *)
(* brought, at every step of forming, dissolving, allocating, redeeming.   *)
(* No account is ever below zero.                                          *)
MoneyKept ==
    LET trades == SelectSeq(log, LAMBDA r : r.kind = "trade")
        sign(r) == IF r.buy THEN 1 ELSE -1
        accts  == SetToSeq(DOMAIN ledger)
        bought == Sc!Total([i \in DOMAIN trades |-> sign(trades[i]) * trades[i].qty])
        spent  == Sc!Total([i \in DOMAIN trades |->
                              sign(trades[i]) * trades[i].qty * trades[i].price])
        qty(a) == Position(ledger[a], Sym).qty
    IN  /\ \A a \in DOMAIN ledger : ledger[a].cash >= 0 /\ qty(a) >= 0
        /\ ~broken =>
              /\ Sc!Total([i \in DOMAIN accts |-> ledger[accts[i]].cash])
                     = StartCash * Cardinality(Team) - spent
              /\ Sc!Total([i \in DOMAIN accts |-> qty(accts[i])]) = bought

(* The units of a fund are those its teams and its investors hold: none    *)
(* without an owner, none paid out twice.                                  *)
UnitsOwned == UnitsIn(book)

(* "A restart rebuilds the same state by applying them in order": at every *)
(* moment the log can be replayed, and when nothing is under way what it   *)
(* gives is what is live: accounts, book, roles and recent trades.         *)
RestartMatches ==
    LET s == Rebuilt(log)
    IN  /\ s.ok
        /\ Idle /\ ~broken => s = Live

(* Who is already in a fund does not pay for who enters or leaves it:      *)
(* unless a price has moved meanwhile, an allocation or a redemption never *)
(* lowers the NAV, whatever the fund's trader does at the same time.       *)
NavHolds ==
    [][\A c \in Call, f \in DOMAIN book.funds :
         (/\ pc[c] = "stored" /\ got[c].op \in {"alloc", "redeem"} /\ got[c].fund = f
          /\ pc'[c] = "over" /\ got[c].at = moves /\ kills' = kills)
         => ~Above(got[c].nav, NavOf(f)')]_vars

(* "So no redemption is ever stuck": a redemption the rules allow is paid, *)
(* unless the log fails.                                                   *)
NeverStuck == \A c \in Call : pc[c] # "stuck"

(* "Investors have already put money in on the current fee, so it can no   *)
(* longer change" (SetFundProfile).                                        *)
FeeFixed ==
    [][\A f \in DOMAIN book.funds \cap DOMAIN book'.funds :
         HasInvestors(book, f) /\ kills' = kills => book'.funds[f].fee = book.funds[f].fee]_vars

(* A team manages a fund exactly while it has one. *)
RolesFollow ==
    Idle /\ ~broken /\ kills = 0 =>
        \A t \in Team : role[t] = "manager" <=> FundOfMember(book, t) # {}

(* The performance fee is for new highs only: no later checkpoint charges  *)
(* it for a NAV that an earlier one had reached.                           *)
FeesOnNewHighs == HighsIn(book)
=============================================================================
