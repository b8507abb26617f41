------------------------------- MODULE Trading -------------------------------
(***************************************************************************)
(* Trades and organiser corrections on the accounts of the ledger:         *)
(* trading.Executor.Execute, the wallet operations of app (applyCash,      *)
(* takeShares, giveShares and the operations built on them), the log they  *)
(* share, crashes, and the restart that replays the log.                   *)
(*                                                                         *)
(* A call of Execute holds its account's trading lock to its end, and the  *)
(* ledger's lock of the account while it commits.  The log keeps the       *)
(* promise of DurableLog: a record joins it, and is acknowledged once a    *)
(* sync has covered it.  Organiser operations take no trading lock.        *)
(***************************************************************************)
EXTENDS LedgerOps, FiniteSets

CONSTANTS
    Account, Symbol,
    Call,           \* the calls of Execute, one request each
    Request,        \* what may be asked: [acct, cid, sym, buy, qty, expect]
    Organiser,      \* the organisers' requests, one operation each
    Operation,      \* what may be asked: [kind, acct, ...]
    PriceTable,     \* the prices the market may show: [Symbol -> Int]
    StartCash,
    MaxPercent,     \* market.maxSingleStockPercent in whole percent, 0 for no limit
    MaxMoves, MaxKills, MaxPowerCuts    \* bounds on the environment

(* What an organiser may ask for: a change of cash, an amount of cash,     *)
(* shares given or taken, or a number of shares held.                      *)
Correction ==
    [kind : {"cash"}, acct : Account, delta : Int]
    \cup [kind : {"set"}, acct : Account, cash : Nat]
    \cup [kind : {"give"}, acct : Account, sym : Symbol, qty : Nat \ {0}, price : Nat]
    \cup [kind : {"take"}, acct : Account, sym : Symbol, qty : Nat \ {0}]
    \cup [kind : {"hold"}, acct : Account, sym : Symbol, qty : Nat]

ASSUME TradingAssumption ==
    /\ Request \subseteq [acct : Account, cid : {q.cid : q \in Request}, sym : Symbol,
                          buy : BOOLEAN, qty : Nat \ {0}, expect : Nat]
    /\ Operation \subseteq Correction
    /\ \A p \in PriceTable : \A s \in Symbol : p[s] \in Nat
    /\ Call \cap Organiser = {} /\ IsFiniteSet(Call \cup Organiser)
    /\ StartCash \in Nat /\ MaxPercent \in Int
    /\ MaxMoves \in Nat /\ MaxKills \in Nat /\ MaxPowerCuts \in Nat

VARIABLES
    ledger,    \* the live accounts
    seen,      \* Executor.seen: (account, client id) -> the trade it made
    price,     \* the market's prices
    log,       \* the records appended, oldest first
    kept,      \* how many of them survive the death of the process
    durable,   \* how many of them survive a power cut
    broken,    \* the log takes no more records
    pc,        \* where each call of Execute is
    req,       \* the request each call was given
    got,       \* the trade a call is making or has answered with
    opPc,      \* where each organiser's operation is
    op,        \* the operation, then the record, each organiser works on
    avg,       \* takeShares' local: the average cost before it took them
    place,     \* the number in the log of the record each of them appended
    moves, kills, powerCuts

memory == <<ledger, seen, broken>>
disk   == <<log, kept, durable>>
calls  == <<pc, req, got>>
ops    == <<opPc, op, avg>>
actors == <<calls, ops, place>>
world  == <<price, moves, kills, powerCuts>>
vars   == <<memory, disk, actors, world>>

Nothing == [kind |-> "nothing"]

Init ==
    /\ ledger = [a \in Account |-> Opened(StartCash)]
    /\ seen = <<>>
    /\ price \in PriceTable
    /\ log = <<>> /\ kept = 0 /\ durable = 0 /\ broken = FALSE
    /\ pc = [c \in Call |-> "idle"]
    /\ req = [c \in Call |-> Nothing]
    /\ got = [c \in Call |-> Nothing]
    /\ opPc = [o \in Organiser |-> "idle"]
    /\ op = [o \in Organiser |-> Nothing]
    /\ avg = [o \in Organiser |-> 0]
    /\ place = [x \in Call \cup Organiser |-> 0]
    /\ moves = 0 /\ kills = 0 /\ powerCuts = 0

-----------------------------------------------------------------------------
(* Locks are held by where the actors are.  A definition named ...Mutant   *)
(* is a plausible bug in the one after it; only the mutation runs use it.  *)
Trades     == {"quoted", "checked", "committing", "applied"}
TradeLockedMutant(a) == FALSE
TradeLocked(a)  == \E c \in Call : pc[c] \in Trades /\ req[c].acct = a
LedgerLockedMutant(a) == FALSE
LedgerLocked(a) == \E c \in Call : pc[c] = "committing" /\ req[c].acct = a

Key(q) == <<q.acct, q.cid>>

(* The two parts of a trade's identity that a retry must repeat. *)
SameTrade(q, t) == q.sym = t.sym /\ q.buy = t.buy /\ q.qty = t.qty

TradeAt(c, q, p) ==
    [kind |-> "trade", acct |-> q.acct, cid |-> q.cid, sym |-> q.sym,
     buy |-> q.buy, qty |-> q.qty, price |-> p, by |-> c]

To(c, state) == pc' = [pc EXCEPT ![c] = state]

(* A record joins the log; its Append returns once a sync has covered it,  *)
(* or fails when the log breaks first.                                     *)
AppendFor(x, rec) ==
    /\ ~broken
    /\ log' = Append(log, rec)
    /\ place' = [place EXCEPT ![x] = Len(log) + 1]

SyncedMutant(x) == place[x] <= Len(log)

Synced(x) == place[x] <= durable

AppendFailedMutant(x) == FALSE

AppendFailed(x) == broken /\ place[x] > durable

-----------------------------------------------------------------------------
(* Executor.Execute *)

(* A request arrives and waits for its account's lock. *)
Arrive(c) ==
    /\ pc[c] = "idle"
    /\ \E q \in Request : req' = [req EXCEPT ![c] = q]
    /\ To(c, "waiting")
    /\ UNCHANGED <<memory, disk, got, ops, place, world>>

(* Under the lock: a client id already used is answered with its trade, or *)
(* refused when it asks for something else; a new one is quoted a price.   *)
Repeat(c) ==
    /\ pc[c] = "waiting" /\ ~TradeLocked(req[c].acct)
    /\ Key(req[c]) \in DOMAIN seen
    /\ \/ /\ SameTrade(req[c], seen[Key(req[c])])
          /\ got' = [got EXCEPT ![c] = seen[Key(req[c])]]
          /\ To(c, "answered")
       \/ /\ ~SameTrade(req[c], seen[Key(req[c])])
          /\ To(c, "refused")
          /\ UNCHANGED got
    /\ UNCHANGED <<memory, disk, req, ops, place, world>>

Quote(c) ==
    /\ pc[c] = "waiting" /\ ~TradeLocked(req[c].acct)
    /\ Key(req[c]) \notin DOMAIN seen
    /\ LET q == req[c]
           p == price[q.sym]
       IN  IF p > 0 /\ q.expect \in {0, p}
           THEN got' = [got EXCEPT ![c] = TradeAt(c, q, p)] /\ To(c, "quoted")
           ELSE To(c, "refused") /\ UNCHANGED got
    /\ UNCHANGED <<memory, disk, req, ops, place, world>>

(* concentrationGuard: a buy may not take its company past its share of    *)
(* what the account is worth at this moment.                               *)
Concentrated(a, t) ==
    /\ t.buy /\ MaxPercent > 0
    /\ Position(a, t.sym).qty + t.qty > (MaxPercent * Worth(a, price)) \div (100 * t.price)

Check(c) ==
    /\ pc[c] = "quoted" /\ ~LedgerLocked(req[c].acct)
    /\ To(c, IF Concentrated(ledger[req[c].acct], got[c]) THEN "refused" ELSE "checked")
    /\ UNCHANGED <<memory, disk, req, got, ops, place, world>>

(* Ledger.Trade, with the ledger's lock: what the account cannot cover is  *)
(* refused, the rest is appended to the log before anything changes.  A    *)
(* log that is broken, or a disk that is full, refuses the record.         *)
Commit(c) ==
    /\ pc[c] = "checked" /\ ~LedgerLocked(req[c].acct)
    /\ \/ /\ ~TradeAllowed(ledger[req[c].acct], got[c])
          /\ To(c, "refused")
          /\ UNCHANGED <<log, place>>
       \/ /\ TradeAllowed(ledger[req[c].acct], got[c])
          /\ To(c, "failed")
          /\ UNCHANGED <<log, place>>
       \/ /\ TradeAllowed(ledger[req[c].acct], got[c]) 
          /\ To(c, "committing")
          /\ AppendFor(c, got[c])
    /\ UNCHANGED <<memory, kept, durable, req, got, ops, world>>

(* The append returns: the trade is on disk and is applied, or the log     *)
(* broke and it is not, whatever the disk holds.                           *)
Apply(c) ==
    /\ pc[c] = "committing" /\ Synced(c)
    /\ ledger' = [ledger EXCEPT ![req[c].acct] = AfterTrade(@, got[c])]
    /\ To(c, "applied")
    /\ UNCHANGED <<seen, broken, disk, req, got, ops, place, world>>

GiveUp(c) ==
    /\ pc[c] = "committing" /\ AppendFailed(c)
    /\ To(c, "failed")
    /\ UNCHANGED <<memory, disk, req, got, ops, place, world>>

(* Seed remembers the trade, and the call returns it. *)
Answer(c) ==
    /\ pc[c] = "applied"
    /\ seen' = [k \in DOMAIN seen \cup {Key(got[c])} |->
                    IF k = Key(got[c]) THEN got[c] ELSE seen[k]]
    /\ To(c, "answered")
    /\ UNCHANGED <<ledger, broken, disk, req, got, ops, place, world>>

-----------------------------------------------------------------------------
(* The organisers' operations: cash and set change cash, take and give     *)
(* change shares, hold sets the number of shares.                          *)
OpTo(o, state) == opPc' = [opPc EXCEPT ![o] = state]

Acct(o) == ledger[op[o].acct]

(* The change that makes cash, or a holding, the amount asked for: worked  *)
(* out from what the account holds now.                                    *)
Difference(o) ==
    LET w == op[o]
        missing == IF w.kind = "set" THEN w.cash - Acct(o).cash
                                     ELSE w.qty - Position(Acct(o), w.sym).qty
    IN  IF missing = 0 THEN Nothing
        ELSE IF w.kind = "set" THEN
             [kind |-> "cash", acct |-> w.acct, delta |-> missing]
        ELSE IF missing > 0 THEN
             [kind |-> "give", acct |-> w.acct, sym |-> w.sym,
              qty |-> missing, price |-> price[w.sym]]
        ELSE [kind |-> "take", acct |-> w.acct, sym |-> w.sym, qty |-> -missing]

(* An organiser asks for an operation. *)
Ask(o) ==
    /\ opPc[o] = "idle"
    /\ \E w \in Operation : op' = [op EXCEPT ![o] = w]
    /\ OpTo(o, "asked")
    /\ UNCHANGED <<memory, disk, calls, avg, place, world>>

(* SetCash and SetShares measure the account first. *)
Measure(o) ==
    /\ opPc[o] = "asked" /\ op[o].kind \in {"set", "hold"}
    /\ ~LedgerLocked(op[o].acct)
    /\ op' = [op EXCEPT ![o] = Difference(o)]
    /\ OpTo(o, IF Difference(o) = Nothing THEN "done" ELSE "asked")
    /\ UNCHANGED <<memory, disk, calls, avg, place, world>>

(* applyCash changes the account, then stores the change. *)
AdjustCash(o) ==
    /\ opPc[o] = "asked" /\ op[o].kind = "cash"
    /\ ~LedgerLocked(op[o].acct)
    /\ IF Covers(Acct(o), op[o].delta)
       THEN /\ ledger' = [ledger EXCEPT ![op[o].acct] = AfterCash(@, op[o].delta)]
            /\ OpTo(o, "changed")
       ELSE OpTo(o, "refused") /\ UNCHANGED ledger
    /\ UNCHANGED <<seen, broken, disk, calls, op, avg, place, world>>

(* takeShares notes the average cost, takes the shares, then stores it. *)
NoteAverage(o) ==
    /\ opPc[o] = "asked" /\ op[o].kind = "take"
    /\ ~LedgerLocked(op[o].acct)
    /\ avg' = [avg EXCEPT ![o] = Average(Acct(o), op[o].sym)]
    /\ OpTo(o, "noted")
    /\ UNCHANGED <<memory, disk, calls, op, place, world>>

Revoke(o) ==
    /\ opPc[o] = "noted" /\ ~LedgerLocked(op[o].acct)
    /\ IF Holds(Acct(o), op[o].sym, op[o].qty)
       THEN /\ ledger' = [ledger EXCEPT ![op[o].acct] =
                              AfterRevoke(@, op[o].sym, op[o].qty)]
            /\ OpTo(o, "changed")
       ELSE OpTo(o, "refused") /\ UNCHANGED ledger
    /\ UNCHANGED <<seen, broken, disk, calls, op, avg, place, world>>

(* The account without the change that could not be stored. *)
Undone(o) ==
    IF op[o].kind = "cash" THEN AfterCash(Acct(o), -op[o].delta)
    ELSE AfterGrant(Acct(o), op[o].sym, op[o].qty, avg[o])

Undo(o) ==
    /\ ~LedgerLocked(op[o].acct)
    /\ ledger' = [ledger EXCEPT ![op[o].acct] = Undone(o)]
    /\ OpTo(o, "failed")

(* The record of the change joins the log, or is refused and undone. *)
Store(o) ==
    /\ opPc[o] = "changed"
    /\ \/ /\ AppendFor(o, op[o])
          /\ OpTo(o, "storing")
          /\ UNCHANGED ledger
       \/ /\ broken
          /\ Undo(o)
          /\ UNCHANGED <<log, place>>
    /\ UNCHANGED <<seen, broken, kept, durable, calls, op, avg, world>>

(* giveShares stores the grant first, then gives the shares. *)
StoreGrant(o) ==
    /\ opPc[o] = "asked" /\ op[o].kind = "give"
    /\ \/ /\ AppendFor(o, op[o])
          /\ OpTo(o, "storing")
       \/ /\ broken
          /\ OpTo(o, "failed")
          /\ UNCHANGED <<log, place>>
    /\ UNCHANGED <<memory, kept, durable, calls, op, avg, world>>

Stored(o) ==
    /\ opPc[o] = "storing"
    /\ \/ /\ Synced(o)
          /\ OpTo(o, IF op[o].kind = "give" THEN "stored" ELSE "done")
          /\ UNCHANGED ledger
       \/ /\ AppendFailed(o)
          /\ IF op[o].kind = "give" THEN OpTo(o, "failed") /\ UNCHANGED ledger
                                    ELSE Undo(o)
    /\ UNCHANGED <<seen, broken, disk, calls, op, avg, place, world>>

Grant(o) ==
    /\ opPc[o] = "stored" /\ ~LedgerLocked(op[o].acct)
    /\ ledger' = [ledger EXCEPT ![op[o].acct] =
                      AfterGrant(@, op[o].sym, op[o].qty, op[o].price)]
    /\ OpTo(o, "done")
    /\ UNCHANGED <<seen, broken, disk, calls, op, avg, place, world>>

-----------------------------------------------------------------------------
(* The market, the disk and the server *)

PriceMove ==
    /\ moves < MaxMoves
    /\ \E p \in PriceTable \ {price} : price' = p
    /\ moves' = moves + 1
    /\ UNCHANGED <<memory, disk, actors, kills, powerCuts>>

(* A sync covers what has been appended so far. *)
Sync ==
    /\ ~broken /\ durable < Len(log)
    /\ durable' \in durable + 1 .. Len(log)
    /\ kept' = IF durable' > kept THEN durable' ELSE kept
    /\ UNCHANGED <<log, memory, actors, world>>

(* A write or a sync fails: the log takes nothing more. *)
Break ==
    /\ ~broken
    /\ broken' = TRUE
    /\ UNCHANGED <<ledger, seen, disk, actors, world>>

RememberedMutant(l) == <<>>

(* restore: accounts and client ids are rebuilt from the log. *)
Remembered(l) ==
    LET trades == {i \in 1 .. Len(l) : l[i].kind = "trade"}
        last(k) == CHOOSE i \in trades :
                       /\ Key(l[i]) = k
                       /\ \A j \in trades : Key(l[j]) = k => j <= i
    IN  [k \in {Key(l[i]) : i \in trades} |-> l[last(k)]]

(* The server stops with n records left and starts again on them; whoever  *)
(* was waiting for it hears nothing.                                       *)
Restart(n) ==
    /\ log' = SubSeq(log, 1, n)
    /\ ledger' = Replayed([a \in Account |-> Opened(StartCash)], log')
    /\ seen' = Remembered(log')
    /\ broken' = FALSE
    /\ pc' = [c \in Call |-> IF pc[c] \in Trades \cup {"waiting"} THEN "lost" ELSE pc[c]]
    /\ opPc' = [o \in Organiser |->
                  IF opPc[o] \in {"idle", "done", "refused", "failed"} THEN opPc[o] ELSE "lost"]
    /\ place' = [x \in Call \cup Organiser |-> 0]
    /\ UNCHANGED <<req, got, op, avg, price, moves>>

(* The process dies: what the operating system has is still there. *)
Kill ==
    /\ kills < MaxKills
    /\ kills' = kills + 1
    /\ \E n \in kept .. Len(log) : Restart(n) /\ kept' = n
    /\ UNCHANGED <<durable, powerCuts>>

(* The machine stops: only what was synced is surely there. *)
PowerCut ==
    /\ powerCuts < MaxPowerCuts
    /\ powerCuts' = powerCuts + 1
    /\ \E n \in durable .. Len(log) : Restart(n) /\ kept' = n /\ durable' = n
    /\ UNCHANGED kills

-----------------------------------------------------------------------------
CallStep(c) == \/ Repeat(c) \/ Quote(c) \/ Check(c) \/ Commit(c)
               \/ Apply(c) \/ GiveUp(c) \/ Answer(c)

OpStep(o) == \/ Measure(o) \/ AdjustCash(o) \/ NoteAverage(o) \/ Revoke(o)
             \/ Store(o) \/ StoreGrant(o) \/ Stored(o) \/ Grant(o)

Next ==
    \/ \E c \in Call : Arrive(c) \/ CallStep(c)
    \/ \E o \in Organiser : Ask(o) \/ OpStep(o)
    \/ PriceMove \/ Sync \/ Break \/ Kill \/ PowerCut

Spec == Init /\ [][Next]_vars

(* Goroutines that can run do, and a sync ends, well or badly. *)
Fairness ==
    /\ \A c \in Call : WF_vars(CallStep(c))
    /\ \A o \in Organiser : WF_vars(OpStep(o))
    /\ WF_vars(Sync \/ Break)

FairSpec == Spec /\ Fairness

-----------------------------------------------------------------------------
(* Properties *)

Ended   == {"answered", "refused", "failed", "lost"}
OpEnded == {"done", "refused", "failed", "lost"}

TypeOK ==
    /\ \A a \in Account : /\ ledger[a].cash \in Int
                          /\ DOMAIN ledger[a].pos \subseteq Symbol
                          /\ \A s \in DOMAIN ledger[a].pos :
                                ledger[a].pos[s] \in [qty : Int, cost : Int]
    /\ \A k \in DOMAIN seen : Key(seen[k]) = k
    /\ price \in PriceTable
    /\ kept \in 0 .. Len(log) /\ durable \in 0 .. kept
    /\ broken \in BOOLEAN
    /\ pc \in [Call -> {"idle", "waiting"} \cup Trades \cup Ended]
    /\ req \in [Call -> Request \cup {Nothing}]
    /\ opPc \in [Organiser ->
            {"idle", "asked", "noted", "changed", "storing", "stored"} \cup OpEnded]
    /\ avg \in [Organiser -> Int]
    /\ place \in [Call \cup Organiser -> Nat]
    /\ moves \in 0 .. MaxMoves /\ kills \in 0 .. MaxKills
    /\ powerCuts \in 0 .. MaxPowerCuts

(* "Cash and share counts never go negative": no interleaving of trades,   *)
(* corrections, failed appends and restarts takes an account below zero    *)
(* (Ledger.Trade, Revoke, AdjustCash).                                     *)
NeverNegative ==
    \A a \in Account : /\ ledger[a].cash >= 0
                       /\ \A s \in DOMAIN ledger[a].pos :
                             ledger[a].pos[s].qty >= 0 /\ ledger[a].pos[s].cost >= 0

(* One client id makes one trade, however often it is sent: at once, after *)
(* an append that failed, or after a crash (Executor.Execute, Seed).       *)
OnceOnly ==
    \A i, j \in 1 .. Len(log) :
        (/\ log[i].kind = "trade" /\ log[j].kind = "trade"
         /\ Key(log[i]) = Key(log[j])) => i = j

(* A trade that a call made itself and reported is on disk from then on,   *)
(* through kills and power cuts (Journal.Commit before applyTrade).        *)
OwnTradesStand ==
    \A c \in Call : pc[c] = "answered" /\ got[c].by = c =>
        \E i \in 1 .. durable : log[i] = got[c]

(* Whatever trade a person was told of stays in the record, retries        *)
(* answered from memory included.                                          *)
AnswersStand ==
    \A c \in Call : pc[c] = "answered" => got[c] \in ToSet(log)

(* Everybody who asked under one client id was told of the same trade,     *)
(* however often the process was killed; a power cut may take away what a  *)
(* retry was told from memory.                                             *)
RetriesAgree ==
    powerCuts = 0 => \A c, d \in Call :
        (/\ pc[c] = "answered" /\ pc[d] = "answered"
         /\ Key(req[c]) = Key(req[d])) => got[c] = got[d]

(* Nothing is under way on the account, and the log works. *)
Settled(a) ==
    /\ ~broken
    /\ \A c \in Call : req[c] # Nothing /\ req[c].acct = a => pc[c] # "committing"
    /\ \A o \in Organiser : op[o] # Nothing /\ op[o].acct = a =>
           opPc[o] \in OpEnded \cup {"idle", "asked", "noted"}

Balances(a) == [cash |-> a.cash, qty |-> [s \in Symbol |-> Position(a, s).qty]]

(* What a restart would rebuild is what is live: same cash, same shares    *)
(* (restore against Ledger.Trade, applyCash, takeShares, giveShares).      *)
ReplayMatches ==
    LET rebuilt == Replayed([a \in Account |-> Opened(StartCash)], log)
    IN  \A a \in Account : Settled(a) => Balances(ledger[a]) = Balances(rebuilt[a])

(* ... and the same average cost: "exactly as it did live (average cost    *)
(* depends on that order)".                                                *)
CostsReplay ==
    LET rebuilt == Replayed([a \in Account |-> Opened(StartCash)], log)
    IN  \A a \in Account : Settled(a) =>
            \A s \in Symbol : Position(ledger[a], s).cost = Position(rebuilt[a], s).cost

(* The log never holds a record that a restart would stop at, wherever a   *)
(* crash cuts it (Ledger.Revoke refuses a position that was never opened). *)
StartsAgain ==
    \A n \in 0 .. Len(log) - 1 :
        Replayable(Replayed([a \in Account |-> Opened(StartCash)],
                            SubSeq(log, 1, n))[log[n + 1].acct], log[n + 1])

(* The books are in order: nothing is below zero, and whenever the server  *)
(* is killed it starts again, with the balances it had (the ledger's       *)
(* checks, and restore against the records trades and corrections leave).  *)
BooksStand == NeverNegative /\ StartsAgain /\ ReplayMatches

(* While prices stand still and nobody corrects it, no interleaving of     *)
(* buys leaves one company above its share of an account: "two quick       *)
(* trades cannot both slip past a limit" (concentrationGuard, run under    *)
(* the account's lock).                                                    *)
Diversified ==
    MaxPercent > 0 /\ moves = 0 /\ (\A o \in Organiser : opPc[o] = "idle") =>
        \A a \in Account : \A s \in DOMAIN ledger[a].pos :
            100 * ledger[a].pos[s].qty * price[s] <= MaxPercent * Worth(ledger[a], price)

(* Every request ends: answered, refused, failed or cut off by a crash; no *)
(* lock is left held and nobody waits for the disk for ever.               *)
RequestsEnd ==
    []<>(/\ \A c \in Call : pc[c] \in Ended \cup {"idle"}
         /\ \A o \in Organiser : opPc[o] \in OpEnded \cup {"idle"})

(* The whole is one book of legal changes, of which those who made a       *)
(* change were told.                                                       *)
Promise == INSTANCE SerialLedger WITH
    book     <- log,
    answered <- {got[c] : c \in {d \in Call : pc[d] = "answered" /\ got[d].by = d}}

OneBook == Promise!Spec
=============================================================================
