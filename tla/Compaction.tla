------------------------------ MODULE Compaction ------------------------------
(***************************************************************************)
(* store.Compact and App.restore: at every start the log is rewritten      *)
(* without the records a newer one replaces, a new file is swapped in by   *)
(* one rename, and the server's state is rebuilt from what is left.        *)
(*                                                                         *)
(* Each kind of record stands for those with its rule: user (member,       *)
(* watchlist, news, ticket, setting: the newest per key), pause (by        *)
(* company), clock (one in all), prices (the newest MaxHistory), trade     *)
(* and reset (kept in full, as grants, cash and fund events are).          *)
(***************************************************************************)
EXTENDS Integers, Lists, FiniteSets, FiniteSetsExt

CONSTANTS
    Team, Company,
    Price, Opening,     \* the prices there may be, and the first of them
    Capital,            \* what an account opens with
    MaxHistory,         \* market.MaxHistory: the price records kept
    MaxLog, MaxStops, MayReset, MayPromote    \* bounds on the environment

ASSUME CompactionAssumption ==
    /\ IsFiniteSet(Team) /\ Price \subseteq Nat /\ Opening \in Price /\ Capital \in Nat
    /\ MaxHistory \in Nat \ {0} /\ MaxLog \in Nat /\ MaxStops \in Nat
    /\ MayReset \in BOOLEAN /\ MayPromote \in BOOLEAN

VARIABLES
    file,    \* the log on disk
    tmp,     \* the new file a compaction is writing
    live,    \* the server's state; while it is down, what it was
    phase,   \* up, down, compacting or ready
    stops

compactionVars == <<file, tmp, live, phase, stops>>

-----------------------------------------------------------------------------
(* The state a log rebuilds.  A definition named ...Mutant is a plausible  *)
(* bug in the one after it; only the mutation runs use it.                 *)
Fresh == [users |-> <<>>, accounts |-> <<>>, peaks |-> <<>>, price |-> Opening,
          paused |-> {}, clock |-> 0, ok |-> TRUE]

Set(f, k, v) == [j \in DOMAIN f \cup {k} |-> IF j = k THEN v ELSE f[j]]

Value(account, price) == account.cash + account.shares * price

Teams(s) == {u \in DOMAIN s.users : ~s.users[u].admin}

NewAccount == [cash |-> Capital, shares |-> 0]

(* openAccount: a team that has no account yet gets one. *)
WithUser(s, rec) ==
    LET known == [s EXCEPT !.users = Set(@, rec.id, rec)]
    IN  IF rec.admin \/ rec.id \in DOMAIN s.accounts THEN known
        ELSE [known EXCEPT !.accounts = Set(@, rec.id, NewAccount)]

(* ReplayTrade stops the restart when the account does not exist. *)
WithTrade(s, rec) ==
    IF rec.id \notin DOMAIN s.accounts THEN [s EXCEPT !.ok = FALSE]
    ELSE [s EXCEPT !.accounts[rec.id] =
              [cash |-> @.cash - rec.price, shares |-> @.shares + 1]]

(* updatePeakFor: the most the account has been worth. *)
WithPeak(peaks, u, worth) ==
    IF u \in DOMAIN peaks /\ peaks[u] >= worth THEN peaks ELSE Set(peaks, u, worth)

(* New prices, and updatePeaks: updatePeakFor every team. *)
WithPrices(s, rec) ==
    LET priced(u) == Value(s.accounts[u], rec.price)
    IN  [s EXCEPT !.price = rec.price,
                  !.peaks = FoldSet(LAMBDA u, peaks : WithPeak(peaks, u, priced(u)), @,
                                    Teams(s) \cap DOMAIN s.accounts)]

(* dropTeams and resetState. *)
WithReset(s, rec) ==
    LET users == IF rec.everything
                 THEN [u \in DOMAIN s.users \ Teams(s) |-> s.users[u]] ELSE s.users
    IN  [Fresh EXCEPT !.users = users, !.ok = s.ok,
                      !.accounts = [u \in Teams(s) \cap DOMAIN users |-> NewAccount]]

Effect(s, rec) ==
    CASE rec.kind = "user"   -> WithUser(s, rec)
      [] rec.kind = "trade"  -> WithTrade(s, rec)
      [] rec.kind = "prices" -> WithPrices(s, rec)
      [] rec.kind = "clock"  -> [s EXCEPT !.clock = rec.value]
      [] rec.kind = "pause"  -> [s EXCEPT !.paused =
                                    IF rec.on THEN @ \cup {rec.id} ELSE @ \ {rec.id}]
      [] rec.kind = "reset"  -> WithReset(s, rec)

(* restore: the log is replayed from its first record. *)
Rebuilt(log) == FoldLeft(Effect, Fresh, log)

-----------------------------------------------------------------------------
(* CompactRules: how many of the newest records of a kind are worth        *)
(* keeping, and what makes two records of a kind supersede each other.     *)
Latest(kind) ==
    CASE kind \in {"user", "pause", "clock"} -> 1
      [] kind = "prices"                     -> MaxHistory
      [] kind \in {"trade", "reset"}         -> 0

Group(rec) == IF rec.kind \in {"user", "pause"} THEN <<rec.kind, rec.id>>
                                                ELSE <<rec.kind>>

Peers(log, i) == {j \in DOMAIN log : Group(log[j]) = Group(log[i])}

(* Of a kind with Latest 1 the first record stays, in its place ... *)
Dropped(log, i) ==
    LET keep == Latest(log[i].kind)
    IN  \/ keep = 1 /\ \E j \in Peers(log, i) : j < i
        \/ keep > 1 /\ Cardinality({j \in Peers(log, i) : j > i}) >= keep

ContentMutant(log, i) == log[i]

(* ... with the content of the newest. *)
Content(log, i) == IF Latest(log[i].kind) = 1 THEN log[Max(Peers(log, i))] ELSE log[i]

Compacted(log) ==
    LET kept == Among([i \in DOMAIN log |-> i], {i \in DOMAIN log : ~Dropped(log, i)})
    IN  [k \in DOMAIN kept |-> Content(log, kept[k])]

-----------------------------------------------------------------------------
CompactionInit ==
    /\ file = <<>> /\ tmp = <<>> /\ live = Fresh
    /\ phase = "up" /\ stops = 0

(* It is in the log, and in the state. *)
Happens(recs) ==
    /\ phase = "up"
    /\ Len(file) + Len(recs) <= MaxLog
    /\ file' = file \o recs
    /\ live' = FoldLeft(Effect, live, recs)
    /\ UNCHANGED <<tmp, phase, stops>>

User(u, status, admin) ==
    [kind |-> "user", id |-> u, status |-> status, admin |-> admin]

(* Every account has an id of its own, those long deleted too. *)
Signup(u) ==
    /\ \A i \in DOMAIN file : file[i].kind = "user" => file[i].id # u
    /\ Happens(<<User(u, "new", FALSE)>>)

UpdateUser(u) ==
    /\ u \in Teams(live) /\ live.users[u].status # "warned"
    /\ Happens(<<User(u, "warned", FALSE)>>)

(* SeedAdmin: the organiser's email is that of a team already registered. *)
SeedAdmin(u) ==
    /\ MayPromote /\ u \in Teams(live)
    /\ Happens(<<User(u, "new", TRUE)>>)

(* The ledger's check: what the share costs now is there. *)
Affords(u) == live.accounts[u].cash >= live.price

(* The trade, and updatePeakFor its account, which restore does not do. *)
Trade(u) ==
    LET rec   == [kind |-> "trade", id |-> u, price |-> live.price]
        after == WithTrade(live, rec)
    IN  /\ u \in Teams(live) /\ Affords(u)
        /\ phase = "up" /\ Len(file) < MaxLog
        /\ file' = Append(file, rec)
        /\ live' = [after EXCEPT !.peaks = WithPeak(@, u, Value(after.accounts[u], after.price))]
        /\ UNCHANGED <<tmp, phase, stops>>

SaveSim == \E p \in Price \ {live.price} : Happens(<<[kind |-> "prices", price |-> p]>>)

PersistClock == Happens(<<[kind |-> "clock", value |-> live.clock + 1]>>)

SetPaused(s) == Happens(<<[kind |-> "pause", id |-> s, on |-> s \notin live.paused]>>)

(* ResetEvent: the reset, the teams it keeps cleared, and the clock. *)
ResetEvent ==
    /\ MayReset /\ \A i \in DOMAIN file : file[i].kind # "reset"
    /\ \E all \in BOOLEAN :
          \E updates \in SetToSeqs({User(u, "new", FALSE) :
                                       u \in IF all THEN {} ELSE Teams(live)}) :
             Happens(<<[kind |-> "reset", everything |-> all]>> \o updates
                       \o <<[kind |-> "clock", value |-> 0]>>)

(* The server stops, or is killed; or a start is, wherever it was. *)
StopServer ==
    /\ phase # "down" /\ stops < MaxStops
    /\ phase' = "down" /\ stops' = stops + 1
    /\ UNCHANGED <<file, tmp, live>>

(* A start: a leftover of an earlier compaction is removed first, and a    *)
(* log with nothing to drop is left alone.                                 *)
Begin ==
    /\ phase = "down"
    /\ phase' = IF \E i \in DOMAIN file : Dropped(file, i) THEN "compacting" ELSE "ready"
    /\ tmp' = <<>>
    /\ UNCHANGED <<file, live, stops>>

Write ==
    /\ phase = "compacting" /\ Len(tmp) < Len(Compacted(file))
    /\ tmp' = SubSeq(Compacted(file), 1, Len(tmp) + 1)
    /\ UNCHANGED <<file, live, phase, stops>>

CompleteMutant == Len(tmp) + 1 >= Len(Compacted(file))

(* Pass 2 has written and synced every survivor. *)
Complete == Len(tmp) = Len(Compacted(file))

Rename ==
    /\ phase = "compacting" /\ Complete
    /\ file' = tmp /\ tmp' = <<>>
    /\ phase' = "ready"
    /\ UNCHANGED <<live, stops>>

(* restore, which gives up on a log it cannot replay. *)
Restore ==
    /\ phase = "ready" /\ Rebuilt(file).ok
    /\ live' = Rebuilt(file)
    /\ phase' = "up"
    /\ UNCHANGED <<file, tmp, stops>>

CompactionNext ==
    \/ \E u \in Team : Signup(u) \/ UpdateUser(u) \/ SeedAdmin(u) \/ Trade(u)
    \/ \E s \in Company : SetPaused(s)
    \/ SaveSim \/ PersistClock \/ ResetEvent
    \/ StopServer \/ Begin \/ Write \/ Rename \/ Restore

CompactionSpec == CompactionInit /\ [][CompactionNext]_compactionVars

-----------------------------------------------------------------------------
(* Properties *)

CompactionTypeOK ==
    /\ Len(file) <= MaxLog /\ Len(tmp) <= Len(file)
    /\ phase \in {"up", "down", "compacting", "ready"} /\ stops \in 0 .. MaxStops
    /\ live.paused \subseteq Company /\ live.price \in Price
    /\ \A u \in DOMAIN live.accounts : u \in Team /\ live.accounts[u].cash >= 0

(* "Without losing anything": at every moment, in the middle of a          *)
(* compaction too, the file on disk rebuilds the state the server last     *)
(* had, peaks apart (Compact and CompactRules against restore).            *)
RestartRebuilds == [Rebuilt(file) EXCEPT !.peaks = <<>>] = [live EXCEPT !.peaks = <<>>]

Happened(kind) == \E i \in DOMAIN file : file[i].kind = kind

Promoted == \E i \in DOMAIN file : file[i].kind = "user" /\ file[i].admin

(* ... and the peaks, which break ties in the ranking of Phase 1: those a  *)
(* restart finds are those the server had (updatePeakFor, restore).        *)
PeaksKept ==
    LET peaks == Rebuilt(file).peaks
    IN  phase = "up" => \A u \in DOMAIN peaks : peaks[u] = live.peaks[u]

(* What a compaction puts in the log's place has the trades and resets it  *)
(* had, in their order, and the newest record of everything else; this     *)
(* holds where RestartKeeps does not (Compact, killed or not).             *)
Facts(log) == Among(log, {rec \in ToSet(log) : rec.kind \in {"trade", "reset"}})

Newest(log) == {log[Max(Peers(log, i))] : i \in DOMAIN log}

FactsKept ==
    [][phase = "compacting" => /\ Facts(file') = Facts(file)
                               /\ Newest(file') = Newest(file)]_compactionVars

(* A server that stops comes up again, after resets and deleted teams too: *)
(* the log, tidied or not, never holds a trade before the account that     *)
(* made it (ReplayTrade's refusal), unless its team became the organiser.  *)
StartsAgain == ~Promoted => Rebuilt(file).ok

(* RestartRebuilds holds as long as the event was never reset and no team  *)
(* became the organiser: the newest record of a key can then take the      *)
(* place of the first (Compact and CompactRules against restore).  After a *)
(* reset a server still starts.                                            *)
RestartKeeps == /\ StartsAgain
                /\ ~Happened("reset") /\ ~Promoted => RestartRebuilds
=============================================================================
