------------------------------ MODULE TradeGate ------------------------------
(***************************************************************************)
(* App.Trade: what a request passes before and after it is executed - the  *)
(* organisers' switches, the retry check, the limit on trades in a rolling *)
(* window (package ratelimit) and the refund of the slot when no trade was *)
(* made.  Requests run concurrently; only the limiter and the execution    *)
(* have locks, so each step below is one of them.  The time the limiter    *)
(* goes by is read before its lock is taken, and may be old by then.       *)
(*                                                                         *)
(* A key is what the limit counts for: a team, or the fund whose managers  *)
(* share one account.  Execute is one step: module Trading has its inside. *)
(***************************************************************************)
EXTENDS Integers, Sequences, SequencesExt, FiniteSets

CONSTANTS
    Call,              \* the requests of App.Trade
    Key, Id,           \* accounts, and the clients' trade ids
    Limit, Span,       \* rateLimits: this many trades in a window this long
    MaxTime            \* bound on the environment

ASSUME TradeGateAssumption ==
    /\ Limit \in Nat \ {0} /\ Span \in Nat \ {0} /\ MaxTime \in Nat

VARIABLES
    now,
    open,      \* trading is on: not frozen, not paused, the market open
    hits,      \* Limiter.hits: the times that count, in the order they came
    made,      \* the trades made: (key, id) -> the call that made it
    pc,        \* where each call is
    req,       \* the request each call was given: [key, id]
    fresh,     \* the call's client id was not seen (~seen)
    at,        \* the time each call read for the limiter
    overtaken, \* history: of each key, refunds that found a newer hit than theirs
    behind     \* history: of each key, calls let through after one with a later time

seen == <<overtaken, behind>>

gateVars == <<now, open, hits, made, pc, req, fresh, at, seen>>

NoRequest == [key |-> "none", id |-> "none"]

GateInit ==
    /\ now = 0 /\ open = TRUE
    /\ hits = [k \in Key |-> <<>>]
    /\ made = <<>>
    /\ pc = [c \in Call |-> "idle"]
    /\ req = [c \in Call |-> NoRequest]
    /\ fresh = [c \in Call |-> FALSE]
    /\ at = [c \in Call |-> 0]
    /\ overtaken = [k \in Key |-> 0] /\ behind = [k \in Key |-> 0]

-----------------------------------------------------------------------------
(* Package ratelimit.  A definition named ...Mutant is a plausible bug in  *)
(* the one after it; only the mutation runs use it.                        *)
PrunedMutant(h, t) ==
    LET young == {i \in DOMAIN h : h[i] > t - Span + 1}
    IN  IF young = {} THEN <<>> ELSE SubSeq(h, Min(young), Len(h))

(* A hit counts for exactly one window: the oldest ones go, up to the      *)
(* first that still counts at time t.                                      *)
Pruned(h, t) ==
    LET young == {i \in DOMAIN h : h[i] > t - Span}
    IN  IF young = {} THEN <<>> ELSE SubSeq(h, Min(young), Len(h))

Within(h) == Len(h) < Limit

(* The newest hit is taken back. *)
Refunded(h) == IF h = <<>> THEN h ELSE Front(h)

-----------------------------------------------------------------------------
Name(c) == <<req[c].key, req[c].id>>

To(c, state) == pc' = [pc EXCEPT ![c] = state]

(* The gates: closed trading refuses. *)
Enter(c) ==
    /\ pc[c] = "idle"
    /\ \E k \in Key, i \in Id : req' = [req EXCEPT ![c] = [key |-> k, id |-> i]]
    /\ To(c, IF open THEN "entered" ELSE "refused")
    /\ UNCHANGED <<now, open, hits, made, fresh, at, seen>>

(* Executor.Seen: a repeat of a trade already made is a retry. *)
Look(c) ==
    /\ pc[c] = "entered"
    /\ fresh' = [fresh EXCEPT ![c] = Name(c) \notin DOMAIN made]
    /\ To(c, IF Name(c) \in DOMAIN made THEN "allowed" ELSE "new")
    /\ UNCHANGED <<now, open, hits, made, req, at, seen>>

(* A request that is not a retry reads the time ... *)
ReadTime(c) ==
    /\ pc[c] = "new"
    /\ at' = [at EXCEPT ![c] = now]
    /\ To(c, "timed")
    /\ UNCHANGED <<now, open, hits, made, req, fresh, seen>>

(* The requests of a key that have been at the limiter. *)
Served(k) ==
    {c \in Call : req[c].key = k
                  /\ pc[c] \in {"limited", "allowed", "traded", "refunding", "ended"}}

(* ... and takes the limiter's lock: Limiter.Allow.                        *)
Allow(c) ==
    LET k == req[c].key
        h == Pruned(hits[k], at[c])
    IN  /\ pc[c] = "timed"
        /\ hits' = [hits EXCEPT ![k] = IF Within(h) THEN Append(h, at[c]) ELSE h]
        /\ behind' = IF Within(h) /\ \E d \in Served(k) : at[d] > at[c]
                     THEN [behind EXCEPT ![k] = @ + 1] ELSE behind
        /\ To(c, IF Within(h) THEN "allowed" ELSE "limited")
        /\ UNCHANGED <<now, open, made, req, fresh, at, overtaken>>

(* Execute makes the trade, unless the id was used meanwhile ... *)
Execute(c) ==
    /\ pc[c] = "allowed" /\ Name(c) \notin DOMAIN made
    /\ made' = [n \in DOMAIN made \cup {Name(c)} |-> IF n = Name(c) THEN c ELSE made[n]]
    /\ To(c, "traded")
    /\ UNCHANGED <<now, open, hits, req, fresh, at, seen>>

(* ... or answers with the trade the id made, or fails: no trade is made.  *)
NoTrade(c) ==
    /\ pc[c] = "allowed"
    /\ To(c, IF fresh[c] THEN "refunding" ELSE "ended")
    /\ UNCHANGED <<now, open, hits, made, req, fresh, at, seen>>

Newer(h, t) == \E i \in DOMAIN h : h[i] > t

Refund(c) ==
    LET k == req[c].key
    IN  /\ pc[c] = "refunding"
        /\ hits' = [hits EXCEPT ![k] = Refunded(@)]
        /\ overtaken' = IF Newer(hits[k], at[c]) THEN [overtaken EXCEPT ![k] = @ + 1]
                        ELSE overtaken
        /\ To(c, "ended")
        /\ UNCHANGED <<now, open, made, req, fresh, at, behind>>

Pass ==
    /\ now < MaxTime
    /\ now' = now + 1
    /\ UNCHANGED <<open, hits, made, pc, req, fresh, at, seen>>

(* The organisers freeze or resume trading, pause, or close the market. *)
Switch ==
    /\ open' = ~open
    /\ UNCHANGED <<now, hits, made, pc, req, fresh, at, seen>>

GateStep(c) == Look(c) \/ ReadTime(c) \/ Allow(c) \/ Execute(c) \/ NoTrade(c) \/ Refund(c)

GateNext ==
    \/ \E c \in Call : Enter(c) \/ GateStep(c)
    \/ Pass \/ Switch

GateSpec == GateInit /\ [][GateNext]_gateVars

-----------------------------------------------------------------------------
(* Properties *)

GateTypeOK ==
    /\ now \in 0 .. MaxTime /\ open \in BOOLEAN
    /\ \A k \in Key : hits[k] \in Seq(0 .. now) /\ Len(hits[k]) <= Limit
    /\ \A k \in Key : {overtaken[k], behind[k]} \subseteq 0 .. Cardinality(Call)
    /\ DOMAIN made \subseteq Key \X Id /\ \A n \in DOMAIN made : made[n] \in Call
    /\ pc \in [Call -> {"idle", "refused", "entered", "new", "timed", "limited", "allowed",
                        "traded", "refunding", "ended"}]
    /\ fresh \in [Call -> BOOLEAN] /\ at \in [Call -> 0 .. now]

(* The trades of a key whose times for the limiter are in (t - Span, t]. *)
TradesIn(k, t) ==
    {n \in DOMAIN made : n[1] = k /\ at[made[n]] \in t - Span + 1 .. t}

(* "At most N trades in any rolling window" (package ratelimit), however   *)
(* requests and refusals are interleaved, but for one more                 *)
(*   - for each refund that found a newer hit in the list than its own:    *)
(*     the slot it takes back is the newest one, another request's; and    *)
(*   - for each request that took the limiter's lock so late that one with *)
(*     a later time had been there, and may have dropped hits that count.  *)
RollingLimit ==
    \A k \in Key : \A t \in 0 .. now :
        Cardinality(TradesIn(k, t)) <= Limit + overtaken[k] + behind[k]

(* "A refused trade does not use up one of the team's trades": when none   *)
(* of its requests is under way, no more hits count against a key than it  *)
(* made trades in the window (Allow, lost races and failures refunded),    *)
(* but for one for each request that was late for the lock: its hit is     *)
(* behind newer ones, and counts as long as they do.                       *)
RefusedCostsNothing ==
    \A k \in Key :
        (\A c \in Call : req[c].key = k => pc[c] \notin {"allowed", "refunding"})
        => Len(Pruned(hits[k], now)) <= Cardinality(TradesIn(k, now)) + behind[k]

(* The hits the limiter keeps and the trades made agree: no more trades    *)
(* than slots, and no slot without a trade (Allow, Refund, checkTrade).    *)
SlotsRight == RollingLimit /\ RefusedCostsNothing
=============================================================================
