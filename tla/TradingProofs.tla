---------------------------- MODULE TradingProofs ----------------------------
(***************************************************************************)
(* What is proved of Trading.  For every set of accounts, calls,           *)
(* organisers and requests, and any number of crashes: a client id makes   *)
(* at most one trade, a trade reported by the call that made it stays on   *)
(* disk, and until a power cut everybody who asks under a client id is     *)
(* told of the same trade.                                                 *)
(*                                                                         *)
(* Then the books, for every request that gives nobody cash: nothing is    *)
(* ever below zero, what a restart rebuilds from the log is what there is, *)
(* and the whole is the one serial book that SerialLedger promises.  The   *)
(* argument is a ledger of its own: what an account holds and what the log *)
(* says of it differ by what the calls and organisers under way owe the    *)
(* one or the other (Match), every record of the log is lawful where it    *)
(* stands (LawfulLog), and a trade that is being committed is still paid   *)
(* for (Backed).                                                           *)
(*                                                                         *)
(* And, whoever is given what: as long as prices stand still and nobody is *)
(* corrected, no company grows past its share of an account.               *)
(***************************************************************************)
EXTENDS Trading, Induction

States == {"idle", "waiting"} \cup Trades \cup Ended

IsTrade(i) == log[i].kind = "trade"

Shape ==
    /\ \E S : log \in Seq(S)
    /\ kept \in 0 .. Len(log)
    /\ durable \in 0 .. kept
    /\ pc \in [Call -> States]
    /\ DOMAIN req = Call /\ DOMAIN got = Call
    /\ DOMAIN opPc = Organiser /\ DOMAIN op = Organiser
    /\ DOMAIN place = Call \cup Organiser

(* A call that is trading makes its own trade, under the key it was asked. *)
Quoted ==
    \A c \in Call : pc[c] \in Trades =>
        /\ got[c].kind = "trade" /\ got[c].by = c
        /\ Key(got[c]) = Key(req[c])

(* The account's lock. *)
Alone ==
    \A c, d \in Call :
        (/\ pc[c] \in Trades /\ pc[d] \in Trades
         /\ req[c].acct = req[d].acct) => c = d

(* Until it commits, its client id is new. *)
Fresh ==
    \A c \in Call : pc[c] \in {"quoted", "checked"} => Key(req[c]) \notin DOMAIN seen

(* While the log works, its trades are remembered, or about to be. *)
Seeded ==
    ~broken => \A i \in 1 .. Len(log) : IsTrade(i) =>
        \/ Key(log[i]) \in DOMAIN seen
        \/ \E c \in Call : pc[c] \in {"committing", "applied"} /\ got[c] = log[i]

(* What an organiser changes is never recorded as a trade. *)
NoForgedTrade ==
    \A o \in Organiser : opPc[o] \in {"asked", "noted", "changed"} => op[o].kind # "trade"

(* A committing call knows its record; once applied the record is safe.    *)
Recorded ==
    \A c \in Call :
        /\ pc[c] = "committing" => /\ place[c] \in 1 .. Len(log)
                                   /\ log[place[c]] = got[c]
        /\ (pc[c] = "applied" \/ (pc[c] = "answered" /\ got[c].by = c)) =>
              \E i \in 1 .. durable : log[i] = got[c]

(* Nothing is recorded or remembered of a call before it commits. *)
NoneYet ==
    \A c \in Call : pc[c] \in {"idle", "waiting", "quoted", "checked"} =>
        /\ \A i \in 1 .. Len(log) : IsTrade(i) => log[i].by # c
        /\ \A k \in DOMAIN seen : seen[k].by # c

IInv == /\ Shape /\ Quoted /\ Alone /\ Fresh /\ Seeded /\ NoForgedTrade
        /\ Recorded /\ NoneYet /\ OnceOnly
-----------------------------------------------------------------------------
(* Nothing has happened yet. *)
LEMMA InitIInv == Init => IInv
<1> SUFFICES ASSUME Init PROVE IInv
  OBVIOUS
<1>1. log = <<>> /\ log \in Seq({}) /\ Len(log) = 0 /\ DOMAIN seen = {}
  BY DEF Init
<1>2. Shape
  <2>1. \E S : log \in Seq(S)
    BY <1>1
  <2>2. pc \in [Call -> States]
    BY DEF Init, States
  <2>3. QED
    BY <1>1, <2>1, <2>2 DEF Init, Shape
<1>3. Quoted /\ Alone /\ Fresh
  BY DEF Init, Quoted, Alone, Fresh, Trades
<1>4. Seeded /\ NoForgedTrade /\ Recorded /\ NoneYet /\ OnceOnly
  BY <1>1 DEF Init, Seeded, NoForgedTrade, Recorded, NoneYet, OnceOnly
<1>5. QED
  BY <1>2, <1>3, <1>4 DEF IInv

(* A step that touches neither the log nor the trades keeps the invariant  *)
(* if it records no organiser's change as a trade.                         *)
LEMMA QuietIInv ==
  ASSUME IInv, UNCHANGED <<log, kept, durable, seen, pc, req, got>>,
         broken' = broken \/ broken' = TRUE,
         \A c \in Call : place'[c] = place[c],
         DOMAIN opPc' = Organiser, DOMAIN op' = Organiser,
         DOMAIN place' = Call \cup Organiser, NoForgedTrade'
  PROVE  IInv'
<1>1. Shape'
  BY DEF IInv, Shape
<1>2. Quoted' /\ Alone' /\ Fresh'
  BY DEF IInv, Quoted, Alone, Fresh, Key
<1>3. Seeded'
  BY DEF IInv, Seeded, IsTrade, Key
<1>4. Recorded' /\ NoneYet' /\ OnceOnly'
  BY DEF IInv, Recorded, NoneYet, OnceOnly, IsTrade, Key
<1>5. QED
  BY <1>1, <1>2, <1>3, <1>4 DEF IInv

-----------------------------------------------------------------------------
(* The organisers' steps that do not append, and the market's. *)
LEMMA OrganiserIInv ==
  ASSUME IInv, NEW o \in Organiser,
         \/ Ask(o) \/ Measure(o) \/ AdjustCash(o) \/ NoteAverage(o)
         \/ Revoke(o) \/ Stored(o) \/ Grant(o)
  PROVE  IInv'
<1>1. /\ UNCHANGED <<log, kept, durable, seen, pc, req, got, place>>
      /\ broken' = broken
  BY DEF Ask, Measure, AdjustCash, NoteAverage, Revoke, Stored, Grant,
         memory, disk, calls, ops, world
<1>2. \E v : opPc' = [opPc EXCEPT ![o] = v]
  BY DEF Ask, Measure, AdjustCash, NoteAverage, Revoke, Stored, Grant, OpTo, Undo
<1>3. op' = op \/ \E v : op' = [op EXCEPT ![o] = v]
  BY DEF Ask, Measure, AdjustCash, NoteAverage, Revoke, Stored, Grant
<1>4. /\ DOMAIN opPc' = Organiser /\ DOMAIN op' = Organiser
      /\ DOMAIN place' = Call \cup Organiser
  BY <1>1, <1>2, <1>3 DEF IInv, Shape
<1>5. \A p \in Organiser \ {o} : opPc'[p] = opPc[p] /\ op'[p] = op[p]
  BY <1>2, <1>3 DEF IInv, Shape
<1>6. opPc'[o] \in {"asked", "noted", "changed"} => op'[o].kind # "trade"
  <2>1. CASE Ask(o)
    <3>1. PICK w \in Operation : op' = [op EXCEPT ![o] = w]
      BY <2>1 DEF Ask
    <3>2. op'[o] = w
      BY <3>1 DEF IInv, Shape
    <3>3. w.kind # "trade"
      BY <3>1, TradingAssumption DEF Correction
    <3>4. QED
      BY <3>2, <3>3
  <2>2. CASE Measure(o)
    <3>1. op'[o] = Difference(o)
      BY <2>2 DEF Measure, IInv, Shape
    <3>2. Difference(o).kind # "trade"
      BY DEF Difference, Nothing
    <3>3. QED
      BY <3>1, <3>2
  <2>3. CASE AdjustCash(o) \/ NoteAverage(o) \/ Revoke(o) \/ Grant(o)
    <3>1. op' = op
      BY <2>3 DEF AdjustCash, NoteAverage, Revoke, Grant, ops
    <3>2. opPc[o] \in {"asked", "noted"} \/ opPc'[o] = "done"
      BY <2>3 DEF AdjustCash, NoteAverage, Revoke, Grant, OpTo, IInv, Shape
    <3>3. QED
      BY <3>1, <3>2 DEF IInv, NoForgedTrade
  <2>4. CASE Stored(o)
    <3>1. opPc'[o] \in {"stored", "done", "failed"}
      BY <2>4 DEF Stored, Undo, OpTo, IInv, Shape
    <3>2. QED
      BY <3>1
  <2>5. QED
    BY <2>1, <2>2, <2>3, <2>4
<1>7. NoForgedTrade'
  BY <1>5, <1>6 DEF IInv, NoForgedTrade
<1>8. QED
  BY <1>1, <1>4, <1>7, QuietIInv

(* The world around a trade: a price moves, the log breaks. *)
LEMMA WorldIInv ==
  ASSUME IInv, PriceMove \/ Break
  PROVE  IInv'
<1>1. /\ UNCHANGED <<log, kept, durable, seen, pc, req, got, place, opPc, op>>
      /\ broken' = broken \/ broken' = TRUE
  BY DEF PriceMove, Break, memory, disk, actors, calls, ops
<1>2. NoForgedTrade'
  BY <1>1 DEF IInv, NoForgedTrade
<1>3. QED
  BY <1>1, <1>2, QuietIInv DEF IInv, Shape

-----------------------------------------------------------------------------
(* A call that waits, is answered from memory, is priced or is refused. *)
LEMMA ArriveIInv ==
  ASSUME IInv, NEW c \in Call, Arrive(c)
  PROVE  IInv'
<1>1. /\ UNCHANGED <<log, kept, durable, seen, broken, got, place, opPc, op>>
      /\ pc[c] = "idle" /\ pc' = [pc EXCEPT ![c] = "waiting"]
  BY DEF Arrive, To, memory, disk, ops
<1>2. \E q : req' = [req EXCEPT ![c] = q]
  BY DEF Arrive
<1>3. /\ pc' \in [Call -> States] /\ pc'[c] = "waiting"
      /\ \A d \in Call \ {c} : pc'[d] = pc[d] /\ req'[d] = req[d]
  BY <1>1, <1>2 DEF IInv, Shape, States
<1>4. Shape'
  BY <1>1, <1>2, <1>3 DEF IInv, Shape
<1>5. Quoted' /\ Alone' /\ Fresh'
  BY <1>1, <1>3 DEF IInv, Quoted, Alone, Fresh, Key, Trades
<1>6. Seeded' /\ NoForgedTrade' /\ OnceOnly'
  BY <1>1, <1>3 DEF IInv, Seeded, NoForgedTrade, OnceOnly, Key, IsTrade
<1>7. Recorded' /\ NoneYet'
  BY <1>1, <1>3 DEF IInv, Recorded, NoneYet, IsTrade
<1>8. QED
  BY <1>4, <1>5, <1>6, <1>7 DEF IInv

(* A retry. *)
LEMMA RepeatIInv ==
  ASSUME IInv, NEW c \in Call, Repeat(c)
  PROVE  IInv'
<1>1. /\ UNCHANGED <<log, kept, durable, seen, broken, req, place, opPc, op>>
      /\ pc[c] = "waiting"
      /\ Key(req[c]) \in DOMAIN seen
  BY DEF Repeat, memory, disk, ops
<1>2. \/ /\ pc' = [pc EXCEPT ![c] = "answered"]
         /\ got' = [got EXCEPT ![c] = seen[Key(req[c])]]
      \/ pc' = [pc EXCEPT ![c] = "refused"] /\ got' = got
  BY DEF Repeat, To
<1>3. /\ pc' \in [Call -> States] /\ pc'[c] \in {"answered", "refused"}
      /\ pc'[c] = "answered" => got'[c] = seen[Key(req[c])]
      /\ DOMAIN got' = Call
      /\ \A d \in Call \ {c} : pc'[d] = pc[d] /\ got'[d] = got[d]
  BY <1>2 DEF IInv, Shape, States, Ended
<1>4. Shape'
  BY <1>1, <1>3 DEF IInv, Shape
<1>5. Quoted' /\ Alone' /\ Fresh'
  BY <1>1, <1>3 DEF IInv, Quoted, Alone, Fresh, Key, Trades
<1>6. Seeded' /\ NoForgedTrade' /\ OnceOnly'
  BY <1>1, <1>3 DEF IInv, Seeded, NoForgedTrade, OnceOnly, Key, IsTrade
<1>7. NoneYet'
  BY <1>1, <1>3 DEF IInv, NoneYet, IsTrade
<1>8. pc'[c] = "answered" => got'[c].by # c
  BY <1>1, <1>3 DEF IInv, NoneYet
<1>9. Recorded'
  BY <1>1, <1>3, <1>8 DEF IInv, Recorded
<1>10. QED
  BY <1>4, <1>5, <1>6, <1>7, <1>9 DEF IInv

(* A quote. *)
LEMMA QuoteIInv ==
  ASSUME IInv, NEW c \in Call, Quote(c)
  PROVE  IInv'
<1>1. /\ UNCHANGED <<log, kept, durable, seen, broken, req, place, opPc, op>>
      /\ pc[c] = "waiting" /\ ~TradeLocked(req[c].acct)
      /\ Key(req[c]) \notin DOMAIN seen
  BY DEF Quote, memory, disk, ops
<1>2. \/ /\ pc' = [pc EXCEPT ![c] = "quoted"]
         /\ \E p : got' = [got EXCEPT ![c] = TradeAt(c, req[c], p)]
      \/ pc' = [pc EXCEPT ![c] = "refused"] /\ got' = got
  BY DEF Quote, To
<1>3. /\ pc' \in [Call -> States] /\ pc'[c] \in {"quoted", "refused"}
      /\ pc'[c] = "quoted" => /\ got'[c].kind = "trade" /\ got'[c].by = c
                              /\ Key(got'[c]) = Key(req[c])
      /\ DOMAIN got' = Call
      /\ \A d \in Call \ {c} : pc'[d] = pc[d] /\ got'[d] = got[d]
  BY <1>2 DEF IInv, Shape, States, Trades, Ended, TradeAt, Key
<1>4. Shape'
  BY <1>1, <1>3 DEF IInv, Shape
<1>5. Quoted'
  BY <1>1, <1>3 DEF IInv, Quoted, Key, Trades
<1>6. Alone'
  BY <1>1, <1>3 DEF IInv, Alone, TradeLocked, Trades
<1>7. Fresh'
  BY <1>1, <1>3 DEF IInv, Fresh, Key
<1>8. Seeded' /\ NoForgedTrade' /\ OnceOnly'
  BY <1>1, <1>3 DEF IInv, Seeded, NoForgedTrade, OnceOnly, Key, IsTrade
<1>9. Recorded' /\ NoneYet'
  BY <1>1, <1>3 DEF IInv, Recorded, NoneYet, IsTrade
<1>10. QED
  BY <1>4, <1>5, <1>6, <1>7, <1>8, <1>9 DEF IInv

(* The checks. *)
LEMMA CheckIInv ==
  ASSUME IInv, NEW c \in Call, Check(c)
  PROVE  IInv'
<1>1. /\ UNCHANGED <<log, kept, durable, seen, broken, req, got, place, opPc, op>>
      /\ pc[c] = "quoted"
      /\ \E v \in {"refused", "checked"} : pc' = [pc EXCEPT ![c] = v]
  BY DEF Check, To, memory, disk, ops
<1>2. /\ pc' \in [Call -> States] /\ pc'[c] \in {"checked", "refused"}
      /\ \A d \in Call \ {c} : pc'[d] = pc[d]
  BY <1>1 DEF IInv, Shape, States, Trades, Ended
<1>3. Shape'
  BY <1>1, <1>2 DEF IInv, Shape
<1>4. Quoted' /\ Alone' /\ Fresh'
  BY <1>1, <1>2 DEF IInv, Quoted, Alone, Fresh, Key, Trades
<1>5. Seeded' /\ NoForgedTrade' /\ OnceOnly'
  BY <1>1, <1>2 DEF IInv, Seeded, NoForgedTrade, OnceOnly, Key, IsTrade
<1>6. Recorded' /\ NoneYet'
  BY <1>1, <1>2 DEF IInv, Recorded, NoneYet, IsTrade
<1>7. QED
  BY <1>3, <1>4, <1>5, <1>6 DEF IInv

-----------------------------------------------------------------------------
(* Appending a record adds it at the end and changes nothing before it. *)
LEMMA Appended ==
  ASSUME IInv, NEW x \in Call \cup Organiser, NEW rec, AppendFor(x, rec)
  PROVE  /\ \E S : log' \in Seq(S)
         /\ Len(log') = Len(log) + 1 /\ Len(log) \in Nat
         /\ \A i \in 1 .. Len(log) : log'[i] = log[i]
         /\ log'[Len(log')] = rec
         /\ DOMAIN place' = Call \cup Organiser
         /\ place'[x] = Len(log')
         /\ \A y \in Call \cup Organiser : y # x => place'[y] = place[y]
<1>1. PICK S : log \in Seq(S)
  BY DEF IInv, Shape
<1>2. log' = Append(log, rec) /\ log \in Seq(S \cup {rec})
  BY <1>1 DEF AppendFor
<1>3. /\ log' \in Seq(S \cup {rec}) /\ Len(log') = Len(log) + 1 /\ Len(log) \in Nat
      /\ \A i \in 1 .. Len(log) : log'[i] = log[i]
      /\ log'[Len(log')] = rec
  BY <1>2
<1>4. place' = [place EXCEPT ![x] = Len(log) + 1] /\ DOMAIN place = Call \cup Organiser
  BY DEF AppendFor, IInv, Shape
<1>5. QED
  BY <1>3, <1>4

(* A commit appends a trade whose key no trade of the log has. *)
LEMMA CommitIInv ==
  ASSUME IInv, NEW c \in Call, Commit(c)
  PROVE  IInv'
<1>1. /\ UNCHANGED <<kept, durable, seen, broken, req, got, opPc, op>>
      /\ pc[c] = "checked"
  BY DEF Commit, memory, ops
<1>2. CASE /\ UNCHANGED <<log, place>>
           /\ \E v \in {"refused", "failed"} : pc' = [pc EXCEPT ![c] = v]
  <2>1. /\ pc' \in [Call -> States] /\ pc'[c] \in {"failed", "refused"}
        /\ \A d \in Call \ {c} : pc'[d] = pc[d]
    BY <1>2 DEF IInv, Shape, States, Trades, Ended
  <2>2. Shape'
    BY <1>1, <1>2, <2>1 DEF IInv, Shape
  <2>3. Quoted' /\ Alone' /\ Fresh'
    BY <1>1, <2>1 DEF IInv, Quoted, Alone, Fresh, Key, Trades
  <2>4. Seeded' /\ NoForgedTrade' /\ OnceOnly'
    BY <1>1, <1>2, <2>1 DEF IInv, Seeded, NoForgedTrade, OnceOnly, Key, IsTrade
  <2>5. Recorded' /\ NoneYet'
    BY <1>1, <1>2, <2>1 DEF IInv, Recorded, NoneYet, IsTrade
  <2>6. QED
    BY <2>2, <2>3, <2>4, <2>5 DEF IInv
<1>3. CASE AppendFor(c, got[c]) /\ pc' = [pc EXCEPT ![c] = "committing"]
  <2> DEFINE n == Len(log')
  <2>1. /\ pc' \in [Call -> States] /\ pc'[c] = "committing"
        /\ \A d \in Call \ {c} : pc'[d] = pc[d]
    BY <1>3 DEF IInv, Shape, States, Trades
  <2>2. /\ \E S : log' \in Seq(S)
        /\ n = Len(log) + 1 /\ Len(log) \in Nat
        /\ \A i \in 1 .. Len(log) : log'[i] = log[i]
        /\ log'[n] = got[c]
        /\ DOMAIN place' = Call \cup Organiser
        /\ place'[c] = n
        /\ \A d \in Call \ {c} : place'[d] = place[d]
    BY <1>3, Appended
  <2>3. ~broken
    BY <1>3 DEF AppendFor
  <2>4. got[c].kind = "trade" /\ got[c].by = c /\ Key(got[c]) = Key(req[c])
    BY <1>1 DEF IInv, Quoted, Trades
  <2>5. kept \in Nat /\ durable \in Nat /\ durable <= kept /\ kept <= Len(log)
    BY <2>2 DEF IInv, Shape
  <2>6. Shape'
    <3>1. kept' \in 0 .. Len(log') /\ durable' \in 0 .. kept'
      BY <1>1, <2>2, <2>5
    <3>2. QED
      BY <1>1, <2>1, <2>2, <3>1 DEF IInv, Shape
  <2>7. Quoted' /\ Alone' /\ Fresh'
    BY <1>1, <2>1 DEF IInv, Quoted, Alone, Fresh, Key, Trades
  <2>8. Seeded'
    BY <1>1, <2>1, <2>2, <2>3 DEF IInv, Seeded, Key, IsTrade
  <2>9. NoForgedTrade'
    BY <1>1 DEF IInv, NoForgedTrade
  <2>10. \A i \in 1 .. Len(log) : IsTrade(i) => Key(log[i]) # Key(got[c])
    <3> SUFFICES ASSUME NEW i \in 1 .. Len(log), IsTrade(i),
                        Key(log[i]) = Key(got[c])
                 PROVE  FALSE
      OBVIOUS
    <3>1. Key(log[i]) \notin DOMAIN seen
      BY <1>1, <2>4 DEF IInv, Fresh
    <3>2. PICK d \in Call : pc[d] \in {"committing", "applied"} /\ got[d] = log[i]
      BY <2>3, <3>1 DEF IInv, Seeded
    <3>3. Key(req[d]) = Key(req[c])
      BY <2>4, <3>2 DEF IInv, Quoted, Trades
    <3>4. req[d].acct = req[c].acct
      BY <3>3 DEF Key
    <3>5. d = c
      BY <1>1, <3>2, <3>4 DEF IInv, Alone, Trades
    <3>6. QED
      BY <1>1, <3>2, <3>5
  <2>11. OnceOnly'
    <3> SUFFICES ASSUME NEW i \in 1 .. n, NEW j \in 1 .. n,
                        log'[i].kind = "trade", log'[j].kind = "trade",
                        Key(log'[i]) = Key(log'[j])
                 PROVE  i = j
      BY DEF OnceOnly, Key
    <3>1. CASE i \in 1 .. Len(log) /\ j \in 1 .. Len(log)
      BY <2>2, <3>1 DEF IInv, OnceOnly
    <3>2. CASE i = n /\ j # n
      <4>1. j \in 1 .. Len(log) /\ log'[j] = log[j]
        BY <2>2, <3>2
      <4>2. Key(log[j]) = Key(got[c]) /\ IsTrade(j)
        BY <2>2, <3>2, <4>1 DEF IsTrade
      <4>3. QED
        BY <2>10, <4>1, <4>2
    <3>3. CASE j = n /\ i # n
      <4>1. i \in 1 .. Len(log) /\ log'[i] = log[i]
        BY <2>2, <3>3
      <4>2. Key(log[i]) = Key(got[c]) /\ IsTrade(i)
        BY <2>2, <3>3, <4>1 DEF IsTrade
      <4>3. QED
        BY <2>10, <4>1, <4>2
    <3>4. i \in 1 .. Len(log) \/ i = n
      BY <2>2
    <3>5. j \in 1 .. Len(log) \/ j = n
      BY <2>2
    <3>6. QED
      BY <3>1, <3>2, <3>3, <3>4, <3>5
  <2>12. Recorded'
    <3>1. \A d \in Call \ {c} : pc'[d] = "committing" =>
             place'[d] \in 1 .. n /\ log'[place'[d]] = got[d]
      BY <2>1, <2>2 DEF IInv, Recorded
    <3>2. \A i \in 1 .. durable : log'[i] = log[i]
      BY <2>2, <2>5
    <3>3. \A d \in Call :
             (pc'[d] = "applied" \/ (pc'[d] = "answered" /\ got[d].by = d)) =>
                \E i \in 1 .. durable : log'[i] = got[d]
      BY <2>1, <3>2 DEF IInv, Recorded
    <3>4. place'[c] \in 1 .. n
      BY <2>2
    <3>5. QED
      BY <1>1, <2>2, <3>1, <3>3, <3>4 DEF Recorded
  <2>13. NoneYet'
    <3>1. \A d \in Call : pc'[d] \in {"idle", "waiting", "quoted", "checked"} =>
             d # c /\ pc'[d] = pc[d]
      BY <2>1
    <3>2. \A d \in Call : pc'[d] \in {"idle", "waiting", "quoted", "checked"} =>
             \A i \in 1 .. n : log'[i].kind = "trade" => log'[i].by # d
      BY <2>2, <2>4, <3>1 DEF IInv, NoneYet, IsTrade
    <3>3. QED
      BY <1>1, <3>1, <3>2 DEF IInv, NoneYet, IsTrade
  <2>14. QED
    BY <2>6, <2>7, <2>8, <2>9, <2>11, <2>12, <2>13 DEF IInv
<1>4. QED
  BY <1>2, <1>3 DEF Commit, To

(* The commit returns, well or badly. *)
LEMMA ApplyIInv ==
  ASSUME IInv, NEW c \in Call, Apply(c) \/ GiveUp(c)
  PROVE  IInv'
<1>1. /\ UNCHANGED <<log, kept, durable, seen, broken, req, got, place, opPc, op>>
      /\ pc[c] = "committing"
      /\ \/ pc' = [pc EXCEPT ![c] = "applied"] /\ Synced(c)
         \/ pc' = [pc EXCEPT ![c] = "failed"] /\ AppendFailed(c)
  BY DEF Apply, GiveUp, To, memory, disk, ops
<1>2. /\ pc' \in [Call -> States]
      /\ \/ pc'[c] = "applied" /\ Synced(c)
         \/ pc'[c] = "failed" /\ broken
      /\ \A d \in Call \ {c} : pc'[d] = pc[d]
  BY <1>1 DEF IInv, Shape, States, Trades, Ended, AppendFailed
<1>3. Shape'
  BY <1>1, <1>2 DEF IInv, Shape
<1>4. Quoted' /\ Alone' /\ Fresh'
  BY <1>1, <1>2 DEF IInv, Quoted, Alone, Fresh, Key, Trades
<1>5. Seeded' /\ NoForgedTrade' /\ OnceOnly'
  BY <1>1, <1>2 DEF IInv, Seeded, NoForgedTrade, OnceOnly, Key, IsTrade
<1>6. pc'[c] = "applied" => \E i \in 1 .. durable : log[i] = got[c]
  <2>1. place[c] \in 1 .. Len(log) /\ log[place[c]] = got[c]
    BY <1>1 DEF IInv, Recorded
  <2>2. QED
    BY <1>2, <2>1 DEF Synced, IInv, Shape
<1>7. Recorded' /\ NoneYet'
  BY <1>1, <1>2, <1>6 DEF IInv, Recorded, NoneYet, IsTrade
<1>8. QED
  BY <1>3, <1>4, <1>5, <1>7 DEF IInv

(* The call remembers its trade and returns it. *)
LEMMA AnswerIInv ==
  ASSUME IInv, NEW c \in Call, Answer(c)
  PROVE  IInv'
<1>1. /\ UNCHANGED <<log, kept, durable, broken, req, got, place, opPc, op>>
      /\ pc[c] = "applied" /\ pc' = [pc EXCEPT ![c] = "answered"]
      /\ seen' = [k \in DOMAIN seen \cup {Key(got[c])} |->
                      IF k = Key(got[c]) THEN got[c] ELSE seen[k]]
  BY DEF Answer, To, disk, ops
<1>2. /\ DOMAIN seen' = DOMAIN seen \cup {Key(req[c])}
      /\ \A k \in DOMAIN seen' : seen'[k] = got[c] \/ (k \in DOMAIN seen /\ seen'[k] = seen[k])
  BY <1>1 DEF IInv, Quoted, Trades
<1>3. /\ pc' \in [Call -> States] /\ pc'[c] = "answered"
      /\ \A d \in Call \ {c} : pc'[d] = pc[d]
  BY <1>1 DEF IInv, Shape, States, Ended
<1>4. got[c].kind = "trade" /\ got[c].by = c /\ Key(got[c]) = Key(req[c])
  BY <1>1 DEF IInv, Quoted, Trades
<1>5. Shape'
  BY <1>1, <1>3 DEF IInv, Shape
<1>6. Quoted' /\ Alone'
  BY <1>1, <1>3 DEF IInv, Quoted, Alone, Key, Trades
<1>7. Fresh'
  <2> SUFFICES ASSUME NEW d \in Call, pc'[d] \in {"quoted", "checked"}
               PROVE  Key(req[d]) \notin DOMAIN seen'
    BY <1>1 DEF Fresh, Key
  <2>1. d # c /\ pc[d] \in {"quoted", "checked"}
    BY <1>3
  <2>2. Key(req[d]) \notin DOMAIN seen
    BY <2>1 DEF IInv, Fresh
  <2>3. req[d].acct # req[c].acct
    BY <1>1, <2>1 DEF IInv, Alone, Trades
  <2>4. Key(req[d]) # Key(req[c])
    BY <2>3 DEF Key
  <2>5. QED
    BY <1>2, <2>2, <2>4
<1>8. Seeded'
  <2> SUFFICES ASSUME ~broken, NEW i \in 1 .. Len(log), IsTrade(i)
               PROVE  \/ Key(log[i]) \in DOMAIN seen'
                      \/ \E d \in Call : pc'[d] \in {"committing", "applied"} /\ got[d] = log[i]
    BY <1>1 DEF Seeded, IsTrade, Key
  <2>1. CASE Key(log[i]) \in DOMAIN seen
    BY <1>2, <2>1
  <2>2. CASE \E d \in Call : pc[d] \in {"committing", "applied"} /\ got[d] = log[i]
    BY <1>2, <1>3, <1>4, <2>2
  <2>3. QED
    BY <2>1, <2>2 DEF IInv, Seeded
<1>9. NoForgedTrade' /\ OnceOnly'
  BY <1>1 DEF IInv, NoForgedTrade, OnceOnly, Key
<1>10. Recorded'
  BY <1>1, <1>3, <1>4 DEF IInv, Recorded
<1>11. NoneYet'
  BY <1>1, <1>2, <1>3, <1>4 DEF IInv, NoneYet, IsTrade
<1>12. QED
  BY <1>5, <1>6, <1>7, <1>8, <1>9, <1>10, <1>11 DEF IInv

-----------------------------------------------------------------------------
(* An organiser's record joins the log, or is refused. *)
LEMMA StoreIInv ==
  ASSUME IInv, NEW o \in Organiser, Store(o) \/ StoreGrant(o)
  PROVE  IInv'
<1>1. /\ UNCHANGED <<kept, durable, seen, broken, pc, req, got, op>>
      /\ opPc[o] \in {"asked", "changed"}
      /\ \E v \in {"storing", "failed"} : opPc' = [opPc EXCEPT ![o] = v]
      /\ AppendFor(o, op[o]) \/ UNCHANGED <<log, place>>
  BY DEF Store, StoreGrant, Undo, OpTo, memory, calls
<1>2. NoForgedTrade'
  BY <1>1 DEF IInv, NoForgedTrade, Shape
<1>3. DOMAIN opPc' = Organiser /\ DOMAIN op' = Organiser
  BY <1>1 DEF IInv, Shape
<1>4. CASE UNCHANGED <<log, place>>
  BY <1>1, <1>2, <1>3, <1>4, QuietIInv DEF IInv, Shape
<1>5. CASE AppendFor(o, op[o])
  <2> DEFINE n == Len(log')
  <2>1. /\ \E S : log' \in Seq(S)
        /\ n = Len(log) + 1 /\ Len(log) \in Nat
        /\ \A i \in 1 .. Len(log) : log'[i] = log[i]
        /\ log'[n] = op[o]
        /\ DOMAIN place' = Call \cup Organiser
        /\ \A x \in Call \cup Organiser : x # o => place'[x] = place[x]
    BY <1>5, Appended
  <2>2. \A c \in Call : place'[c] = place[c]
    BY <2>1, TradingAssumption
  <2>3. log'[n].kind # "trade"
    BY <1>1, <2>1 DEF IInv, NoForgedTrade
  <2>4. \A i \in 1 .. n : log'[i].kind = "trade" =>
            i \in 1 .. Len(log) /\ log'[i] = log[i] /\ IsTrade(i)
    <3> SUFFICES ASSUME NEW i \in 1 .. n, log'[i].kind = "trade"
                 PROVE  i \in 1 .. Len(log) /\ log'[i] = log[i] /\ IsTrade(i)
      OBVIOUS
    <3>1. i # n
      BY <2>3
    <3>2. i \in 1 .. Len(log)
      BY <2>1, <3>1
    <3>3. QED
      BY <2>1, <3>2 DEF IsTrade
  <2>5. kept \in 0 .. Len(log) /\ durable \in 0 .. kept
    BY DEF IInv, Shape
  <2>6. Shape'
    <3>1. kept' \in 0 .. Len(log') /\ durable' \in 0 .. kept'
      BY <1>1, <2>1, <2>5
    <3>2. QED
      BY <1>1, <1>3, <2>1, <3>1 DEF IInv, Shape
  <2>7. Quoted' /\ Alone' /\ Fresh'
    BY <1>1 DEF IInv, Quoted, Alone, Fresh, Key
  <2>8. Seeded'
    BY <1>1, <2>4 DEF IInv, Seeded, IsTrade, Key
  <2>9. OnceOnly'
    BY <2>4 DEF IInv, OnceOnly, Key, IsTrade
  <2>10. Recorded'
    BY <1>1, <2>1, <2>2, <2>5 DEF IInv, Recorded
  <2>11. NoneYet'
    BY <1>1, <2>4 DEF IInv, NoneYet, IsTrade
  <2>12. QED
    BY <1>2, <2>6, <2>7, <2>8, <2>9, <2>10, <2>11 DEF IInv
<1>6. QED
  BY <1>1, <1>4, <1>5

(* A sync only makes more of the log safe. *)
LEMMA SyncIInv ==
  ASSUME IInv, Sync
  PROVE  IInv'
<1>1. UNCHANGED <<log, seen, broken, pc, req, got, place, opPc, op>>
  BY DEF Sync, memory, actors, calls, ops
<1>2. kept \in Nat /\ durable \in Nat /\ Len(log) \in Nat
  BY DEF IInv, Shape
<1>3. /\ durable' \in durable .. Len(log)
      /\ kept' \in 0 .. Len(log) /\ durable' \in 0 .. kept'
  BY <1>2 DEF Sync, IInv, Shape
<1>4. Shape'
  BY <1>1, <1>3 DEF IInv, Shape
<1>5. Quoted' /\ Alone' /\ Fresh' /\ Seeded'
  BY <1>1 DEF IInv, Quoted, Alone, Fresh, Seeded, Key, IsTrade
<1>6. NoForgedTrade' /\ NoneYet' /\ OnceOnly'
  BY <1>1 DEF IInv, NoForgedTrade, NoneYet, OnceOnly, Key, IsTrade
<1>7. Recorded'
  BY <1>1, <1>2, <1>3 DEF IInv, Recorded
<1>8. QED
  BY <1>4, <1>5, <1>6, <1>7 DEF IInv

(* A restart keeps the first n records, and remembers the trades in them.  *)
LEMMA RestartSeen ==
  ASSUME IInv, NEW n \in durable .. Len(log), Restart(n)
  PROVE  /\ \E S : log' \in Seq(S)
         /\ Len(log') = n
         /\ \A i \in 1 .. n : i \in 1 .. Len(log) /\ log'[i] = log[i]
         /\ \A i \in 1 .. n : log'[i].kind = "trade" => Key(log'[i]) \in DOMAIN seen'
         /\ \A k \in DOMAIN seen' : \E i \in 1 .. n :
               /\ log'[i].kind = "trade" /\ seen'[k] = log'[i]
               /\ Key(log'[i]) = k
<1> DEFINE trades == {i \in 1 .. Len(log') : log'[i].kind = "trade"}
           keys   == {Key(log'[i]) : i \in trades}
           last(k) == CHOOSE i \in trades :
                          /\ Key(log'[i]) = k
                          /\ \A j \in trades : Key(log'[j]) = k => j <= i
<1>1. PICK S : log \in Seq(S)
  BY DEF IInv, Shape
<1>2. durable \in Nat /\ Len(log) \in Nat
  BY DEF IInv, Shape
<1>3. log' = SubSeq(log, 1, n) /\ seen' = Remembered(log')
  BY DEF Restart
<1>4. /\ log' \in Seq(S) /\ Len(log') = n
      /\ \A i \in 1 .. n : i \in 1 .. Len(log) /\ log'[i] = log[i]
  BY <1>1, <1>2, <1>3
<1>5. \A i, j \in 1 .. n : (/\ log'[i].kind = "trade" /\ log'[j].kind = "trade"
                            /\ Key(log'[i]) = Key(log'[j])) => i = j
  BY <1>4 DEF IInv, OnceOnly
<1>6. seen' = [k \in keys |-> log'[last(k)]]
  BY <1>3 DEF Remembered
<1>7. ASSUME NEW k \in keys PROVE last(k) \in trades /\ Key(log'[last(k)]) = k
  <2>1. PICK i \in trades : Key(log'[i]) = k
    BY <1>7
  <2>2. \A j \in trades : Key(log'[j]) = k => j <= i
    BY <1>4, <1>5, <2>1
  <2>3. QED
    BY <2>1, <2>2
<1>8. \A i \in trades : Key(log'[i]) \in keys
  OBVIOUS
<1>9. DOMAIN seen' = keys
  BY <1>6
<1>10. \A k \in DOMAIN seen' :
          last(k) \in trades /\ seen'[k] = log'[last(k)] /\ Key(log'[last(k)]) = k
  BY <1>6, <1>7, <1>9
<1>11. QED
  BY <1>4, <1>8, <1>9, <1>10

(* A restart keeps a prefix with everything durable, remembers the trades  *)
(* in it, and nobody is left in the middle of one.                         *)
LEMMA RestartIInv ==
  ASSUME IInv, NEW n \in durable .. Len(log), Restart(n),
         kept' = n, durable' \in durable .. n
  PROVE  IInv'
<1>1. PICK S : log \in Seq(S)
  BY DEF IInv, Shape
<1>2. durable \in Nat /\ Len(log) \in Nat
  BY DEF IInv, Shape
<1>3. /\ log' = SubSeq(log, 1, n) /\ req' = req /\ got' = got /\ op' = op
      /\ seen' = Remembered(log') /\ broken' = FALSE
      /\ pc' = [c \in Call |-> IF pc[c] \in Trades \cup {"waiting"} THEN "lost" ELSE pc[c]]
      /\ opPc' = [o \in Organiser |->
            IF opPc[o] \in {"idle", "done", "refused", "failed"} THEN opPc[o] ELSE "lost"]
      /\ place' = [x \in Call \cup Organiser |-> 0]
  BY DEF Restart
<1>4. /\ log' \in Seq(S) /\ Len(log') = n
      /\ \A i \in 1 .. n : i \in 1 .. Len(log) /\ log'[i] = log[i]
  BY <1>1, <1>2, <1>3
<1>5. \A c \in Call : /\ pc'[c] \in {"idle"} \cup Ended
                      /\ pc'[c] = "lost" \/ pc'[c] = pc[c]
  BY <1>3 DEF IInv, Shape, States, Ended, Trades
<1>6. Shape'
  <2>1. pc' \in [Call -> States]
    BY <1>3, <1>5 DEF States
  <2>2. \E T : log' \in Seq(T)
    BY <1>4
  <2>3. kept' \in 0 .. Len(log') /\ durable' \in 0 .. kept'
    BY <1>2, <1>4
  <2>4. QED
    BY <1>3, <2>1, <2>2, <2>3 DEF IInv, Shape
<1>7. Quoted' /\ Alone' /\ Fresh'
  BY <1>5 DEF Quoted, Alone, Fresh, Trades, Ended
<1>8. OnceOnly'
  <2>1. \A i, j \in 1 .. n : (/\ log'[i].kind = "trade" /\ log'[j].kind = "trade"
                              /\ Key(log'[i]) = Key(log'[j])) => i = j
    BY <1>4 DEF IInv, OnceOnly
  <2>2. QED
    BY <1>4, <2>1 DEF OnceOnly, Key
<1>9. /\ \A i \in 1 .. n : log'[i].kind = "trade" => Key(log'[i]) \in DOMAIN seen'
      /\ \A k \in DOMAIN seen' : \E i \in 1 .. n :
            log'[i].kind = "trade" /\ seen'[k] = log'[i]
  BY RestartSeen
<1>10. Seeded'
  BY <1>4, <1>9 DEF Seeded, IsTrade, Key
<1>11. NoForgedTrade'
  BY <1>3 DEF NoForgedTrade
<1>12. Recorded'
  <2> SUFFICES ASSUME NEW c \in Call, pc'[c] = "answered", got'[c].by = c
               PROVE  \E i \in 1 .. durable' : log'[i] = got'[c]
    BY <1>5 DEF Recorded, Ended
  <2>1. pc[c] = "answered" /\ got[c].by = c
    BY <1>3, <1>5
  <2>2. PICK i \in 1 .. durable : log[i] = got[c]
    BY <2>1 DEF IInv, Recorded
  <2>3. i \in 1 .. durable' /\ i \in 1 .. n
    BY <1>2, <2>2
  <2>4. QED
    BY <1>3, <1>4, <2>2, <2>3
<1>13. NoneYet'
  <2>1. \A c \in Call : pc'[c] \in {"idle", "waiting", "quoted", "checked"} => pc[c] = "idle"
    BY <1>5 DEF Ended
  <2>2. \A c \in Call : pc[c] = "idle" =>
           \A i \in 1 .. n : log'[i].kind = "trade" => log'[i].by # c
    BY <1>4 DEF IInv, NoneYet, IsTrade
  <2>3. QED
    BY <1>4, <1>9, <2>1, <2>2 DEF NoneYet, IsTrade
<1>14. QED
  BY <1>6, <1>7, <1>8, <1>10, <1>11, <1>12, <1>13 DEF IInv

-----------------------------------------------------------------------------
(* Every step keeps the invariant. *)
LEMMA NextIInv == IInv /\ [Next]_vars => IInv'
<1> SUFFICES ASSUME IInv, [Next]_vars PROVE IInv'
  OBVIOUS
<1>1. ASSUME NEW c \in Call, Arrive(c) \/ CallStep(c) PROVE IInv'
  BY <1>1, ArriveIInv, RepeatIInv, QuoteIInv, CheckIInv, CommitIInv, ApplyIInv,
     AnswerIInv DEF CallStep
<1>2. ASSUME NEW o \in Organiser, Ask(o) \/ OpStep(o) PROVE IInv'
  BY <1>2, OrganiserIInv, StoreIInv DEF OpStep
<1>3. CASE PriceMove \/ Break
  BY <1>3, WorldIInv
<1>4. CASE Sync
  BY <1>4, SyncIInv
<1>5. CASE Kill
  <2>1. PICK n \in kept .. Len(log) : Restart(n) /\ kept' = n
    BY <1>5 DEF Kill
  <2>2. n \in durable .. Len(log) /\ durable \in durable .. n
    BY DEF IInv, Shape
  <2>3. durable' = durable
    BY <1>5 DEF Kill
  <2>4. QED
    BY <2>1, <2>2, <2>3, RestartIInv
<1>6. CASE PowerCut
  <2>1. PICK n \in durable .. Len(log) : Restart(n) /\ kept' = n /\ durable' = n
    BY <1>6 DEF PowerCut
  <2>2. n \in durable .. n
    BY DEF IInv, Shape
  <2>3. QED
    BY <2>1, <2>2, RestartIInv
<1>7. CASE UNCHANGED vars
  <2>1. UNCHANGED <<log, kept, durable, seen, broken, pc, req, got, place, opPc, op>>
    BY <1>7 DEF vars, memory, disk, actors, calls, ops
  <2>2. NoForgedTrade'
    BY <2>1 DEF IInv, NoForgedTrade
  <2>3. QED
    BY <2>1, <2>2, QuietIInv DEF IInv, Shape
<1>8. QED
  BY <1>1, <1>2, <1>3, <1>4, <1>5, <1>6, <1>7 DEF Next

(* The invariant holds throughout. *)
LEMMA Inductive == Spec => []IInv
BY InitIInv, NextIInv, PTL DEF Spec

(* One client id makes one trade, through concurrent duplicates, appends   *)
(* that fail and any number of crashes (Executor.Execute, Seed, restore).  *)
THEOREM TradesOnce == Spec => []OnceOnly
<1>1. IInv => OnceOnly
  BY DEF IInv
<1>2. QED
  BY <1>1, Inductive, PTL

(* A trade reported by the call that made it is on disk from then on,      *)
(* through kills and power cuts (Journal.Commit before applyTrade).        *)
THEOREM ReportedTradesStand == Spec => []OwnTradesStand
<1>1. IInv => OwnTradesStand
  BY DEF IInv, Recorded, OwnTradesStand
<1>2. QED
  BY <1>1, Inductive, PTL

-----------------------------------------------------------------------------
(* What is remembered, and what anybody was told, is a trade of the log    *)
(* that the death of the process leaves there.                             *)
Kept(t, k) == \E i \in 1 .. kept : IsTrade(i) /\ log[i] = t /\ Key(log[i]) = k

Told ==
    /\ powerCuts \in Nat
    /\ powerCuts = 0 =>
          /\ \A k \in DOMAIN seen : Kept(seen[k], k)
          /\ \A c \in Call : pc[c] = "answered" => Kept(got[c], Key(req[c]))

(* A record that is kept stays while the log keeps what it has. *)
LEMMA StaysKept ==
  ASSUME NEW t, NEW k, Kept(t, k), kept \in Nat, kept' \in Nat, kept <= kept',
         \A i \in 1 .. kept : log'[i] = log[i]
  PROVE  Kept(t, k)'
<1>1. PICK i \in 1 .. kept : IsTrade(i) /\ log[i] = t /\ Key(log[i]) = k
  BY DEF Kept
<1>2. i \in 1 .. kept' /\ log'[i] = log[i]
  BY <1>1
<1>3. log'[i].kind = "trade" /\ log'[i] = t /\ Key(log'[i]) = k
  BY <1>1, <1>2 DEF IsTrade
<1>4. QED
  BY <1>2, <1>3 DEF Kept, IsTrade, Key

(* What is remembered stays in the log unless the power fails, and so does *)
(* what a call was told that is not told anew.                             *)
LEMMA TellsNothing ==
  ASSUME IInv, Told, powerCuts' = powerCuts, seen' = seen,
         kept' \in Nat, kept <= kept', \A i \in 1 .. kept : log'[i] = log[i],
         \A c \in Call : pc'[c] = "answered" =>
             pc[c] = "answered" /\ got'[c] = got[c] /\ req'[c] = req[c]
  PROVE  Told'
<1>1. kept \in Nat
  BY DEF IInv, Shape
<1>2. ASSUME powerCuts = 0, NEW k \in DOMAIN seen PROVE Kept(seen[k], k)'
  <2>1. Kept(seen[k], k)
    BY <1>2 DEF Told
  <2>2. PICK t : t = seen[k]
    OBVIOUS
  <2>3. Kept(t, k)'
    BY <1>1, <2>1, <2>2, StaysKept
  <2>4. QED
    BY <2>2, <2>3 DEF Kept
<1>3. ASSUME powerCuts = 0, NEW c \in Call, pc'[c] = "answered"
      PROVE  Kept(got[c], Key(req[c]))'
  <2>1. pc[c] = "answered" /\ got'[c] = got[c] /\ req'[c] = req[c]
    BY <1>3
  <2>2. Kept(got[c], Key(req[c]))
    BY <1>3, <2>1 DEF Told
  <2>3. PICK t, k : t = got[c] /\ k = Key(req[c])
    OBVIOUS
  <2>4. Kept(t, k)'
    BY <1>1, <2>2, <2>3, StaysKept
  <2>5. k = Key(req'[c]) /\ t = got'[c]
    BY <2>1, <2>3 DEF Key
  <2>6. QED
    BY <2>4, <2>5 DEF Kept, Key
<1>4. QED
  BY <1>2, <1>3 DEF Told

(* A retry is told what is remembered. *)
LEMMA RepeatTold ==
  ASSUME IInv, Told, NEW c \in Call, Repeat(c)
  PROVE  Told'
<1>1. /\ UNCHANGED <<log, kept, seen, req, powerCuts>>
      /\ Key(req[c]) \in DOMAIN seen
  BY DEF Repeat, memory, disk, world
<1>2. \/ /\ pc' = [pc EXCEPT ![c] = "answered"]
         /\ got' = [got EXCEPT ![c] = seen[Key(req[c])]]
      \/ pc' = [pc EXCEPT ![c] = "refused"] /\ got' = got
  BY DEF Repeat, To
<1>3. /\ pc'[c] = "answered" => got'[c] = seen[Key(req[c])]
      /\ \A d \in Call \ {c} : pc'[d] = pc[d] /\ got'[d] = got[d]
  BY <1>2 DEF IInv, Shape
<1>4. ASSUME powerCuts = 0, NEW d \in Call, pc'[d] = "answered"
      PROVE  Kept(got'[d], Key(req[d]))
  <2>1. CASE d = c
    BY <1>1, <1>3, <1>4, <2>1 DEF Told
  <2>2. CASE d # c
    BY <1>3, <1>4, <2>2 DEF Told
  <2>3. QED
    BY <2>1, <2>2
<1>5. QED
  BY <1>1, <1>4 DEF Told, Kept, IsTrade, Key

(* The call that traded is told of a trade that is on disk. *)
LEMMA AnswerTold ==
  ASSUME IInv, Told, NEW c \in Call, Answer(c)
  PROVE  Told'
<1>1. /\ UNCHANGED <<log, kept, req, got, powerCuts>>
      /\ pc[c] = "applied" /\ pc' = [pc EXCEPT ![c] = "answered"]
      /\ seen' = [k \in DOMAIN seen \cup {Key(got[c])} |->
                      IF k = Key(got[c]) THEN got[c] ELSE seen[k]]
  BY DEF Answer, To, disk, world
<1>2. got[c].kind = "trade" /\ Key(got[c]) = Key(req[c])
  BY <1>1 DEF IInv, Quoted, Trades
<1>3. Kept(got[c], Key(req[c]))
  <2>1. PICK i \in 1 .. durable : log[i] = got[c]
    BY <1>1 DEF IInv, Recorded
  <2>2. i \in 1 .. kept
    BY <2>1 DEF IInv, Shape
  <2>3. QED
    BY <1>2, <2>1, <2>2 DEF Kept, IsTrade
<1>4. ASSUME powerCuts = 0, NEW k \in DOMAIN seen' PROVE Kept(seen'[k], k)
  <2>1. CASE k = Key(got[c])
    BY <1>1, <1>2, <1>3, <2>1
  <2>2. CASE k # Key(got[c])
    <3>1. k \in DOMAIN seen /\ seen'[k] = seen[k]
      BY <1>1, <2>2
    <3>2. QED
      BY <1>4, <3>1 DEF Told
  <2>3. QED
    BY <2>1, <2>2
<1>5. ASSUME powerCuts = 0, NEW d \in Call, pc'[d] = "answered"
      PROVE  Kept(got[d], Key(req[d]))
  <2>1. CASE d = c
    BY <1>3, <2>1
  <2>2. CASE d # c
    <3>1. pc[d] = "answered"
      BY <1>1, <1>5, <2>2 DEF IInv, Shape
    <3>2. QED
      BY <1>5, <3>1 DEF Told
  <2>3. QED
    BY <2>1, <2>2
<1>6. \A t, k : Kept(t, k)' <=> Kept(t, k)
  BY <1>1 DEF Kept, IsTrade, Key
<1>7. powerCuts' = powerCuts /\ \A d \in Call : Key(req'[d]) = Key(req[d]) /\ got'[d] = got[d]
  BY <1>1
<1>8. QED
  BY <1>4, <1>5, <1>6, <1>7 DEF Told, Key

(* The death of the process leaves what was kept, and a restart remembers  *)
(* nothing else.                                                           *)
LEMMA KillTold ==
  ASSUME IInv, Told, Kill
  PROVE  Told'
<1>1. PICK n \in kept .. Len(log) : Restart(n) /\ kept' = n /\ powerCuts' = powerCuts
  BY DEF Kill
<1>2. kept \in Nat /\ n \in Nat /\ n \in durable .. Len(log)
  BY DEF IInv, Shape
<1>3. /\ \A i \in 1 .. n : log'[i] = log[i]
      /\ \A k \in DOMAIN seen' : \E i \in 1 .. n :
            /\ log'[i].kind = "trade" /\ seen'[k] = log'[i]
            /\ Key(log'[i]) = k
  BY <1>1, <1>2, RestartSeen
<1>4. /\ req' = req /\ got' = got
      /\ \A c \in Call : pc'[c] = "answered" => pc[c] = "answered"
  BY <1>1 DEF Restart, Trades
<1>5. \A k \in DOMAIN seen' : Kept(seen[k], k)'
  BY <1>1, <1>3 DEF Kept, IsTrade, Key
<1>6. ASSUME powerCuts = 0, NEW c \in Call, pc'[c] = "answered"
      PROVE  Kept(got[c], Key(req[c]))'
  <2>1. Kept(got[c], Key(req[c]))
    BY <1>4, <1>6 DEF Told
  <2>2. PICK t, k : t = got[c] /\ k = Key(req[c])
    OBVIOUS
  <2>3. \A i \in 1 .. kept : log'[i] = log[i]
    BY <1>2, <1>3
  <2>4. Kept(t, k)'
    BY <1>1, <1>2, <2>1, <2>2, <2>3, StaysKept
  <2>5. QED
    BY <1>4, <2>2, <2>4 DEF Kept, Key
<1>7. QED
  BY <1>1, <1>5, <1>6 DEF Told

(* Every step keeps it. *)
LEMMA NextTold == IInv /\ IInv' /\ Told /\ [Next]_vars => Told'
<1> SUFFICES ASSUME IInv, IInv', Told, [Next]_vars PROVE Told'
  OBVIOUS
<1>1. PICK S : log \in Seq(S)
  BY DEF IInv, Shape
<1>2. kept \in Nat /\ kept <= Len(log) /\ Len(log) \in Nat /\ DOMAIN pc = Call
  BY DEF IInv, Shape
<1>3. kept' \in Nat
  BY DEF IInv, Shape
<1>4. ASSUME UNCHANGED <<kept, seen, powerCuts>>,
             log' = log \/ \E x : log' = Append(log, x),
             \A c \in Call : pc'[c] = "answered" =>
                 pc[c] = "answered" /\ got'[c] = got[c] /\ req'[c] = req[c]
      PROVE  Told'
  <2>1. \A i \in 1 .. kept : log'[i] = log[i]
    <3>1. CASE log' = log
      BY <3>1
    <3>2. ASSUME NEW x, log' = Append(log, x) PROVE \A i \in 1 .. kept : log'[i] = log[i]
      <4>1. log \in Seq(S \cup {x})
        BY <1>1
      <4>2. QED
        BY <1>2, <3>2, <4>1
    <3>3. QED
      BY <1>4, <3>1, <3>2
  <2>2. QED
    BY <1>2, <1>4, <2>1, TellsNothing
<1>5. ASSUME NEW c \in Call, Arrive(c) PROVE Told'
  <2>1. /\ UNCHANGED <<log, kept, seen, powerCuts, got>>
        /\ pc[c] = "idle" /\ pc' = [pc EXCEPT ![c] = "waiting"]
        /\ \E q : req' = [req EXCEPT ![c] = q]
    BY <1>5 DEF Arrive, To, memory, disk, world
  <2>2. \A d \in Call : pc'[d] = "answered" =>
            pc[d] = "answered" /\ got'[d] = got[d] /\ req'[d] = req[d]
    BY <1>2, <2>1 DEF IInv, Shape
  <2>3. QED
    BY <1>4, <2>1, <2>2
<1>6. ASSUME NEW c \in Call, Quote(c) \/ Check(c) \/ Commit(c) \/ Apply(c) \/ GiveUp(c)
      PROVE  Told'
  <2>1. /\ UNCHANGED <<kept, seen, powerCuts, req>>
        /\ pc[c] \in {"waiting", "quoted", "checked", "committing"}
        /\ \E v \in {"quoted", "checked", "refused", "failed", "committing", "applied"} :
              pc' = [pc EXCEPT ![c] = v]
        /\ got' = got \/ \E t : got' = [got EXCEPT ![c] = t]
        /\ log' = log \/ \E x : log' = Append(log, x)
    BY <1>6 DEF Quote, Check, Commit, Apply, GiveUp, To, AppendFor, memory, disk, world
  <2>2. \A d \in Call : pc'[d] = "answered" =>
            pc[d] = "answered" /\ got'[d] = got[d] /\ req'[d] = req[d]
    BY <1>2, <2>1 DEF IInv, Shape
  <2>3. QED
    BY <1>4, <2>1, <2>2
<1>7. ASSUME NEW o \in Organiser, Ask(o) \/ OpStep(o) PROVE Told'
  <2>1. /\ UNCHANGED <<kept, seen, powerCuts, pc, got, req>>
        /\ log' = log \/ \E x : log' = Append(log, x)
    BY <1>7 DEF Ask, OpStep, Measure, AdjustCash, NoteAverage, Revoke, Store, StoreGrant,
       Stored, Grant, AppendFor, memory, disk, calls, world
  <2>2. QED
    BY <1>4, <2>1
<1>8. CASE PriceMove \/ Break \/ UNCHANGED vars
  <2>1. UNCHANGED <<log, kept, seen, powerCuts, pc, got, req>>
    BY <1>8 DEF PriceMove, Break, vars, memory, disk, actors, calls, world
  <2>2. QED
    BY <1>4, <2>1
<1>9. CASE Sync
  <2>1. UNCHANGED <<log, seen, powerCuts, pc, got, req>> /\ kept <= kept'
    BY <1>2, <1>9 DEF Sync, memory, actors, calls, world, IInv, Shape
  <2>2. QED
    BY <1>2, <1>3, <2>1, TellsNothing
<1>10. CASE PowerCut
  BY <1>10 DEF PowerCut, Told
<1>11. QED
  BY <1>5, <1>6, <1>7, <1>8, <1>9, <1>10, RepeatTold, AnswerTold, KillTold
     DEF Next, CallStep

(* Everybody who asked under one client id was told of the same trade,     *)
(* through retries answered from memory and any number of kills; only a    *)
(* power cut may take away what a retry was told (Executor.Execute, Seed). *)
THEOREM OneAnswer == Spec => []RetriesAgree
<1>1. Init => Told
  BY DEF Init, Told
<1>2. IInv /\ Told => RetriesAgree
  <2> SUFFICES ASSUME IInv, Told, powerCuts = 0, NEW c \in Call, NEW d \in Call,
                      pc[c] = "answered", pc[d] = "answered", Key(req[c]) = Key(req[d])
               PROVE  got[c] = got[d]
    BY DEF RetriesAgree
  <2>1. PICK i \in 1 .. kept : IsTrade(i) /\ log[i] = got[c] /\ Key(log[i]) = Key(req[c])
    BY DEF Told, Kept
  <2>2. PICK j \in 1 .. kept : IsTrade(j) /\ log[j] = got[d] /\ Key(log[j]) = Key(req[d])
    BY DEF Told, Kept
  <2>3. i \in 1 .. Len(log) /\ j \in 1 .. Len(log)
    BY DEF IInv, Shape
  <2>4. QED
    BY <2>1, <2>2, <2>3 DEF IInv, OnceOnly, IsTrade
<1>3. QED
  BY <1>1, <1>2, NextTold, Inductive, PTL DEF Spec

-----------------------------------------------------------------------------
(* The books.  A cash correction only takes, and nobody sets an amount of  *)
(* cash: what is given can be spent before its record is stored, and       *)
(* cannot be taken back then.                                              *)
NoCredit == \A w \in Operation : w.kind # "set" /\ (w.kind = "cash" => w.delta <= 0)

(* What the log may hold. *)
TradeRecord ==
    [kind : {"trade"}, acct : Account, cid : {q.cid : q \in Request}, sym : Symbol,
     buy : BOOLEAN, qty : Nat \ {0}, price : Nat, by : Call]
CashRecord == [kind : {"cash"}, acct : Account, delta : Int]
GiveRecord == [kind : {"give"}, acct : Account, sym : Symbol, qty : Nat \ {0}, price : Nat]
TakeRecord == [kind : {"take"}, acct : Account, sym : Symbol, qty : Nat \ {0}]
Entry == TradeRecord \cup CashRecord \cup GiveRecord \cup TakeRecord

Holding == [qty : Nat, cost : Nat]
Wallet  == [cash : Int, pos : UNION {[D -> Holding] : D \in SUBSET Symbol}]
Opening == [a \in Account |-> Opened(StartCash)]

(* What is counted of an account: its cash, and its shares of each company. *)
Counted == {<<"cash">>} \cup ({"qty"} \X Symbol)

Held(a, m) == IF m[1] = "cash" THEN a.cash ELSE Position(a, m[2]).qty

(* What a record adds to it. *)
Moves(r, m) ==
    IF m[1] = "cash"
    THEN IF r.kind = "trade" THEN IF r.buy THEN -(r.price * r.qty) ELSE r.price * r.qty
         ELSE IF r.kind = "cash" THEN r.delta ELSE 0
    ELSE IF r.kind = "cash" \/ r.sym # m[2] THEN 0
         ELSE IF r.kind = "give" \/ (r.kind = "trade" /\ r.buy) THEN r.qty ELSE -r.qty

(* It leaves nothing below zero. *)
Lawful(a, r) == \A m \in Counted : Held(a, m) + Moves(r, m) >= 0

-----------------------------------------------------------------------------
(* A part of a cost is not more than the cost. *)
LEMMA PartOfCost ==
  ASSUME NEW c \in Nat, NEW n \in Nat, NEW q \in Nat, n < q
  PROVE  c - (c * n) \div q \in Nat
<1>1. c * n \in Nat /\ c * q \in Nat /\ c * n <= c * q
  OBVIOUS
<1>2. PICK d \in Int : d = (c * n) \div q
  OBVIOUS
<1>3. q * d <= c * n /\ c * n < q * d + q
  BY <1>1, <1>2
<1>4. d <= c
  <2> SUFFICES ASSUME d >= c + 1 PROVE FALSE
    BY <1>2
  <2>1. q * d >= q * (c + 1)
    BY <1>2
  <2>2. q * (c + 1) = c * q + q
    OBVIOUS
  <2>3. QED
    BY <1>1, <1>3, <2>1, <2>2
<1>5. QED
  BY <1>2, <1>4

(* A position is some shares at some cost. *)
LEMMA PositionType ==
  ASSUME NEW a \in Wallet, NEW s \in Symbol
  PROVE  /\ Position(a, s) \in Holding
         /\ a.cash \in Int /\ DOMAIN a.pos \subseteq Symbol
         /\ \A x \in DOMAIN a.pos : a.pos[x] \in Holding
<1>1. PICK D \in SUBSET Symbol : a.pos \in [D -> Holding]
  BY DEF Wallet
<1>2. a.cash \in Int
  BY DEF Wallet
<1>3. [qty |-> 0, cost |-> 0] \in Holding
  BY DEF Holding
<1>4. QED
  BY <1>1, <1>2, <1>3 DEF Position

(* A position that is replaced. *)
LEMMA Placed ==
  ASSUME NEW a \in Wallet, NEW s \in Symbol, NEW p \in Holding
  PROVE  /\ WithPosition(a, s, p) \in Wallet
         /\ WithPosition(a, s, p).cash = a.cash
         /\ \A x \in Symbol :
               Position(WithPosition(a, s, p), x) = IF x = s THEN p ELSE Position(a, x)
<1>1. PICK D \in SUBSET Symbol : a.pos \in [D -> Holding]
  BY DEF Wallet
<1>2. PICK f : f = [x \in DOMAIN a.pos \cup {s} |-> IF x = s THEN p ELSE a.pos[x]]
  OBVIOUS
<1>3. /\ f \in [D \cup {s} -> Holding]
      /\ \A x \in D \cup {s} : f[x] = IF x = s THEN p ELSE a.pos[x]
  BY <1>1, <1>2
<1>4. PICK w : w = WithPosition(a, s, p)
  OBVIOUS
<1>5. w = [a EXCEPT !.pos = f]
  BY <1>2, <1>4 DEF WithPosition
<1>6. w \in Wallet /\ w.cash = a.cash /\ w.pos = f
  <2>1. D \cup {s} \in SUBSET Symbol
    OBVIOUS
  <2>2. f \in UNION {[E -> Holding] : E \in SUBSET Symbol}
    BY <1>3, <2>1
  <2>3. QED
    BY <1>5, <2>2 DEF Wallet
<1>7. ASSUME NEW x \in Symbol
      PROVE  Position(w, x) = IF x = s THEN p ELSE Position(a, x)
  BY <1>1, <1>3, <1>6 DEF Position
<1>8. QED
  BY <1>4, <1>6, <1>7

(* Cash that comes or goes. *)
LEMMA CashMoves ==
  ASSUME NEW a \in Wallet, NEW d \in Int
  PROVE  /\ AfterCash(a, d) \in Wallet
         /\ AfterCash(a, d).cash = a.cash + d
         /\ \A x \in Symbol : Position(AfterCash(a, d), x) = Position(a, x)
<1>1. PICK w : w = [a EXCEPT !.cash = @ + d]
  OBVIOUS
<1>2. w \in Wallet /\ w.cash = a.cash + d /\ w.pos = a.pos
  BY <1>1 DEF Wallet
<1>3. \A x \in Symbol : Position(w, x) = Position(a, x)
  BY <1>2 DEF Position
<1>4. AfterCash(a, d) = w
  BY <1>1 DEF AfterCash
<1>5. QED
  BY <1>2, <1>3, <1>4

(* Shares that come at a price. *)
LEMMA SharesCome ==
  ASSUME NEW a \in Wallet, NEW s \in Symbol, NEW n \in Nat, NEW c \in Nat
  PROVE  /\ AfterGrant(a, s, n, c) \in Wallet
         /\ AfterGrant(a, s, n, c).cash = a.cash
         /\ \A x \in Symbol : Position(AfterGrant(a, s, n, c), x).qty
                                = Position(a, x).qty + (IF x = s THEN n ELSE 0)
<1>1. PICK p : p = Position(a, s) /\ p \in Holding
  BY PositionType
<1>2. PICK h : h = With(p, n, c)
  OBVIOUS
<1>3. h \in Holding /\ h.qty = p.qty + n
  <2>1. p.qty \in Nat /\ p.cost \in Nat /\ c * n \in Nat
    BY <1>1 DEF Holding
  <2>2. QED
    BY <1>2, <2>1 DEF With, Holding
<1>4. AfterGrant(a, s, n, c) = WithPosition(a, s, h)
  BY <1>1, <1>2 DEF AfterGrant
<1>5. \A x \in Symbol : Position(a, x).qty \in Nat
  BY PositionType DEF Holding
<1>6. QED
  BY <1>1, <1>3, <1>4, <1>5, Placed

(* Shares that go, as many as there are at most. *)
LEMMA SharesGo ==
  ASSUME NEW a \in Wallet, NEW s \in Symbol, NEW n \in Nat \ {0}
  PROVE  /\ AfterRevoke(a, s, n) \in Wallet
         /\ AfterRevoke(a, s, n).cash = a.cash
         /\ Position(a, s).qty >= n =>
               \A x \in Symbol : Position(AfterRevoke(a, s, n), x).qty
                                   = Position(a, x).qty - (IF x = s THEN n ELSE 0)
<1>1. PICK p : p = Position(a, s) /\ p \in Holding
  BY PositionType
<1>2. PICK h : h = Without(p, n)
  OBVIOUS
<1>3. h \in Holding /\ (p.qty >= n => h.qty = p.qty - n)
  <2>1. p.qty \in Nat /\ p.cost \in Nat
    BY <1>1 DEF Holding
  <2>2. CASE p.qty - n <= 0
    BY <1>2, <2>1, <2>2 DEF Without, Holding
  <2>3. CASE n < p.qty
    <3>1. p.cost - (p.cost * n) \div p.qty \in Nat
      BY <2>1, <2>3, PartOfCost
    <3>2. h = [qty |-> p.qty - n, cost |-> p.cost - (p.cost * n) \div p.qty]
      BY <1>2, <2>1, <2>3 DEF Without
    <3>3. p.qty - n \in Nat
      BY <2>1, <2>3
    <3>4. QED
      BY <3>1, <3>2, <3>3 DEF Holding
  <2>4. QED
    BY <2>1, <2>2, <2>3
<1>4. AfterRevoke(a, s, n) = WithPosition(a, s, h)
  BY <1>1, <1>2 DEF AfterRevoke
<1>5. \A x \in Symbol : Position(a, x).qty \in Nat
  BY PositionType DEF Holding
<1>6. QED
  BY <1>1, <1>3, <1>4, <1>5, Placed

(* Of what there is, and what a record adds. *)
LEMMA Counts ==
  /\ \A a \in Wallet, m \in Counted : Held(a, m) \in Int
  /\ \A r \in Entry, m \in Counted : Moves(r, m) \in Int
  /\ <<"cash">> \in Counted /\ \A s \in Symbol : <<"qty", s>> \in Counted
  /\ \A m \in Counted : m = <<"cash">> \/ \E s \in Symbol : m = <<"qty", s>>
<1>1. ASSUME NEW a \in Wallet, NEW m \in Counted PROVE Held(a, m) \in Int
  <2>1. CASE m = <<"cash">>
    <3>1. Held(a, m) = a.cash
      BY <2>1 DEF Held
    <3>2. QED
      BY <3>1, PositionType DEF Wallet
  <2>2. ASSUME NEW s \in Symbol, m = <<"qty", s>> PROVE Held(a, m) \in Int
    <3>1. Held(a, m) = Position(a, s).qty
      BY <2>2 DEF Held
    <3>2. Position(a, s) \in Holding
      BY PositionType
    <3>3. QED
      BY <3>1, <3>2 DEF Holding
  <2>3. QED
    BY <2>1, <2>2 DEF Counted
<1>2. ASSUME NEW r \in Entry, NEW m \in Counted PROVE Moves(r, m) \in Int
  <2>1. CASE r \in TradeRecord
    <3>1. r.price * r.qty \in Int /\ r.qty \in Int
      BY <2>1 DEF TradeRecord
    <3>2. QED
      BY <2>1, <3>1 DEF Moves, TradeRecord
  <2>2. CASE r \in CashRecord \cup GiveRecord \cup TakeRecord
    BY <2>2 DEF Moves, CashRecord, GiveRecord, TakeRecord
  <2>3. QED
    BY <2>1, <2>2 DEF Entry
<1>3. QED
  BY <1>1, <1>2 DEF Counted

(* What each kind of record adds. *)
LEMMA Adds ==
  ASSUME NEW r \in Entry
  PROVE  /\ r \in TradeRecord =>
               /\ Moves(r, <<"cash">>) = IF r.buy THEN -(r.price * r.qty) ELSE r.price * r.qty
               /\ \A s \in Symbol : Moves(r, <<"qty", s>>)
                     = IF r.sym # s THEN 0 ELSE IF r.buy THEN r.qty ELSE -r.qty
         /\ r \in CashRecord => /\ Moves(r, <<"cash">>) = r.delta
                                /\ \A s \in Symbol : Moves(r, <<"qty", s>>) = 0
         /\ r \in GiveRecord => /\ Moves(r, <<"cash">>) = 0
                                /\ \A s \in Symbol : Moves(r, <<"qty", s>>)
                                      = IF r.sym # s THEN 0 ELSE r.qty
         /\ r \in TakeRecord => /\ Moves(r, <<"cash">>) = 0
                                /\ \A s \in Symbol : Moves(r, <<"qty", s>>)
                                      = IF r.sym # s THEN 0 ELSE -r.qty
<1>1. /\ r \in TradeRecord => r.kind = "trade"
      /\ r \in CashRecord => r.kind = "cash"
      /\ r \in GiveRecord => r.kind = "give"
      /\ r \in TakeRecord => r.kind = "take"
  BY DEF TradeRecord, CashRecord, GiveRecord, TakeRecord
<1>2. /\ <<"cash">>[1] = "cash"
      /\ \A s \in Symbol : <<"qty", s>>[1] = "qty" /\ <<"qty", s>>[2] = s
  OBVIOUS
<1>3. QED
  BY <1>1, <1>2 DEF Moves

(* What is counted, one by one. *)
LEMMA HeldIs ==
  ASSUME NEW a \in Wallet
  PROVE  /\ a.cash \in Int /\ Held(a, <<"cash">>) = a.cash
         /\ \A s \in Symbol : /\ Position(a, s).qty \in Nat
                              /\ Held(a, <<"qty", s>>) = Position(a, s).qty
<1>1. a.cash \in Int
  BY DEF Wallet
<1>2. ASSUME NEW s \in Symbol PROVE Position(a, s).qty \in Nat
  <2>1. Position(a, s) \in Holding
    BY PositionType
  <2>2. QED
    BY <2>1 DEF Holding
<1>3. QED
  BY <1>1, <1>2 DEF Held

(* What holds of cash and of each company's shares holds of what is        *)
(* counted.                                                                *)
LEMMA CountsMove ==
  ASSUME NEW a \in Wallet, NEW w \in Wallet, NEW r \in Entry,
         w.cash = a.cash + Moves(r, <<"cash">>),
         \A s \in Symbol : Position(w, s).qty = Position(a, s).qty + Moves(r, <<"qty", s>>)
  PROVE  \A m \in Counted : Held(w, m) = Held(a, m) + Moves(r, m)
<1>1. /\ Held(a, <<"cash">>) = a.cash
      /\ \A s \in Symbol : Held(a, <<"qty", s>>) = Position(a, s).qty
  BY HeldIs
<1>2. /\ Held(w, <<"cash">>) = w.cash
      /\ \A s \in Symbol : Held(w, <<"qty", s>>) = Position(w, s).qty
  BY HeldIs
<1>3. QED
  BY <1>1, <1>2, Counts

(* A record of the log leaves an account an account; a lawful one moves    *)
(* what it says.                                                           *)
LEMMA AfterMoves ==
  ASSUME NEW a \in Wallet, NEW r \in Entry
  PROVE  /\ After(a, r) \in Wallet
         /\ Lawful(a, r) =>
               \A m \in Counted : Held(After(a, r), m) = Held(a, m) + Moves(r, m)
<1>1. PICK w : w = After(a, r)
  OBVIOUS
<1>2. /\ a.cash \in Int
      /\ \A s \in Symbol : Position(a, s).qty \in Nat
  BY HeldIs
<1>3. ASSUME NEW s \in Symbol, Lawful(a, r) PROVE Position(a, s).qty + Moves(r, <<"qty", s>>) >= 0
  <2>1. <<"qty", s>> \in Counted /\ Held(a, <<"qty", s>>) = Position(a, s).qty
    BY Counts, HeldIs
  <2>2. QED
    BY <1>3, <2>1 DEF Lawful
<1>4. CASE r \in CashRecord
  <2>1. r.kind = "cash" /\ r.delta \in Int
    BY <1>4 DEF CashRecord
  <2>2. w = AfterCash(a, r.delta)
    BY <1>1, <2>1 DEF After
  <2>3. /\ w \in Wallet /\ w.cash = a.cash + r.delta
        /\ \A s \in Symbol : Position(w, s) = Position(a, s)
    BY <2>1, <2>2, CashMoves
  <2>4. /\ Moves(r, <<"cash">>) = r.delta
        /\ \A s \in Symbol : Moves(r, <<"qty", s>>) = 0
    BY <1>4, Adds
  <2>5. /\ w \in Wallet /\ w.cash = a.cash + Moves(r, <<"cash">>)
        /\ \A s \in Symbol :
              Position(w, s).qty = Position(a, s).qty + Moves(r, <<"qty", s>>)
    BY <1>2, <2>3, <2>4
  <2>6. QED
    BY <1>1, <2>5, CountsMove
<1>5. CASE r \in GiveRecord
  <2>1. r.kind = "give" /\ r.sym \in Symbol /\ r.qty \in Nat /\ r.price \in Nat
    BY <1>5 DEF GiveRecord
  <2>2. w = AfterGrant(a, r.sym, r.qty, r.price)
    BY <1>1, <2>1 DEF After
  <2>3. /\ w \in Wallet /\ w.cash = a.cash
        /\ \A s \in Symbol : Position(w, s).qty
              = Position(a, s).qty + (IF s = r.sym THEN r.qty ELSE 0)
    <3>1. PICK x \in Symbol, n \in Nat, c \in Nat : x = r.sym /\ n = r.qty /\ c = r.price
      BY <2>1
    <3>2. /\ AfterGrant(a, x, n, c) \in Wallet /\ AfterGrant(a, x, n, c).cash = a.cash
          /\ \A s \in Symbol : Position(AfterGrant(a, x, n, c), s).qty
                = Position(a, s).qty + (IF s = x THEN n ELSE 0)
      BY SharesCome
    <3>3. QED
      BY <2>2, <3>1, <3>2
  <2>4. /\ Moves(r, <<"cash">>) = 0
        /\ \A s \in Symbol : Moves(r, <<"qty", s>>) = IF r.sym # s THEN 0 ELSE r.qty
    BY <1>5, Adds
  <2>5. /\ w \in Wallet /\ w.cash = a.cash + Moves(r, <<"cash">>)
        /\ \A s \in Symbol :
              Position(w, s).qty = Position(a, s).qty + Moves(r, <<"qty", s>>)
    BY <1>2, <2>3, <2>4
  <2>6. QED
    BY <1>1, <2>5, CountsMove
<1>6. CASE r \in TakeRecord
  <2>1. r.kind = "take" /\ r.sym \in Symbol /\ r.qty \in Nat \ {0}
    BY <1>6 DEF TakeRecord
  <2>2. w = AfterRevoke(a, r.sym, r.qty)
    BY <1>1, <2>1 DEF After
  <2>3. /\ w \in Wallet /\ w.cash = a.cash
        /\ Position(a, r.sym).qty >= r.qty =>
              \A s \in Symbol : Position(w, s).qty
                 = Position(a, s).qty - (IF s = r.sym THEN r.qty ELSE 0)
    BY <2>1, <2>2, SharesGo
  <2>4. /\ Moves(r, <<"cash">>) = 0
        /\ \A s \in Symbol : Moves(r, <<"qty", s>>) = IF r.sym # s THEN 0 ELSE -r.qty
    BY <1>6, Adds
  <2>5. ASSUME Lawful(a, r)
        PROVE  /\ w.cash = a.cash + Moves(r, <<"cash">>)
               /\ \A s \in Symbol :
                     Position(w, s).qty = Position(a, s).qty + Moves(r, <<"qty", s>>)
    <3>1. Moves(r, <<"qty", r.sym>>) = -r.qty /\ Position(a, r.sym).qty \in Nat
      BY <1>2, <2>1, <2>4
    <3>2. Position(a, r.sym).qty + Moves(r, <<"qty", r.sym>>) >= 0
      BY <1>3, <2>1, <2>5
    <3>3. Position(a, r.sym).qty >= r.qty
      BY <2>1, <3>1, <3>2
    <3>4. QED
      BY <1>2, <2>1, <2>3, <2>4, <3>3
  <2>6. QED
    BY <1>1, <2>3, <2>5, CountsMove
<1>7. CASE r \in TradeRecord
  <2>1. /\ r.kind = "trade" /\ r.sym \in Symbol /\ r.qty \in Nat \ {0} /\ r.price \in Nat
        /\ r.buy \in BOOLEAN
    BY <1>7 DEF TradeRecord
  <2>2. PICK d \in Nat : d = r.price * r.qty
    BY <2>1
  <2>3. w = AfterTrade(a, r)
    BY <1>1, <2>1 DEF After
  <2>4. CASE r.buy
    <3>1. PICK p : p = AfterCash(a, -d)
      OBVIOUS
    <3>2. /\ p \in Wallet /\ p.cash = a.cash - d
          /\ \A s \in Symbol : Position(p, s) = Position(a, s)
      <4>1. PICK e \in Int : e = -d
        OBVIOUS
      <4>2. /\ p \in Wallet /\ p.cash = a.cash + e
            /\ \A s \in Symbol : Position(p, s) = Position(a, s)
        BY <3>1, <4>1, CashMoves
      <4>3. QED
        BY <1>2, <4>1, <4>2
    <3>3. w = AfterGrant(p, r.sym, r.qty, r.price)
      BY <2>2, <2>3, <2>4, <3>1 DEF AfterTrade
    <3>4. /\ w \in Wallet /\ w.cash = p.cash
          /\ \A s \in Symbol : Position(w, s).qty
                = Position(p, s).qty + (IF s = r.sym THEN r.qty ELSE 0)
      <4>1. PICK x \in Symbol, n \in Nat, c \in Nat : x = r.sym /\ n = r.qty /\ c = r.price
        BY <2>1
      <4>2. /\ AfterGrant(p, x, n, c) \in Wallet /\ AfterGrant(p, x, n, c).cash = p.cash
            /\ \A s \in Symbol : Position(AfterGrant(p, x, n, c), s).qty
                  = Position(p, s).qty + (IF s = x THEN n ELSE 0)
        BY <3>2, SharesCome
      <4>3. QED
        BY <3>3, <4>1, <4>2
    <3>5. /\ Moves(r, <<"cash">>) = -d
          /\ \A s \in Symbol : Moves(r, <<"qty", s>>) = IF r.sym # s THEN 0 ELSE r.qty
      BY <1>7, <2>2, <2>4, Adds
    <3>6. /\ w \in Wallet /\ w.cash = a.cash + Moves(r, <<"cash">>)
          /\ \A s \in Symbol :
                Position(w, s).qty = Position(a, s).qty + Moves(r, <<"qty", s>>)
      BY <1>2, <3>2, <3>4, <3>5
    <3>7. QED
      BY <1>1, <3>6, CountsMove
  <2>5. CASE ~r.buy
    <3>1. PICK p : p = AfterCash(a, d)
      OBVIOUS
    <3>2. /\ p \in Wallet /\ p.cash = a.cash + d
          /\ \A s \in Symbol : Position(p, s) = Position(a, s)
      <4>1. d \in Int
        OBVIOUS
      <4>2. QED
        BY <3>1, <4>1, CashMoves
    <3>3. w = AfterRevoke(p, r.sym, r.qty)
      BY <2>2, <2>3, <2>5, <3>1 DEF AfterTrade
    <3>4. /\ w \in Wallet /\ w.cash = p.cash
          /\ Position(p, r.sym).qty >= r.qty =>
             \A s \in Symbol : Position(w, s).qty
                = Position(p, s).qty - (IF s = r.sym THEN r.qty ELSE 0)
      BY <2>1, <3>2, <3>3, SharesGo
    <3>5. /\ Moves(r, <<"cash">>) = d
          /\ \A s \in Symbol : Moves(r, <<"qty", s>>) = IF r.sym # s THEN 0 ELSE -r.qty
      BY <1>7, <2>2, <2>5, Adds
    <3>6. ASSUME Lawful(a, r)
          PROVE  /\ w.cash = a.cash + Moves(r, <<"cash">>)
                 /\ \A s \in Symbol :
                       Position(w, s).qty = Position(a, s).qty + Moves(r, <<"qty", s>>)
      <4>1. Moves(r, <<"qty", r.sym>>) = -r.qty /\ Position(a, r.sym).qty \in Nat
        BY <1>2, <2>1, <3>5
      <4>2. Position(a, r.sym).qty + Moves(r, <<"qty", r.sym>>) >= 0
        BY <1>3, <2>1, <3>6
      <4>3. Position(p, r.sym).qty >= r.qty
        BY <2>1, <3>2, <4>1, <4>2
      <4>4. QED
        BY <1>2, <2>1, <3>2, <3>4, <3>5, <4>3
    <3>7. QED
      BY <1>1, <3>4, <3>6, CountsMove
  <2>6. QED
    BY <2>4, <2>5
<1>8. QED
  BY <1>4, <1>5, <1>6, <1>7 DEF Entry

(* Lawful is what the ledger checks. *)
LEMMA LawfulMeans ==
  ASSUME NEW a \in Wallet, a.cash >= 0, NEW r \in Entry
  PROVE  /\ r \in TradeRecord => (Lawful(a, r) <=> TradeAllowed(a, r))
         /\ r \in CashRecord => (Lawful(a, r) <=> Covers(a, r.delta))
         /\ r \in GiveRecord => Lawful(a, r)
         /\ r \in TakeRecord => (Lawful(a, r) <=> Holds(a, r.sym, r.qty))
<1>1. /\ a.cash \in Nat
      /\ \A s \in Symbol : Position(a, s).qty \in Nat
  <2>1. a.cash \in Int /\ \A s \in Symbol : Position(a, s).qty \in Nat
    BY HeldIs
  <2>2. QED
    BY <2>1
<1>2. Lawful(a, r) <=> /\ a.cash + Moves(r, <<"cash">>) >= 0
                       /\ \A s \in Symbol : Position(a, s).qty + Moves(r, <<"qty", s>>) >= 0
  BY HeldIs, Counts DEF Lawful
<1>3. ASSUME NEW s \in Symbol, NEW n \in Nat \ {0}
      PROVE  Holds(a, s, n) <=> Position(a, s).qty >= n
  <2>1. CASE s \in DOMAIN a.pos
    BY <2>1 DEF Holds, Position
  <2>2. CASE s \notin DOMAIN a.pos
    BY <2>2 DEF Holds, Position
  <2>3. QED
    BY <2>1, <2>2
<1>4. ASSUME r \in TradeRecord PROVE Lawful(a, r) <=> TradeAllowed(a, r)
  <2>1. /\ r.sym \in Symbol /\ r.qty \in Nat \ {0} /\ r.price \in Nat /\ r.buy \in BOOLEAN
    BY <1>4 DEF TradeRecord
  <2>2. PICK d \in Nat : d = r.price * r.qty
    BY <2>1
  <2>3. /\ Moves(r, <<"cash">>) = IF r.buy THEN -d ELSE d
        /\ \A s \in Symbol : Moves(r, <<"qty", s>>)
              = IF r.sym # s THEN 0 ELSE IF r.buy THEN r.qty ELSE -r.qty
    BY <1>4, <2>2, Adds
  <2>4. Holds(a, r.sym, r.qty) <=> Position(a, r.sym).qty >= r.qty
    BY <1>3, <2>1
  <2>5. CASE r.buy
    <3>1. ASSUME NEW s \in Symbol PROVE Position(a, s).qty + Moves(r, <<"qty", s>>) >= 0
      <4>1. Position(a, s).qty \in Nat /\ Moves(r, <<"qty", s>>) \in {0, r.qty}
        BY <1>1, <2>3, <2>5
      <4>2. QED
        BY <2>1, <4>1
    <3>2. TradeAllowed(a, r) <=> a.cash >= d
      BY <2>2, <2>5 DEF TradeAllowed, Affords
    <3>3. QED
      BY <1>1, <1>2, <2>3, <2>5, <3>1, <3>2
  <2>6. CASE ~r.buy
    <3>1. a.cash + Moves(r, <<"cash">>) >= 0
      BY <1>1, <2>3, <2>6
    <3>2. TradeAllowed(a, r) <=> Position(a, r.sym).qty >= r.qty
      BY <2>4, <2>6 DEF TradeAllowed
    <3>3. (\A s \in Symbol : Position(a, s).qty + Moves(r, <<"qty", s>>) >= 0)
             <=> Position(a, r.sym).qty >= r.qty
      <4>1. Moves(r, <<"qty", r.sym>>) = -r.qty /\ Position(a, r.sym).qty \in Nat
        BY <1>1, <2>1, <2>3, <2>6
      <4>2. \A s \in Symbol : s # r.sym => Position(a, s).qty + Moves(r, <<"qty", s>>) >= 0
        BY <1>1, <2>3
      <4>3. Position(a, r.sym).qty + Moves(r, <<"qty", r.sym>>) >= 0
               <=> Position(a, r.sym).qty >= r.qty
        BY <2>1, <4>1
      <4>4. QED
        BY <2>1, <4>2, <4>3
    <3>4. QED
      BY <1>2, <3>1, <3>2, <3>3
  <2>7. QED
    BY <2>5, <2>6
<1>5. ASSUME r \in CashRecord PROVE Lawful(a, r) <=> Covers(a, r.delta)
  <2>1. /\ Moves(r, <<"cash">>) = r.delta
        /\ \A s \in Symbol : Moves(r, <<"qty", s>>) = 0
    BY <1>5, Adds
  <2>2. ASSUME NEW s \in Symbol PROVE Position(a, s).qty + Moves(r, <<"qty", s>>) >= 0
    <3>1. Position(a, s).qty \in Nat /\ Moves(r, <<"qty", s>>) = 0
      BY <1>1, <2>1
    <3>2. QED
      BY <3>1
  <2>3. QED
    BY <1>2, <2>1, <2>2 DEF Covers
<1>6. ASSUME r \in GiveRecord PROVE Lawful(a, r)
  <2>1. /\ Moves(r, <<"cash">>) = 0
        /\ \A s \in Symbol : Moves(r, <<"qty", s>>) = IF r.sym # s THEN 0 ELSE r.qty
    BY <1>6, Adds
  <2>2. r.qty \in Nat
    BY <1>6 DEF GiveRecord
  <2>3. a.cash + Moves(r, <<"cash">>) >= 0
    BY <1>1, <2>1
  <2>4. ASSUME NEW s \in Symbol PROVE Position(a, s).qty + Moves(r, <<"qty", s>>) >= 0
    <3>1. Position(a, s).qty \in Nat /\ Moves(r, <<"qty", s>>) \in {0, r.qty}
      BY <1>1, <2>1
    <3>2. QED
      BY <2>2, <3>1
  <2>5. QED
    BY <1>2, <2>3, <2>4
<1>7. ASSUME r \in TakeRecord PROVE Lawful(a, r) <=> Holds(a, r.sym, r.qty)
  <2>1. /\ Moves(r, <<"cash">>) = 0
        /\ \A s \in Symbol : Moves(r, <<"qty", s>>) = IF r.sym # s THEN 0 ELSE -r.qty
    BY <1>7, Adds
  <2>2. r.sym \in Symbol /\ r.qty \in Nat \ {0}
    BY <1>7 DEF TakeRecord
  <2>3. a.cash + Moves(r, <<"cash">>) >= 0
    BY <1>1, <2>1
  <2>4. \A s \in Symbol : s # r.sym => Position(a, s).qty + Moves(r, <<"qty", s>>) >= 0
    BY <1>1, <2>1
  <2>5. Position(a, r.sym).qty + Moves(r, <<"qty", r.sym>>) >= 0
           <=> Position(a, r.sym).qty >= r.qty
    <3>1. Moves(r, <<"qty", r.sym>>) = -r.qty /\ Position(a, r.sym).qty \in Nat
      BY <1>1, <2>1, <2>2
    <3>2. QED
      BY <2>2, <3>1
  <2>6. Holds(a, r.sym, r.qty) <=> Position(a, r.sym).qty >= r.qty
    BY <1>3, <2>2
  <2>7. QED
    BY <1>2, <2>2, <2>3, <2>4, <2>5, <2>6
<1>8. QED
  BY <1>4, <1>5, <1>6, <1>7

-----------------------------------------------------------------------------
(* Replaying the log. *)
Books == [Account -> Wallet]

Entered(b, r) == [b EXCEPT ![r.acct] = After(@, r)]

BookStep == [p \in Books \X Entry |-> Entered(p[1], p[2])]

(* A record enters its account. *)
LEMMA EntryEnters ==
  ASSUME NEW b \in Books, NEW r \in Entry
  PROVE  /\ r.acct \in Account
         /\ Entered(b, r) \in Books
         /\ \A a \in Account : Entered(b, r)[a] = IF a = r.acct THEN After(b[a], r) ELSE b[a]
<1>1. r.acct \in Account
  BY DEF Entry, TradeRecord, CashRecord, GiveRecord, TakeRecord
<1>2. b[r.acct] \in Wallet
  BY <1>1 DEF Books
<1>3. After(b[r.acct], r) \in Wallet
  BY <1>2, AfterMoves
<1>4. QED
  BY <1>1, <1>3 DEF Books, Entered

(* The fold of restore, as the community modules define it, and as one     *)
(* over BookStep.                                                          *)
Recurs(b, l, h) ==
    h = [d \in SUBSET (DOMAIN l) |->
            IF d = {} THEN b ELSE Entered(h[d \ {Max(d)}], l[Max(d)])]

(* There is such a function, and on the whole log it is the fold. *)
LEMMA RecursFolds ==
  ASSUME NEW b \in Books, NEW l \in Seq(Entry)
  PROVE  /\ \E h : Recurs(b, l, h)
         /\ \A h : Recurs(b, l, h) => h[DOMAIN l] = Folded(BookStep, b, l)
<1>1. BookStep \in [Books \X Entry -> Books]
  BY EntryEnters DEF BookStep
<1>2. \A c \in Books, r \in Entry : BookStep[<<c, r>>] = Entered(c, r)
  BY DEF BookStep
<1>3. PICK f : f \in [SUBSET (DOMAIN l) -> Books] /\ Steps(BookStep, b, l, f)
  BY <1>1, StepsExist
<1>4. Len(l) \in Nat /\ DOMAIN l = 1 .. Len(l)
      /\ \A i \in 1 .. Len(l) : l[i] \in Entry
  OBVIOUS
<1>5. Recurs(b, l, f)
  <2>1. ASSUME NEW d \in SUBSET (DOMAIN l), d # {}
        PROVE  BookStep[<<f[d \ {Max(d)}], l[Max(d)]>>]
                  = Entered(f[d \ {Max(d)}], l[Max(d)])
    <3>1. Max(d) \in d
      <4>1. PICK m \in d : \A y \in d : m >= y
        BY <1>4, <2>1, Greatest
      <4>2. QED
        BY <4>1 DEF Max
    <3>2. l[Max(d)] \in Entry /\ f[d \ {Max(d)}] \in Books
      BY <1>3, <1>4, <3>1
    <3>3. QED
      BY <1>2, <3>2
  <2>2. \A d \in SUBSET (DOMAIN l) :
           (IF d = {} THEN b ELSE BookStep[<<f[d \ {Max(d)}], l[Max(d)]>>])
             = (IF d = {} THEN b ELSE Entered(f[d \ {Max(d)}], l[Max(d)]))
    BY <2>1
  <2>3. QED
    BY <1>3, <2>2 DEF Steps, Recurs
<1>6. ASSUME NEW h, Recurs(b, l, h) PROVE h[DOMAIN l] = Folded(BookStep, b, l)
  <2>1. h[{}] = b
    BY <1>6 DEF Recurs
  <2>2. ASSUME NEW k \in 1 .. Len(l), h[1 .. k - 1] \in Books
        PROVE  h[1 .. k] = BookStep[<<h[1 .. k - 1], l[k]>>]
    <3>1. k \in Nat \ {0} /\ k <= Len(l) /\ l[k] \in Entry
      BY <1>4
    <3>2. /\ (1 .. k) \ {k} = 1 .. k - 1 /\ 1 .. k # {}
          /\ 1 .. k \in SUBSET (1 .. Len(l)) /\ Max(1 .. k) = k
      BY <1>4, <3>1, UpTo
    <3>3. \A d \in SUBSET (1 .. Len(l)) :
             d # {} => h[d] = Entered(h[d \ {Max(d)}], l[Max(d)])
      BY <1>4, <1>6 DEF Recurs
    <3>4. h[1 .. k] = Entered(h[1 .. k - 1], l[k])
      BY <3>2, <3>3
    <3>5. QED
      BY <1>2, <2>2, <3>1, <3>4
  <2>3. Climbs(Books, BookStep, b, l, h)
    BY <2>1, <2>2 DEF Climbs
  <2>4. /\ h[1 .. Len(l)] = Folded(BookStep, b, l)
        /\ Folded(BookStep, b, l) \in Books
    BY <1>1, <2>3, FoldIs
  <2>5. QED
    BY <1>4, <2>4
<1>7. QED
  BY <1>5, <1>6

(* The fold of restore. *)
LEMMA ReplayFolds ==
  ASSUME NEW b \in Books, NEW l \in Seq(Entry)
  PROVE  Replayed(b, l) = Folded(BookStep, b, l)
<1> DEFINE It(h) == h = [d \in SUBSET (DOMAIN l) |->
                           IF d = {} THEN b ELSE Entered(h[d \ {Max(d)}], l[Max(d)])]
           it == CHOOSE h : h = [d \in SUBSET (DOMAIN l) |->
                           IF d = {} THEN b ELSE Entered(h[d \ {Max(d)}], l[Max(d)])]
<1>1. PICK f : It(f)
  BY RecursFolds DEF Recurs
<1>2. It(it)
  BY <1>1
<1>3. Replayed(b, l) = it[DOMAIN l]
  BY DEF Replayed, Entered, FoldLeft, MapThenFoldSet
<1> HIDE DEF it
<1>4. QED
  BY <1>2, <1>3, RecursFolds DEF Recurs

(* Accounts that are opened. *)
LEMMA OpeningType == Opening \in Books
<1>1. <<>> \in [{} -> Holding] /\ {} \in SUBSET Symbol
  OBVIOUS
<1>2. <<>> \in UNION {[D -> Holding] : D \in SUBSET Symbol}
  BY <1>1
<1>3. StartCash \in Int
  BY TradingAssumption
<1>4. Opened(StartCash) \in Wallet
  BY <1>2, <1>3 DEF Opened, Wallet
<1>5. QED
  BY <1>4 DEF Opening, Books

(* What the log says of the accounts. *)
Book(l) == Replayed(Opening, l)

(* The log is replayed record by record. *)
LEMMA Replaying ==
  /\ Book(<<>>) = Opening
  /\ \A l \in Seq(Entry) : Book(l) \in Books
  /\ \A l \in Seq(Entry), r \in Entry : Book(Append(l, r)) = Entered(Book(l), r)
<1>1. PICK N, b : N = Books /\ b = Opening
  OBVIOUS
<1>2. IsStep(BookStep, N, Entry) /\ b \in N
  <2>1. BookStep \in [Books \X Entry -> Books]
    BY EntryEnters DEF BookStep
  <2>2. QED
    BY <1>1, <2>1, OpeningType DEF IsStep
<1>3. /\ \A l \in Seq(Entry) : Folded(BookStep, b, l) \in N
      /\ \A l \in Seq(Entry), r \in Entry :
            Folded(BookStep, b, Append(l, r)) = BookStep[<<Folded(BookStep, b, l), r>>]
  BY <1>2, FoldSteps
<1>4. Folded(BookStep, b, <<>>) = b
  BY FoldBase
<1>5. \A l \in Seq(Entry) : Book(l) = Folded(BookStep, b, l)
  BY <1>1, ReplayFolds, OpeningType DEF Book
<1>6. <<>> \in Seq(Entry) /\ \A l \in Seq(Entry), r \in Entry : Append(l, r) \in Seq(Entry)
  OBVIOUS
<1>7. ASSUME NEW l \in Seq(Entry), NEW r \in Entry
      PROVE  Book(Append(l, r)) = Entered(Book(l), r)
  <2>1. Book(l) \in Books
    BY <1>1, <1>3, <1>5
  <2>2. BookStep[<<Book(l), r>>] = Entered(Book(l), r)
    BY <2>1 DEF BookStep
  <2>3. QED
    BY <1>3, <1>5, <1>6, <2>2
<1>8. QED
  BY <1>1, <1>3, <1>4, <1>5, <1>6, <1>7

(* A lawful record enters the books. *)
LEMMA EnteredMoves ==
  ASSUME NEW b \in Books, NEW r \in Entry, Lawful(b[r.acct], r)
  PROVE  /\ r.acct \in Account /\ Entered(b, r) \in Books
         /\ \A a \in Account, m \in Counted :
               Held(Entered(b, r)[a], m) = Held(b[a], m) + (IF a = r.acct THEN Moves(r, m) ELSE 0)
         /\ (\A a \in Account : b[a].cash >= 0) => \A a \in Account : Entered(b, r)[a].cash >= 0
<1>1. PICK e : e = Entered(b, r)
  OBVIOUS
<1>2. /\ r.acct \in Account /\ e \in Books
      /\ \A a \in Account : e[a] = IF a = r.acct THEN After(b[a], r) ELSE b[a]
  BY <1>1, EntryEnters
<1>3. \A a \in Account : b[a] \in Wallet /\ e[a] \in Wallet
  BY <1>2 DEF Books
<1>4. \A m \in Counted : Held(After(b[r.acct], r), m) = Held(b[r.acct], m) + Moves(r, m)
  BY <1>2, <1>3, AfterMoves
<1>5. ASSUME NEW a \in Account, NEW m \in Counted
      PROVE  Held(e[a], m) = Held(b[a], m) + (IF a = r.acct THEN Moves(r, m) ELSE 0)
  <2>1. CASE a = r.acct
    BY <1>2, <1>4, <2>1
  <2>2. CASE a # r.acct
    <3>1. e[a] = b[a] /\ Held(b[a], m) \in Int
      BY <1>2, <1>3, <2>2, Counts
    <3>2. QED
      BY <2>2, <3>1
  <2>3. QED
    BY <2>1, <2>2
<1>6. ASSUME NEW a \in Account, b[a].cash >= 0 PROVE e[a].cash >= 0
  <2>1. CASE a = r.acct
    <3>1. /\ Held(e[a], <<"cash">>) = e[a].cash /\ <<"cash">> \in Counted
      BY <1>3, HeldIs, Counts
    <3>2. Held(b[a], <<"cash">>) + Moves(r, <<"cash">>) >= 0
      BY <2>1, <3>1 DEF Lawful
    <3>3. Held(e[a], <<"cash">>) = Held(b[a], <<"cash">>) + Moves(r, <<"cash">>)
      BY <1>5, <2>1, <3>1
    <3>4. QED
      BY <3>1, <3>2, <3>3
  <2>2. CASE a # r.acct
    BY <1>2, <1>6, <2>2
  <2>3. QED
    BY <2>1, <2>2
<1>7. QED
  BY <1>1, <1>2, <1>5, <1>6

(* Every record of the log is lawful where it stands. *)
LawfulAt(l, n) == Lawful(Book(SubSeq(l, 1, n))[l[n + 1].acct], l[n + 1])
LawfulLog(l)   == \A n \in 0 .. Len(l) - 1 : LawfulAt(l, n)

(* What is before a place in a log, before more is appended or after some  *)
(* of it is cut off.                                                       *)
LEMMA LogParts ==
  ASSUME NEW l \in Seq(Entry)
  PROVE  /\ Len(l) \in Nat /\ \A i \in 1 .. Len(l) : l[i] \in Entry
         /\ \A n \in 0 .. Len(l) : /\ SubSeq(l, 1, n) \in Seq(Entry)
                                   /\ Len(SubSeq(l, 1, n)) = n
                                   /\ \A i \in 1 .. n : SubSeq(l, 1, n)[i] = l[i]
         /\ SubSeq(l, 1, 0) = <<>> /\ SubSeq(l, 1, Len(l)) = l
         /\ \A n \in 0 .. Len(l) - 1 : SubSeq(l, 1, n + 1) = Append(SubSeq(l, 1, n), l[n + 1])
<1>1. Len(l) \in Nat /\ \A i \in 1 .. Len(l) : l[i] \in Entry
  OBVIOUS
<1>2. ASSUME NEW n \in 0 .. Len(l)
      PROVE  /\ SubSeq(l, 1, n) \in Seq(Entry) /\ Len(SubSeq(l, 1, n)) = n
             /\ \A i \in 1 .. n : SubSeq(l, 1, n)[i] = l[i]
  BY <1>1, SubSeqProperties
<1>3. SubSeq(l, 1, 0) = <<>> /\ SubSeq(l, 1, Len(l)) = l
  BY <1>1
<1>4. ASSUME NEW n \in 0 .. Len(l) - 1
      PROVE  SubSeq(l, 1, n + 1) = Append(SubSeq(l, 1, n), l[n + 1])
  BY <1>1
<1>5. QED
  BY <1>1, <1>2, <1>3, <1>4

(* The beginning of the beginning. *)
LEMMA Cuts ==
  ASSUME NEW l \in Seq(Entry), NEW k \in 0 .. Len(l), NEW n \in 0 .. k
  PROVE  SubSeq(SubSeq(l, 1, k), 1, n) = SubSeq(l, 1, n)
<1>1. PICK t : t = SubSeq(l, 1, k) /\ t \in Seq(Entry) /\ Len(t) = k
               /\ \A i \in 1 .. k : t[i] = l[i]
  BY LogParts
<1>2. k \in Nat /\ n \in Nat /\ n <= k /\ n \in 0 .. Len(t) /\ n \in 0 .. Len(l)
  BY <1>1
<1>3. /\ SubSeq(t, 1, n) \in Seq(Entry) /\ Len(SubSeq(t, 1, n)) = n
      /\ \A i \in 1 .. n : SubSeq(t, 1, n)[i] = t[i]
  BY <1>1, <1>2, LogParts
<1>4. /\ SubSeq(l, 1, n) \in Seq(Entry) /\ Len(SubSeq(l, 1, n)) = n
      /\ \A i \in 1 .. n : SubSeq(l, 1, n)[i] = l[i]
  BY <1>2, LogParts
<1>5. \A i \in 1 .. n : SubSeq(t, 1, n)[i] = SubSeq(l, 1, n)[i]
  BY <1>1, <1>2, <1>3, <1>4
<1>6. SubSeq(t, 1, n) = SubSeq(l, 1, n)
  BY <1>3, <1>4, <1>5, SeqEqual
<1>7. QED
  BY <1>1, <1>6

(* A lawful record at the end leaves the log lawful, and so does a cut.    *)
LEMMA LogGrows ==
  ASSUME NEW l \in Seq(Entry), NEW r \in Entry, LawfulLog(l), Lawful(Book(l)[r.acct], r)
  PROVE  LawfulLog(Append(l, r))
<1>1. PICK t : t = Append(l, r)
  OBVIOUS
<1>2. /\ t \in Seq(Entry) /\ Len(l) \in Nat /\ Len(t) = Len(l) + 1 /\ t[Len(l) + 1] = r
      /\ \A i \in 1 .. Len(l) : t[i] = l[i]
  BY <1>1
<1>3. SubSeq(t, 1, Len(l)) = l
  BY <1>1, <1>2
<1>4. ASSUME NEW n \in 0 .. Len(l) - 1 PROVE LawfulAt(t, n)
  <2>1. SubSeq(SubSeq(t, 1, Len(l)), 1, n) = SubSeq(t, 1, n)
    BY <1>2, Cuts
  <2>2. SubSeq(t, 1, n) = SubSeq(l, 1, n) /\ t[n + 1] = l[n + 1]
    BY <1>2, <1>3, <2>1
  <2>3. LawfulAt(l, n)
    BY DEF LawfulLog
  <2>4. QED
    BY <2>2, <2>3 DEF LawfulAt
<1>5. LawfulAt(t, Len(l))
  BY <1>2, <1>3 DEF LawfulAt
<1>6. QED
  BY <1>1, <1>2, <1>4, <1>5 DEF LawfulLog

(* The beginning of a lawful log is one. *)
LEMMA LogCut ==
  ASSUME NEW l \in Seq(Entry), NEW k \in 0 .. Len(l), LawfulLog(l)
  PROVE  LawfulLog(SubSeq(l, 1, k))
<1>1. PICK t : t = SubSeq(l, 1, k) /\ t \in Seq(Entry) /\ Len(t) = k
               /\ \A i \in 1 .. k : t[i] = l[i]
  BY LogParts
<1>2. ASSUME NEW n \in 0 .. k - 1 PROVE LawfulAt(t, n)
  <2>1. n \in 0 .. k /\ n \in 0 .. Len(l) - 1 /\ n + 1 \in 1 .. k
    BY <1>1
  <2>2. SubSeq(t, 1, n) = SubSeq(l, 1, n) /\ t[n + 1] = l[n + 1]
    BY <1>1, <2>1, Cuts
  <2>3. LawfulAt(l, n)
    BY <2>1 DEF LawfulLog
  <2>4. QED
    BY <2>2, <2>3 DEF LawfulAt
<1>3. QED
  BY <1>1, <1>2 DEF LawfulLog

(* What a lawful log leaves of the accounts is not below zero. *)
LEMMA BookSolvent ==
  ASSUME NEW l \in Seq(Entry), LawfulLog(l)
  PROVE  \A n \in 0 .. Len(l), a \in Account : Book(SubSeq(l, 1, n))[a].cash >= 0
<1> DEFINE S == {n \in Nat : n <= Len(l) => \A a \in Account : Book(SubSeq(l, 1, n))[a].cash >= 0}
<1>1. 0 \in S
  <2>1. Book(SubSeq(l, 1, 0)) = Opening
    BY LogParts, Replaying
  <2>2. \A a \in Account : Opening[a].cash = StartCash
    BY DEF Opening, Opened
  <2>3. QED
    BY <2>1, <2>2, TradingAssumption
<1>2. ASSUME NEW n \in Nat, n \in S PROVE n + 1 \in S
  <2> SUFFICES ASSUME n + 1 <= Len(l)
               PROVE  \A a \in Account : Book(SubSeq(l, 1, n + 1))[a].cash >= 0
    OBVIOUS
  <2>1. /\ n \in 0 .. Len(l) - 1 /\ n \in 0 .. Len(l) /\ n + 1 \in 1 .. Len(l)
        /\ \A a \in Account : Book(SubSeq(l, 1, n))[a].cash >= 0
    BY <1>2
  <2>2. PICK b, r : b = Book(SubSeq(l, 1, n)) /\ r = l[n + 1]
    OBVIOUS
  <2>3. SubSeq(l, 1, n) \in Seq(Entry) /\ r \in Entry
        /\ SubSeq(l, 1, n + 1) = Append(SubSeq(l, 1, n), r)
    BY <2>1, <2>2, LogParts
  <2>4. b \in Books /\ Book(SubSeq(l, 1, n + 1)) = Entered(b, r)
    BY <2>2, <2>3, Replaying
  <2>5. Lawful(b[r.acct], r)
    BY <2>1, <2>2 DEF LawfulLog, LawfulAt
  <2>6. \A a \in Account : Entered(b, r)[a].cash >= 0
    BY <2>1, <2>2, <2>3, <2>4, <2>5, EnteredMoves
  <2>7. QED
    BY <2>4, <2>6
<1> HIDE DEF S
<1>3. \A n \in Nat : n \in S
  BY <1>1, <1>2, Numbers
<1>4. QED
  BY <1>3 DEF S

-----------------------------------------------------------------------------
(* The inductive invariant of the books. *)
Actor == Call \cup Organiser

Withdrawal == {r \in CashRecord : r.delta <= 0}
Due        == Withdrawal \cup GiveRecord \cup TakeRecord
HoldOrder  == [kind : {"hold"}, acct : Account, sym : Symbol, qty : Nat]

(* What everybody works with is what it says it is. *)
Typed ==
    /\ ledger \in Books /\ \A a \in Account : ledger[a].cash >= 0
    /\ log \in Seq(Entry)
    /\ price \in PriceTable
    /\ \A c \in Call : /\ pc[c] # "idle" => req[c] \in Request
                       /\ pc[c] \in Trades => got[c] \in TradeRecord
    /\ \A o \in Organiser :
          /\ opPc[o] = "asked" => op[o] \in Due \cup HoldOrder
          /\ opPc[o] = "noted" => op[o] \in TakeRecord
          /\ opPc[o] = "changed" => op[o] \in Withdrawal \cup TakeRecord
          /\ opPc[o] = "storing" => op[o] \in Due
          /\ opPc[o] = "stored" => op[o] \in GiveRecord
    /\ avg \in [Organiser -> Nat]

(* Who has changed an account and not its log yet, who the log and not the *)
(* account, and with what.                                                 *)
Early(x) == x \in Organiser /\ opPc[x] = "changed"
Late(x)  == \/ x \in Call /\ pc[x] = "committing"
            \/ x \in Organiser /\ opPc[x] \in {"storing", "stored"} /\ op[x].kind = "give"
Rec(x)   == IF x \in Call THEN got[x] ELSE op[x]

(* What the account has more than the log says, because of x. *)
Share(x, a, m) ==
    IF Early(x) /\ Rec(x).acct = a THEN Moves(Rec(x), m)
    ELSE IF Late(x) /\ Rec(x).acct = a THEN -Moves(Rec(x), m)
    ELSE 0

Owed(a, m) == [x \in Actor |-> Share(x, a, m)]

Match ==
    ~broken => \A a \in Account, m \in Counted :
        Held(ledger[a], m) = Held(Book(log)[a], m) + Total(Owed(a, m))

(* A trade that is being committed is still paid for. *)
Backed == \A c \in Call : pc[c] = "committing" => Lawful(ledger[got[c].acct], got[c])

BooksInv == Typed /\ Match /\ LawfulLog(log) /\ Backed

(* What is owed is a number for each actor. *)
LEMMA OwedType ==
  ASSUME Typed, NEW a \in Account, NEW m \in Counted
  PROVE  /\ IsFiniteSet(Actor)
         /\ Owed(a, m) \in [Actor -> Int]
         /\ \A x \in Actor : Early(x) \/ Late(x) => Rec(x) \in Entry
<1>1. IsFiniteSet(Actor)
  BY TradingAssumption DEF Actor
<1>2. ASSUME NEW x \in Actor, Early(x) \/ Late(x) PROVE Rec(x) \in Entry
  <2>1. CASE x \in Call
    <3>1. pc[x] = "committing" /\ Rec(x) = got[x]
      BY <1>2, <2>1, TradingAssumption DEF Early, Late, Rec
    <3>2. got[x] \in TradeRecord
      BY <2>1, <3>1 DEF Typed, Trades
    <3>3. QED
      BY <3>1, <3>2 DEF Entry
  <2>2. CASE x \in Organiser
    <3>1. opPc[x] \in {"changed", "storing", "stored"} /\ Rec(x) = op[x]
      BY <1>2, <2>2, TradingAssumption DEF Early, Late, Rec
    <3>2. op[x] \in Due
      BY <2>2, <3>1 DEF Typed, Due
    <3>3. QED
      BY <3>1, <3>2 DEF Entry, Due, Withdrawal
  <2>3. QED
    BY <2>1, <2>2 DEF Actor
<1>3. ASSUME NEW x \in Actor PROVE Share(x, a, m) \in Int
  <2>1. Early(x) \/ Late(x) => Moves(Rec(x), m) \in Int
    BY <1>2, Counts
  <2>2. QED
    BY <2>1 DEF Share
<1>4. QED
  BY <1>1, <1>2, <1>3 DEF Owed

(* The shares are numbers. *)
Numbered == \A a \in Account, m \in Counted : Owed(a, m) \in [Actor -> Int]

(* They are numbers now ... *)
LEMMA OwedTypes == Typed => Numbered
BY OwedType DEF Numbered

(* ... and after a step. *)
LEMMA OwedNext == Typed' => Numbered'
BY OwedTypes, PTL

(* A step of x keeps the accounts and the log together if it changes what  *)
(* x owes by what it changes of the accounts, less of the log.             *)
LEMMA StepMatches ==
  ASSUME Typed, Typed', Match, NEW x \in Actor, ~broken' => ~broken,
         \A y \in Actor \ {x}, a \in Account, m \in Counted : Share(y, a, m)' = Share(y, a, m),
         \A a \in Account, m \in Counted :
            Held(ledger'[a], m) - Held(Book(log')[a], m) - Share(x, a, m)'
              = Held(ledger[a], m) - Held(Book(log)[a], m) - Share(x, a, m)
  PROVE  Match'
<1> SUFFICES ASSUME ~broken', NEW a \in Account, NEW m \in Counted
             PROVE  Held(ledger'[a], m) = Held(Book(log')[a], m) + Total(Owed(a, m)')
  BY DEF Match
<1>1. PICK g, h : g = Owed(a, m) /\ h = Owed(a, m)'
  OBVIOUS
<1>2. IsFiniteSet(Actor) /\ g \in [Actor -> Int]
  BY <1>1, OwedType
<1>3. h \in [Actor -> Int]
  <2>1. Owed(a, m)' \in [Actor -> Int]
    BY OwedNext DEF Numbered
  <2>2. QED
    BY <1>1, <2>1
<1>4. /\ \A y \in Actor : g[y] = Share(y, a, m)
      /\ \A y \in Actor : h[y] = Share(y, a, m)'
  BY <1>1 DEF Owed
<1>5. \A y \in Actor : y # x => g[y] = h[y]
  BY <1>4
<1>6. Total(h) = Total(g) + h[x] - g[x]
  BY <1>2, <1>3, <1>5, TotalsDiffer
<1>7. Total(g) \in Int /\ Total(h) \in Int /\ g[x] \in Int /\ h[x] \in Int
  BY <1>2, <1>3, TotalType
<1>8. /\ Held(ledger[a], m) \in Int /\ Held(ledger'[a], m) \in Int
      /\ Held(Book(log)[a], m) \in Int /\ Held(Book(log')[a], m) \in Int
  <2>1. ledger \in Books /\ ledger' \in Books /\ log \in Seq(Entry) /\ log' \in Seq(Entry)
    BY DEF Typed
  <2>2. Book(log) \in Books /\ Book(log') \in Books
    BY <2>1, Replaying
  <2>3. /\ ledger[a] \in Wallet /\ ledger'[a] \in Wallet
        /\ Book(log)[a] \in Wallet /\ Book(log')[a] \in Wallet
    BY <2>1, <2>2 DEF Books
  <2>4. QED
    BY <2>3, Counts
<1>9. Held(ledger[a], m) = Held(Book(log)[a], m) + Total(g)
  BY <1>1 DEF Match
<1>10. Held(ledger'[a], m) - Held(Book(log')[a], m) - h[x]
          = Held(ledger[a], m) - Held(Book(log)[a], m) - g[x]
  BY <1>4
<1>11. Held(ledger'[a], m) = Held(Book(log')[a], m) + Total(h)
  <2>1. PICK i, j, k, l, p, q, t, u :
           /\ i = Held(ledger[a], m) /\ j = Held(ledger'[a], m)
           /\ k = Held(Book(log)[a], m) /\ l = Held(Book(log')[a], m)
           /\ p = Total(g) /\ q = Total(h) /\ t = g[x] /\ u = h[x]
    OBVIOUS
  <2>2. /\ i \in Int /\ j \in Int /\ k \in Int /\ l \in Int
        /\ p \in Int /\ q \in Int /\ t \in Int /\ u \in Int
    BY <1>7, <1>8, <2>1
  <2>3. i = k + p /\ j - l - u = i - k - t /\ q = p + u - t
    BY <1>6, <1>9, <1>10, <2>1
  <2>4. j = l + q
    BY <2>2, <2>3
  <2>5. QED
    BY <2>1, <2>4
<1>12. QED
  BY <1>1, <1>11

(* What each actor owes, by where it is. *)
Shares ==
    \A a \in Account, m \in Counted :
        /\ \A c \in Call : Share(c, a, m) =
              IF pc[c] = "committing" /\ got[c].acct = a THEN -Moves(got[c], m) ELSE 0
        /\ \A o \in Organiser : Share(o, a, m) =
              IF opPc[o] = "changed" /\ op[o].acct = a THEN Moves(op[o], m)
              ELSE IF opPc[o] \in {"storing", "stored"} /\ op[o].kind = "give" /\ op[o].acct = a
                   THEN -Moves(op[o], m) ELSE 0

(* This is what they owe now ... *)
LEMMA SharesAre == Shares
<1>1. \A x \in Call : x \notin Organiser
  BY TradingAssumption
<1>2. QED
  BY <1>1 DEF Shares, Share, Early, Late, Rec

(* ... and after a step. *)
LEMMA SharesNext == Shares'
BY SharesAre, PTL

(* Withdrawals take, grants give. *)
LEMMA Signs ==
  ASSUME NEW r \in Entry, NEW m \in Counted
  PROVE  /\ r \in Withdrawal \cup TakeRecord => Moves(r, m) <= 0
         /\ r \in GiveRecord => Moves(r, m) >= 0
<1>1. ASSUME r \in Withdrawal PROVE Moves(r, m) <= 0
  <2>1. r \in CashRecord /\ r.delta <= 0 /\ r.delta \in Int
    BY <1>1 DEF Withdrawal, CashRecord
  <2>2. Moves(r, m) \in {0, r.delta}
    BY <2>1, Adds, Counts
  <2>3. QED
    BY <2>1, <2>2
<1>2. ASSUME r \in TakeRecord PROVE Moves(r, m) <= 0
  <2>1. r.qty \in Nat
    BY <1>2 DEF TakeRecord
  <2>2. Moves(r, m) \in {0, -r.qty}
    BY <1>2, Adds, Counts
  <2>3. QED
    BY <2>1, <2>2
<1>3. ASSUME r \in GiveRecord PROVE Moves(r, m) >= 0
  <2>1. r.qty \in Nat
    BY <1>3 DEF GiveRecord
  <2>2. Moves(r, m) \in {0, r.qty}
    BY <1>3, Adds, Counts
  <2>3. QED
    BY <2>1, <2>2
<1>4. QED
  BY <1>1, <1>2, <1>3

(* Nothing moves. *)
LEMMA StillMatches ==
  ASSUME Match, ledger' = ledger, log' = log, ~broken' => ~broken,
         \A x \in Actor, a \in Account, m \in Counted : Share(x, a, m)' = Share(x, a, m)
  PROVE  Match'
<1>1. ASSUME NEW a \in Account, NEW m \in Counted PROVE Owed(a, m)' = Owed(a, m)
  BY DEF Owed
<1>2. QED
  BY <1>1 DEF Match

(* A lawful change of an account that x owes the log from now on, or has   *)
(* owed the account.                                                       *)
LEMMA LedgerMatches ==
  ASSUME Typed, Typed', Match, NEW x \in Actor, ~broken' => ~broken, log' = log,
         NEW r \in Entry, Lawful(ledger[r.acct], r), ledger' = Entered(ledger, r),
         \A y \in Actor \ {x}, a \in Account, m \in Counted : Share(y, a, m)' = Share(y, a, m),
         \A a \in Account, m \in Counted : Share(x, a, m)'
            = Share(x, a, m) + (IF a = r.acct THEN Moves(r, m) ELSE 0)
  PROVE  Match'
<1>1. ASSUME NEW a \in Account, NEW m \in Counted
      PROVE  Held(ledger'[a], m) - Held(Book(log')[a], m) - Share(x, a, m)'
              = Held(ledger[a], m) - Held(Book(log)[a], m) - Share(x, a, m)
  <2>1. PICK d : d = IF a = r.acct THEN Moves(r, m) ELSE 0
    OBVIOUS
  <2>2. d \in Int
    BY <2>1, Counts
  <2>3. Held(ledger'[a], m) = Held(ledger[a], m) + d
    BY <2>1, EnteredMoves DEF Typed
  <2>4. Share(x, a, m)' = Share(x, a, m) + d
    BY <2>1
  <2>5. Share(x, a, m) \in Int
    BY OwedType DEF Owed
  <2>6. Held(ledger[a], m) \in Int /\ Held(Book(log)[a], m) \in Int
    BY Replaying, Counts DEF Typed, Books
  <2>7. PICK i, j, k, l, p : /\ i = Held(ledger[a], m) /\ j = Held(ledger'[a], m)
                             /\ k = Held(Book(log)[a], m)
                             /\ l = Share(x, a, m) /\ p = Share(x, a, m)'
    OBVIOUS
  <2>8. i \in Int /\ k \in Int /\ l \in Int /\ j = i + d /\ p = l + d
    BY <2>3, <2>4, <2>5, <2>6, <2>7
  <2>9. j - k - p = i - k - l
    BY <2>2, <2>8
  <2>10. QED
    BY <2>7, <2>9
<1>2. QED
  BY <1>1, StepMatches

(* A lawful record that x owes the account from now on, or has owed the    *)
(* log.                                                                    *)
LEMMA LogMatches ==
  ASSUME Typed, Typed', Match, NEW x \in Actor, ~broken' => ~broken, ledger' = ledger,
         NEW r \in Entry, Lawful(Book(log)[r.acct], r), log' = Append(log, r),
         \A y \in Actor \ {x}, a \in Account, m \in Counted : Share(y, a, m)' = Share(y, a, m),
         \A a \in Account, m \in Counted : Share(x, a, m)'
            = Share(x, a, m) - (IF a = r.acct THEN Moves(r, m) ELSE 0)
  PROVE  Match'
<1>1. Book(log) \in Books /\ Book(log') = Entered(Book(log), r)
  BY Replaying DEF Typed
<1>2. ASSUME NEW a \in Account, NEW m \in Counted
      PROVE  Held(ledger'[a], m) - Held(Book(log')[a], m) - Share(x, a, m)'
              = Held(ledger[a], m) - Held(Book(log)[a], m) - Share(x, a, m)
  <2>1. PICK d : d = IF a = r.acct THEN Moves(r, m) ELSE 0
    OBVIOUS
  <2>2. d \in Int
    BY <2>1, Counts
  <2>3. Held(Book(log')[a], m) = Held(Book(log)[a], m) + d
    BY <1>1, <2>1, EnteredMoves
  <2>4. Share(x, a, m)' = Share(x, a, m) - d
    BY <2>1
  <2>5. Share(x, a, m) \in Int
    BY OwedType DEF Owed
  <2>6. Held(ledger[a], m) \in Int /\ Held(Book(log)[a], m) \in Int
    BY <1>1, Counts DEF Typed, Books
  <2>7. PICK i, j, k, l, p : /\ i = Held(ledger[a], m) /\ j = Held(Book(log')[a], m)
                             /\ k = Held(Book(log)[a], m)
                             /\ l = Share(x, a, m) /\ p = Share(x, a, m)'
    OBVIOUS
  <2>8. i \in Int /\ k \in Int /\ l \in Int /\ j = k + d /\ p = l - d
    BY <2>3, <2>4, <2>5, <2>6, <2>7
  <2>9. i - j - p = i - k - l
    BY <2>2, <2>8
  <2>10. QED
    BY <2>7, <2>9
<1>3. QED
  BY <1>2, StepMatches

(* Nobody else's share changes. *)
LEMMA OthersOwe ==
  ASSUME NEW x \in Actor,
         \A y \in Call \ {x} : pc'[y] = pc[y] /\ got'[y] = got[y],
         \A y \in Organiser \ {x} : opPc'[y] = opPc[y] /\ op'[y] = op[y]
  PROVE  \A y \in Actor \ {x}, a \in Account, m \in Counted : Share(y, a, m)' = Share(y, a, m)
<1>1. ASSUME NEW y \in Actor \ {x}, NEW a \in Account, NEW m \in Counted
      PROVE  Share(y, a, m)' = Share(y, a, m)
  <2>1. CASE y \in Call
    BY <2>1, SharesAre, SharesNext DEF Shares
  <2>2. CASE y \in Organiser
    BY <2>2, SharesAre, SharesNext DEF Shares
  <2>3. QED
    BY <2>1, <2>2 DEF Actor
<1>2. QED
  BY <1>1

-----------------------------------------------------------------------------
(* If nobody owes more than nothing, nothing is owed that could be missing. *)
LEMMA AtMostZero ==
  ASSUME NEW S, IsFiniteSet(S), NEW g \in [S -> Int], \A x \in S : g[x] <= 0
  PROVE  Total(g) <= 0
<1>1. PICK h : h = [x \in S |-> 0]
  OBVIOUS
<1>2. h \in [S -> Int] /\ \A x \in S : h[x] = 0
  BY <1>1
<1>3. Total(h) = 0
  BY <1>2, TotalZero
<1>4. Total(g) <= Total(h)
  BY <1>2, TotalsCompare
<1>5. QED
  BY <1>3, <1>4

(* At most what x owes, if the others owe nothing that could be missing. *)
LEMMA AtMostOne ==
  ASSUME NEW S, IsFiniteSet(S), NEW g \in [S -> Int], NEW x \in S,
         \A y \in S \ {x} : g[y] <= 0
  PROVE  Total(g) <= g[x]
<1>1. PICK h : h = [y \in S |-> IF y = x THEN 0 ELSE g[y]]
  OBVIOUS
<1>2. h \in [S -> Int] /\ h[x] = 0 /\ \A y \in S : y # x => h[y] = g[y]
  BY <1>1
<1>3. \A y \in S : h[y] <= 0
  BY <1>2
<1>4. Total(h) <= 0
  BY <1>2, <1>3, AtMostZero
<1>5. Total(g) = Total(h) + g[x] - h[x]
  BY <1>2, TotalsDiffer
<1>6. Total(g) \in Int /\ Total(h) \in Int /\ g[x] \in Int
  BY <1>2, TotalType
<1>7. QED
  BY <1>2, <1>4, <1>5, <1>6

(* At most what x and z owe, if the others owe nothing that could be       *)
(* missing.                                                                *)
LEMMA AtMostTwo ==
  ASSUME NEW S, IsFiniteSet(S), NEW g \in [S -> Int], NEW x \in S, NEW z \in S, x # z,
         \A y \in S \ {x, z} : g[y] <= 0
  PROVE  Total(g) <= g[x] + g[z]
<1>1. PICK h : h = [y \in S |-> IF y = x THEN 0 ELSE g[y]]
  OBVIOUS
<1>2. h \in [S -> Int] /\ h[x] = 0 /\ \A y \in S : y # x => h[y] = g[y]
  BY <1>1
<1>3. h[z] = g[z] /\ \A y \in S \ {z} : h[y] <= 0
  BY <1>2
<1>4. Total(h) <= h[z]
  BY <1>2, <1>3, AtMostOne
<1>5. Total(g) = Total(h) + g[x] - h[x]
  BY <1>2, TotalsDiffer
<1>6. Total(g) \in Int /\ Total(h) \in Int /\ g[x] \in Int /\ g[z] \in Int
  BY <1>2, TotalType
<1>7. QED
  BY <1>2, <1>3, <1>4, <1>5, <1>6

(* An actor that is not committing a trade on the account, and is not in   *)
(* the middle of anything if it is o, owes nothing that could be missing.  *)
LEMMA OwesLittle ==
  ASSUME Typed, NEW a \in Account, NEW m \in Counted
  PROVE  /\ \A c \in Call : ~(pc[c] = "committing" /\ got[c].acct = a) => Share(c, a, m) = 0
         /\ \A o \in Organiser : Share(o, a, m) <= 0
<1>1. ASSUME NEW o \in Organiser PROVE Share(o, a, m) <= 0
  <2>1. CASE opPc[o] = "changed"
    <3>1. op[o] \in Withdrawal \cup TakeRecord /\ op[o] \in Entry
      BY <2>1 DEF Typed, Entry, Withdrawal
    <3>2. Moves(op[o], m) <= 0
      BY <3>1, Signs
    <3>3. QED
      BY <2>1, <3>2, SharesAre DEF Shares
  <2>2. CASE opPc[o] \in {"storing", "stored"} /\ op[o].kind = "give"
    <3>1. op[o] \in Due /\ op[o].kind = "give"
      BY <2>2 DEF Typed, Due
    <3>2. op[o] \in GiveRecord /\ op[o] \in Entry
      BY <3>1 DEF Due, Withdrawal, CashRecord, TakeRecord, Entry
    <3>3. Moves(op[o], m) >= 0 /\ Moves(op[o], m) \in Int
      BY <3>2, Signs, Counts
    <3>4. QED
      BY <2>2, <3>3, SharesAre DEF Shares
  <2>3. CASE opPc[o] # "changed" /\ ~(opPc[o] \in {"storing", "stored"} /\ op[o].kind = "give")
    <3>1. Share(o, a, m) = 0
      BY <2>3, SharesAre DEF Shares
    <3>2. QED
      BY <3>1
  <2>4. QED
    BY <2>1, <2>2, <2>3
<1>2. QED
  BY <1>1, SharesAre DEF Shares

(* What a trade may do to the account it may do to what the log says of    *)
(* it, when no other is being committed there.                             *)
LEMMA CommitLawful ==
  ASSUME Typed, Match, ~broken, NEW c \in Call, NEW r \in Entry,
         Lawful(ledger[r.acct], r),
         \A d \in Call : ~(pc[d] = "committing" /\ got[d].acct = r.acct)
  PROVE  Lawful(Book(log)[r.acct], r)
<1>1. PICK a \in Account : a = r.acct
  BY EntryEnters, OpeningType
<1>2. ASSUME NEW m \in Counted PROVE Held(Book(log)[a], m) + Moves(r, m) >= 0
  <2>1. /\ IsFiniteSet(Actor) /\ Owed(a, m) \in [Actor -> Int]
    BY OwedType
  <2>2. \A x \in Actor : Owed(a, m)[x] <= 0
    BY <1>1, OwesLittle DEF Owed, Actor
  <2>3. Total(Owed(a, m)) <= 0 /\ Total(Owed(a, m)) \in Int
    BY <2>1, <2>2, AtMostZero, TotalType
  <2>4. Held(ledger[a], m) = Held(Book(log)[a], m) + Total(Owed(a, m))
    BY DEF Match
  <2>5. Held(ledger[a], m) + Moves(r, m) >= 0
    BY <1>1 DEF Lawful
  <2>6. Held(ledger[a], m) \in Int /\ Held(Book(log)[a], m) \in Int /\ Moves(r, m) \in Int
    BY Replaying, Counts DEF Typed, Books
  <2>7. PICK i, k, l, p : /\ i = Held(ledger[a], m) /\ k = Held(Book(log)[a], m)
                          /\ l = Total(Owed(a, m)) /\ p = Moves(r, m)
    OBVIOUS
  <2>8. k + p >= 0
    BY <2>3, <2>4, <2>5, <2>6, <2>7
  <2>9. QED
    BY <2>7, <2>8
<1>3. QED
  BY <1>1, <1>2 DEF Lawful

(* What an organiser has taken from the account the log's account has too, *)
(* also when a trade that is being committed there comes first in the log. *)
LEMMA StoreLawful ==
  ASSUME Typed, Match, Backed, Alone, Quoted, ~broken, NEW o \in Organiser, opPc[o] = "changed"
  PROVE  op[o] \in Entry /\ Lawful(Book(log)[op[o].acct], op[o])
<1>1. PICK r : r = op[o]
  OBVIOUS
<1>2. r \in Withdrawal \cup TakeRecord /\ r \in Entry
  BY <1>1 DEF Typed, Entry, Withdrawal
<1>3. PICK a \in Account : a = r.acct
  BY <1>2, EntryEnters, OpeningType
<1>4. ASSUME NEW m \in Counted PROVE Held(Book(log)[a], m) + Moves(r, m) >= 0
  <2>1. /\ IsFiniteSet(Actor) /\ Owed(a, m) \in [Actor -> Int] /\ o \in Actor
    BY OwedType DEF Actor
  <2>2. Owed(a, m)[o] = Moves(r, m)
    BY <1>1, <1>3, <2>1, SharesAre DEF Shares, Owed
  <2>3. Held(ledger[a], m) = Held(Book(log)[a], m) + Total(Owed(a, m))
    BY DEF Match
  <2>4. /\ Held(ledger[a], m) \in Int /\ Held(Book(log)[a], m) \in Int /\ Moves(r, m) \in Int
        /\ Total(Owed(a, m)) \in Int
    BY <1>2, <2>1, Replaying, Counts, TotalType DEF Typed, Books
  <2>5. PICK i, k, l, p : /\ i = Held(ledger[a], m) /\ k = Held(Book(log)[a], m)
                          /\ l = Total(Owed(a, m)) /\ p = Moves(r, m)
    OBVIOUS
  <2>6. CASE \E c \in Call : pc[c] = "committing" /\ got[c].acct = a
    <3>1. PICK c \in Call : pc[c] = "committing" /\ got[c].acct = a
      BY <2>6
    <3>2. c \in Actor /\ c # o
      BY TradingAssumption DEF Actor
    <3>3. \A d \in Call : pc[d] = "committing" /\ got[d].acct = a => d = c
      BY <3>1 DEF Alone, Quoted, Trades, Key
    <3>4. \A x \in Actor \ {o, c} : Owed(a, m)[x] <= 0
      BY <3>3, OwesLittle DEF Owed, Actor
    <3>5. Total(Owed(a, m)) <= Owed(a, m)[o] + Owed(a, m)[c]
      BY <2>1, <3>2, <3>4, AtMostTwo
    <3>6. Owed(a, m)[c] = -Moves(got[c], m)
      BY <3>1, <3>2, SharesAre DEF Shares, Owed
    <3>7. got[c] \in Entry /\ Lawful(ledger[a], got[c])
      BY <3>1 DEF Typed, Entry, Trades, Backed
    <3>8. Held(ledger[a], m) + Moves(got[c], m) >= 0 /\ Moves(got[c], m) \in Int
      BY <3>7, Counts DEF Lawful
    <3>9. PICK n : n = Moves(got[c], m)
      OBVIOUS
    <3>10. l <= p - n /\ i + n >= 0 /\ i = k + l /\ n \in Int
      BY <2>2, <2>3, <2>4, <2>5, <3>5, <3>6, <3>8, <3>9
    <3>11. k + p >= 0
      BY <2>4, <2>5, <3>10
    <3>12. QED
      BY <2>5, <3>11
  <2>7. CASE ~(\E c \in Call : pc[c] = "committing" /\ got[c].acct = a)
    <3>1. \A x \in Actor \ {o} : Owed(a, m)[x] <= 0
      BY <2>7, OwesLittle DEF Owed, Actor
    <3>2. Total(Owed(a, m)) <= Owed(a, m)[o]
      BY <2>1, <3>1, AtMostOne
    <3>3. Held(ledger[a], m) >= 0
      <4>1. ledger[a] \in Wallet /\ ledger[a].cash >= 0
        BY DEF Typed, Books
      <4>2. Held(ledger[a], <<"cash">>) >= 0 /\ \A s \in Symbol : Held(ledger[a], <<"qty", s>>) >= 0
        BY <4>1, HeldIs
      <4>3. QED
        BY <4>2, Counts
    <3>4. l <= p /\ i >= 0 /\ i = k + l
      BY <2>2, <2>3, <2>5, <3>2, <3>3
    <3>5. k + p >= 0
      BY <2>4, <2>5, <3>4
    <3>6. QED
      BY <2>5, <3>5
  <2>8. QED
    BY <2>6, <2>7
<1>5. QED
  BY <1>1, <1>2, <1>3, <1>4 DEF Lawful

(* What is given may be given to any account. *)
LEMMA GiveLawful ==
  ASSUME Typed, LawfulLog(log), NEW r \in GiveRecord
  PROVE  /\ r \in Entry /\ r.acct \in Account
         /\ Lawful(ledger[r.acct], r) /\ Lawful(Book(log)[r.acct], r)
<1>1. r \in Entry /\ r.acct \in Account
  BY DEF Entry, GiveRecord
<1>2. ledger[r.acct] \in Wallet /\ ledger[r.acct].cash >= 0
  BY <1>1 DEF Typed, Books
<1>3. Book(log)[r.acct] \in Wallet /\ Book(log)[r.acct].cash >= 0
  <2>1. log \in Seq(Entry) /\ Len(log) \in 0 .. Len(log) /\ SubSeq(log, 1, Len(log)) = log
    BY LogParts DEF Typed
  <2>2. QED
    BY <1>1, <2>1, BookSolvent, Replaying DEF Books
<1>4. QED
  BY <1>1, <1>2, <1>3, LawfulMeans

-----------------------------------------------------------------------------
(* Nothing has happened yet. *)
LEMMA InitBooks == Init => BooksInv
<1> SUFFICES ASSUME Init PROVE BooksInv
  OBVIOUS
<1>1. /\ ledger = Opening /\ log = <<>> /\ Len(log) = 0 /\ price \in PriceTable
      /\ \A c \in Call : pc[c] = "idle"
      /\ \A o \in Organiser : opPc[o] = "idle"
      /\ avg \in [Organiser -> Nat]
  BY DEF Init, Opening
<1>2. Typed
  <2>1. \A a \in Account : ledger[a].cash >= 0
    BY <1>1, TradingAssumption DEF Opening, Opened
  <2>2. ledger \in Books /\ log \in Seq(Entry)
    BY <1>1, OpeningType
  <2>3. QED
    BY <1>1, <2>1, <2>2 DEF Typed, Trades
<1>3. ASSUME NEW a \in Account, NEW m \in Counted
      PROVE  Held(ledger[a], m) = Held(Book(log)[a], m) + Total(Owed(a, m))
  <2>1. IsFiniteSet(Actor) /\ Owed(a, m) \in [Actor -> Int]
    BY <1>2, OwedType
  <2>2. \A x \in Actor : Owed(a, m)[x] = 0
    BY <1>1, SharesAre DEF Owed, Shares, Actor
  <2>3. Total(Owed(a, m)) = 0
    BY <2>1, <2>2, TotalZero
  <2>4. Book(log) = ledger
    BY <1>1, Replaying
  <2>5. Held(ledger[a], m) \in Int
    BY <1>2, Counts DEF Typed, Books
  <2>6. QED
    BY <2>3, <2>4, <2>5
<1>4. LawfulLog(log)
  BY <1>1 DEF LawfulLog
<1>5. Backed
  BY <1>1 DEF Backed
<1>6. QED
  BY <1>2, <1>3, <1>4, <1>5 DEF BooksInv, Match

-----------------------------------------------------------------------------
(* What an actor works with is what it says it is. *)
CallTyped(c) == /\ pc[c] # "idle" => req[c] \in Request
                /\ pc[c] \in Trades => got[c] \in TradeRecord
OpTyped(o)   == /\ opPc[o] = "asked" => op[o] \in Due \cup HoldOrder
                /\ opPc[o] = "noted" => op[o] \in TakeRecord
                /\ opPc[o] = "changed" => op[o] \in Withdrawal \cup TakeRecord
                /\ opPc[o] = "storing" => op[o] \in Due
                /\ opPc[o] = "stored" => op[o] \in GiveRecord

(* A step of a call that changes neither accounts nor log keeps the books  *)
(* in order if the call owed nothing, or the log was broken.               *)
LEMMA CallQuiet ==
  ASSUME BooksInv, NEW c \in Call,
         UNCHANGED <<ledger, log, price, broken, opPc, op, avg>>,
         \A d \in Call \ {c} : pc'[d] = pc[d] /\ req'[d] = req[d] /\ got'[d] = got[d],
         CallTyped(c)', ~broken => pc[c] # "committing", pc'[c] # "committing"
  PROVE  BooksInv'
<1>1. Typed'
  BY DEF BooksInv, Typed, CallTyped
<1>2. Match'
  <2>1. CASE broken
    BY <2>1 DEF Match
  <2>2. CASE ~broken
    <3>1. c \in Actor
      BY DEF Actor
    <3>2. \A y \in Actor \ {c}, a \in Account, m \in Counted : Share(y, a, m)' = Share(y, a, m)
      BY <3>1, OthersOwe
    <3>3. \A a \in Account, m \in Counted : Share(c, a, m)' = Share(c, a, m)
      BY <2>2, SharesAre, SharesNext DEF Shares
    <3>4. \A x \in Actor, a \in Account, m \in Counted : Share(x, a, m)' = Share(x, a, m)
      BY <3>2, <3>3
    <3>5. QED
      BY <3>4, StillMatches DEF BooksInv
  <2>3. QED
    BY <2>1, <2>2
<1>3. LawfulLog(log)'
  BY DEF BooksInv
<1>4. Backed'
  BY DEF BooksInv, Backed
<1>5. QED
  BY <1>1, <1>2, <1>3, <1>4 DEF BooksInv

(* What a call does to itself alone: a request, its quote, its checks, a   *)
(* refusal, a failure, an answer.                                          *)
CallAlone(c) ==
    /\ UNCHANGED <<ledger, log, price, broken, opPc, op, avg>>
    /\ \A d \in Call \ {c} : pc'[d] = pc[d] /\ req'[d] = req[d] /\ got'[d] = got[d]

(* Until it appends its trade it touches neither the accounts nor the log. *)
LEMMA OneCall ==
  ASSUME IInv, NEW c \in Call,
         \/ Arrive(c) \/ Repeat(c) \/ Quote(c) \/ Check(c) \/ GiveUp(c) \/ Answer(c)
         \/ Commit(c) /\ log' = log
  PROVE  CallAlone(c)
<1>1. UNCHANGED <<ledger, log, price, broken, opPc, op, avg>>
  BY DEF Arrive, Repeat, Quote, Check, GiveUp, Answer, Commit, memory, disk, ops, world
<1>2. \A d \in Call \ {c} : pc'[d] = pc[d]
  BY DEF Arrive, Repeat, Quote, Check, GiveUp, Answer, Commit, To, IInv, Shape
<1>3. \A d \in Call \ {c} : req'[d] = req[d] /\ got'[d] = got[d]
  <2>1. CASE Arrive(c)
    BY <2>1 DEF Arrive
  <2>2. CASE Repeat(c)
    <3>1. req' = req /\ (got' = got \/ \E t : got' = [got EXCEPT ![c] = t])
      BY <2>2 DEF Repeat
    <3>2. QED
      BY <3>1 DEF IInv, Shape
  <2>3. CASE Quote(c)
    <3>1. req' = req /\ (got' = got \/ \E t : got' = [got EXCEPT ![c] = t])
      BY <2>3 DEF Quote
    <3>2. QED
      BY <3>1 DEF IInv, Shape
  <2>4. CASE Check(c) \/ GiveUp(c) \/ Answer(c) \/ Commit(c)
    BY <2>4 DEF Check, GiveUp, Answer, Commit
  <2>5. QED
    BY <2>1, <2>2, <2>3, <2>4
<1>4. QED
  BY <1>1, <1>2, <1>3 DEF CallAlone

(* Such a step keeps the books in order. *)
LEMMA CallBooks ==
  ASSUME IInv, BooksInv, NEW c \in Call,
         \/ Arrive(c) \/ Repeat(c) \/ Quote(c) \/ Check(c) \/ GiveUp(c) \/ Answer(c)
         \/ Commit(c) /\ log' = log
  PROVE  BooksInv'
<1>1. CallAlone(c)
  BY OneCall
<1>2. pc \in [Call -> States] /\ DOMAIN req = Call /\ DOMAIN got = Call
  BY DEF IInv, Shape
<1>3. CallTyped(c) /\ price \in PriceTable
  BY DEF BooksInv, Typed, CallTyped
<1>4. /\ CallTyped(c)' /\ pc'[c] # "committing"
      /\ ~broken => pc[c] # "committing"
  <2>1. CASE Arrive(c)
    <3>1. /\ pc[c] = "idle" /\ pc'[c] = "waiting" /\ req'[c] \in Request
      BY <1>2, <2>1 DEF Arrive, To
    <3>2. QED
      BY <3>1 DEF CallTyped, Trades
  <2>2. CASE Repeat(c)
    <3>1. pc[c] = "waiting" /\ pc'[c] \in {"answered", "refused"} /\ req' = req
      BY <1>2, <2>2 DEF Repeat, To
    <3>2. QED
      BY <1>3, <3>1 DEF CallTyped, Trades
  <2>3. CASE Quote(c)
    <3>1. pc[c] = "waiting" /\ req' = req
      BY <2>3 DEF Quote
    <3>2. req[c] \in Request
      BY <1>3, <3>1 DEF CallTyped
    <3>3. \/ pc'[c] = "refused"
          \/ pc'[c] = "quoted" /\ got'[c] = TradeAt(c, req[c], price[req[c].sym])
      BY <1>2, <2>3 DEF Quote, To
    <3>4. TradeAt(c, req[c], price[req[c].sym]) \in TradeRecord
      <4>1. PICK q : q = req[c] /\ q \in Request
        BY <3>2
      <4>2. /\ q.acct \in Account /\ q.cid \in {x.cid : x \in Request} /\ q.sym \in Symbol
            /\ q.buy \in BOOLEAN /\ q.qty \in Nat \ {0}
        BY <4>1, TradingAssumption
      <4>3. price[q.sym] \in Nat
        BY <1>3, <4>2, TradingAssumption
      <4>4. QED
        BY <4>1, <4>2, <4>3 DEF TradeAt, TradeRecord
    <3>5. QED
      BY <3>1, <3>2, <3>3, <3>4 DEF CallTyped, Trades
  <2>4. CASE Check(c)
    <3>1. pc[c] = "quoted" /\ pc'[c] \in {"refused", "checked"} /\ req' = req /\ got' = got
      BY <1>2, <2>4 DEF Check, To
    <3>2. QED
      BY <1>3, <3>1 DEF CallTyped, Trades
  <2>5. CASE GiveUp(c)
    <3>1. pc[c] = "committing" /\ broken /\ pc'[c] = "failed" /\ req' = req
      BY <1>2, <2>5 DEF GiveUp, To, AppendFailed
    <3>2. QED
      BY <1>3, <3>1 DEF CallTyped, Trades
  <2>6. CASE Answer(c)
    <3>1. pc[c] = "applied" /\ pc'[c] = "answered" /\ req' = req
      BY <1>2, <2>6 DEF Answer, To
    <3>2. QED
      BY <1>3, <3>1 DEF CallTyped, Trades
  <2>7. CASE Commit(c) /\ log' = log
    <3>1. pc[c] = "checked" /\ pc'[c] \in {"refused", "failed"} /\ req' = req
      <4>1. log' # Append(log, got[c])
        BY <2>7 DEF IInv, Shape
      <4>2. QED
        BY <1>2, <2>7, <4>1 DEF Commit, To, AppendFor
    <3>2. QED
      BY <1>3, <3>1 DEF CallTyped, Trades
  <2>8. QED
    BY <2>1, <2>2, <2>3, <2>4, <2>5, <2>6, <2>7
<1>5. QED
  BY <1>1, <1>4, CallQuiet DEF CallAlone

-----------------------------------------------------------------------------
(* A step of an organiser's that changes neither accounts nor log and      *)
(* leaves what it owes as it was.                                          *)
LEMMA OrgQuiet ==
  ASSUME BooksInv, NEW o \in Organiser,
         UNCHANGED <<ledger, log, price, broken, pc, req, got>>,
         \A p \in Organiser \ {o} : opPc'[p] = opPc[p] /\ op'[p] = op[p],
         OpTyped(o)', avg' \in [Organiser -> Nat],
         ~broken => \A a \in Account, m \in Counted : Share(o, a, m)' = Share(o, a, m)
  PROVE  BooksInv'
<1>1. Typed'
  BY DEF BooksInv, Typed, OpTyped
<1>2. Match'
  <2>1. CASE broken
    BY <2>1 DEF Match
  <2>2. CASE ~broken
    <3>1. o \in Actor
      BY DEF Actor
    <3>2. \A y \in Actor \ {o}, a \in Account, m \in Counted : Share(y, a, m)' = Share(y, a, m)
      BY <3>1, OthersOwe
    <3>3. \A x \in Actor, a \in Account, m \in Counted : Share(x, a, m)' = Share(x, a, m)
      BY <2>2, <3>2
    <3>4. QED
      BY <3>3, StillMatches DEF BooksInv
  <2>3. QED
    BY <2>1, <2>2
<1>3. LawfulLog(log)'
  BY DEF BooksInv
<1>4. Backed'
  BY DEF BooksInv, Backed
<1>5. QED
  BY <1>1, <1>2, <1>3, <1>4 DEF BooksInv

(* What an organiser may ask for, when nobody sets or gives cash. *)
LEMMA Asked ==
  ASSUME NoCredit, NEW w \in Operation
  PROVE  w \in Due \cup HoldOrder
<1>1. w \in Correction /\ w.kind # "set" /\ (w.kind = "cash" => w.delta <= 0)
  BY TradingAssumption DEF NoCredit
<1>2. QED
  BY <1>1 DEF Correction, Due, Withdrawal, CashRecord, GiveRecord, TakeRecord, HoldOrder

(* The difference to what is asked for is some shares to give or take. *)
LEMMA Differs ==
  ASSUME Typed, NEW o \in Organiser, op[o] \in HoldOrder
  PROVE  Difference(o) = Nothing \/ Difference(o) \in Due
<1>1. PICK w : w = op[o]
  OBVIOUS
<1>2. w.kind = "hold" /\ w.acct \in Account /\ w.sym \in Symbol /\ w.qty \in Nat
  BY <1>1 DEF HoldOrder
<1>3. Position(ledger[w.acct], w.sym).qty \in Nat
  BY <1>2, HeldIs DEF Typed, Books
<1>4. PICK n \in Int : n = w.qty - Position(ledger[w.acct], w.sym).qty
  BY <1>2, <1>3
<1>5. price[w.sym] \in Nat
  BY <1>2, TradingAssumption DEF Typed
<1>6. Difference(o) =
        IF n = 0 THEN Nothing
        ELSE IF n > 0 THEN [kind |-> "give", acct |-> w.acct, sym |-> w.sym,
                            qty |-> n, price |-> price[w.sym]]
        ELSE [kind |-> "take", acct |-> w.acct, sym |-> w.sym, qty |-> -n]
  BY <1>1, <1>2, <1>4 DEF Difference, Acct
<1>7. CASE n > 0
  <2>1. Difference(o) \in GiveRecord
    BY <1>2, <1>5, <1>6, <1>7 DEF GiveRecord
  <2>2. QED
    BY <2>1 DEF Due
<1>8. CASE n < 0
  <2>1. -n \in Nat \ {0}
    BY <1>8
  <2>2. Difference(o) \in TakeRecord
    BY <1>2, <1>6, <1>8, <2>1 DEF TakeRecord
  <2>3. QED
    BY <2>2 DEF Due
<1>9. CASE n = 0
  BY <1>6, <1>9
<1>10. QED
  BY <1>7, <1>8, <1>9

(* The average cost of a share is a price. *)
LEMMA AverageType ==
  ASSUME NEW a \in Wallet, NEW s \in Symbol
  PROVE  Average(a, s) \in Nat
<1>1. PICK p : p = Position(a, s) /\ p \in Holding
  BY PositionType
<1>2. p.qty \in Nat /\ p.cost \in Nat
  BY <1>1 DEF Holding
<1>3. p.qty > 0 => p.cost \div p.qty \in Nat
  BY <1>2
<1>4. QED
  BY <1>1, <1>3 DEF Average

(* A request, its measure, the average cost noted, a refusal, a record     *)
(* that is stored.                                                         *)
LEMMA OrgBooks ==
  ASSUME NoCredit, IInv, BooksInv, NEW o \in Organiser,
         \/ Ask(o) \/ Measure(o) \/ NoteAverage(o)
         \/ (AdjustCash(o) \/ Revoke(o)) /\ opPc'[o] = "refused"
         \/ StoreGrant(o) /\ log' = log
         \/ Stored(o) /\ opPc'[o] # "failed"
  PROVE  BooksInv'
<1>1. /\ UNCHANGED <<log, price, broken, pc, req, got>>
      /\ DOMAIN op = Organiser /\ DOMAIN opPc = Organiser
  BY DEF Ask, Measure, NoteAverage, AdjustCash, Revoke, StoreGrant, Stored, memory, disk, calls,
         world, IInv, Shape
<1>2. Typed /\ OpTyped(o)
  BY DEF BooksInv, Typed, OpTyped
<1>3. /\ ledger' = ledger
      /\ \A p \in Organiser \ {o} : opPc'[p] = opPc[p] /\ op'[p] = op[p]
      /\ OpTyped(o)' /\ avg' \in [Organiser -> Nat]
      /\ ~broken => /\ opPc[o] # "changed" /\ opPc'[o] # "changed"
                    /\ opPc[o] \in {"storing", "stored"} /\ op[o].kind = "give"
                          <=> opPc'[o] \in {"storing", "stored"} /\ op'[o].kind = "give"
                    /\ opPc[o] \in {"storing", "stored"} => op'[o] = op[o]
  <2>1. CASE Ask(o)
    <3>1. /\ opPc[o] = "idle" /\ opPc'[o] = "asked" /\ op'[o] \in Operation
          /\ ledger' = ledger /\ avg' = avg
          /\ \A p \in Organiser \ {o} : opPc'[p] = opPc[p] /\ op'[p] = op[p]
      BY <1>1, <2>1 DEF Ask, OpTo, memory
    <3>2. op'[o] \in Due \cup HoldOrder
      BY <3>1, Asked
    <3>3. QED
      BY <1>2, <3>1, <3>2 DEF OpTyped, Typed
  <2>2. CASE Measure(o)
    <3>1. /\ opPc[o] = "asked" /\ op[o].kind \in {"set", "hold"}
          /\ opPc'[o] = (IF Difference(o) = Nothing THEN "done" ELSE "asked")
          /\ op'[o] = Difference(o)
          /\ ledger' = ledger /\ avg' = avg
          /\ \A p \in Organiser \ {o} : opPc'[p] = opPc[p] /\ op'[p] = op[p]
      BY <1>1, <2>2 DEF Measure, OpTo, memory
    <3>2. op[o] \in HoldOrder
      BY <1>2, <3>1 DEF OpTyped, Due, Withdrawal, CashRecord, GiveRecord, TakeRecord
    <3>3. Difference(o) = Nothing \/ Difference(o) \in Due
      BY <1>2, <3>2, Differs
    <3>4. QED
      BY <1>2, <3>1, <3>3 DEF OpTyped, Typed
  <2>3. CASE NoteAverage(o)
    <3>1. /\ opPc[o] = "asked" /\ op[o].kind = "take" /\ opPc'[o] = "noted"
          /\ ledger' = ledger /\ op' = op
          /\ avg' = [avg EXCEPT ![o] = Average(ledger[op[o].acct], op[o].sym)]
          /\ \A p \in Organiser \ {o} : opPc'[p] = opPc[p]
      BY <1>1, <2>3 DEF NoteAverage, OpTo, memory, Acct
    <3>2. op[o] \in TakeRecord
      BY <1>2, <3>1 DEF OpTyped, Due, Withdrawal, CashRecord, GiveRecord, HoldOrder
    <3>3. op[o].acct \in Account /\ op[o].sym \in Symbol
      BY <3>2 DEF TakeRecord
    <3>4. Average(ledger[op[o].acct], op[o].sym) \in Nat
      BY <1>2, <3>3, AverageType DEF Typed, Books
    <3>5. avg' \in [Organiser -> Nat]
      BY <1>2, <3>1, <3>4 DEF Typed
    <3>6. QED
      BY <3>1, <3>2, <3>5 DEF OpTyped
  <2>4. CASE (AdjustCash(o) \/ Revoke(o)) /\ opPc'[o] = "refused"
    <3>1. /\ opPc[o] \in {"asked", "noted"} /\ op' = op /\ avg' = avg /\ ledger' = ledger
          /\ \A p \in Organiser \ {o} : opPc'[p] = opPc[p]
      BY <1>1, <2>4 DEF AdjustCash, Revoke, OpTo
    <3>2. QED
      BY <1>2, <2>4, <3>1 DEF OpTyped, Typed
  <2>5. CASE StoreGrant(o) /\ log' = log
    <3>1. ~AppendFor(o, op[o])
      BY <2>5 DEF AppendFor, IInv, Shape
    <3>2. /\ broken /\ opPc'[o] = "failed" /\ op' = op /\ avg' = avg /\ ledger' = ledger
          /\ \A p \in Organiser \ {o} : opPc'[p] = opPc[p]
      BY <1>1, <2>5, <3>1 DEF StoreGrant, OpTo, memory
    <3>3. QED
      BY <1>2, <3>2 DEF OpTyped, Typed
  <2>6. CASE Stored(o) /\ opPc'[o] # "failed"
    <3>1. /\ opPc[o] = "storing" /\ op' = op /\ avg' = avg /\ ledger' = ledger
          /\ opPc'[o] = (IF op[o].kind = "give" THEN "stored" ELSE "done")
          /\ \A p \in Organiser \ {o} : opPc'[p] = opPc[p]
      BY <1>1, <2>6 DEF Stored, OpTo, Undo
    <3>2. op[o] \in Due
      BY <1>2, <3>1 DEF OpTyped
    <3>3. op[o].kind = "give" => op[o] \in GiveRecord
      BY <3>2 DEF Due, Withdrawal, CashRecord, TakeRecord
    <3>4. QED
      BY <1>2, <3>1, <3>3 DEF OpTyped, Typed
  <2>7. QED
    BY <2>1, <2>2, <2>3, <2>4, <2>5, <2>6
<1>4. ~broken => \A a \in Account, m \in Counted : Share(o, a, m)' = Share(o, a, m)
  BY <1>3, SharesAre, SharesNext DEF Shares
<1>5. QED
  BY <1>1, <1>3, <1>4, OrgQuiet

-----------------------------------------------------------------------------
(* An organiser that changes an account changes one that nobody commits a  *)
(* trade on, and owes the log that from now on or has owed the account.    *)
LEMMA OrgChange ==
  ASSUME IInv, BooksInv, NEW o \in Organiser, NEW r \in Entry,
         UNCHANGED <<log, price, broken, pc, req, got, op, avg>>,
         \A p \in Organiser \ {o} : opPc'[p] = opPc[p],
         OpTyped(o)', ~LedgerLocked(r.acct), Lawful(ledger[r.acct], r),
         ledger' = Entered(ledger, r),
         \A a \in Account, m \in Counted : Share(o, a, m)'
            = Share(o, a, m) + (IF a = r.acct THEN Moves(r, m) ELSE 0)
  PROVE  BooksInv'
<1>1. /\ r.acct \in Account /\ ledger' \in Books
      /\ \A a \in Account : ledger'[a].cash >= 0
      /\ \A a \in Account : a # r.acct => ledger'[a] = ledger[a]
  BY EnteredMoves, EntryEnters DEF BooksInv, Typed
<1>2. Typed'
  BY <1>1 DEF BooksInv, Typed, OpTyped
<1>3. Match'
  <2>1. o \in Actor
    BY DEF Actor
  <2>2. \A y \in Actor \ {o}, a \in Account, m \in Counted : Share(y, a, m)' = Share(y, a, m)
    BY <2>1, OthersOwe
  <2>3. QED
    BY <1>2, <2>1, <2>2, LedgerMatches DEF BooksInv
<1>4. LawfulLog(log)'
  BY DEF BooksInv
<1>5. Backed'
  <2>1. \A c \in Call : pc[c] = "committing" => got[c].acct # r.acct /\ got[c].acct \in Account
    BY DEF IInv, Quoted, Key, LedgerLocked, Trades, BooksInv, Typed, TradeRecord
  <2>2. QED
    BY <1>1, <2>1 DEF BooksInv, Backed
<1>6. QED
  BY <1>2, <1>3, <1>4, <1>5 DEF BooksInv

(* What a record does, by its kind. *)
LEMMA Kinds ==
  ASSUME NEW r \in Entry, NEW a
  PROVE  /\ r \in TradeRecord => r.kind = "trade" /\ After(a, r) = AfterTrade(a, r)
         /\ r \in CashRecord => r.kind = "cash" /\ After(a, r) = AfterCash(a, r.delta)
         /\ r \in GiveRecord => /\ r.kind = "give"
                                /\ After(a, r) = AfterGrant(a, r.sym, r.qty, r.price)
         /\ r \in TakeRecord => r.kind = "take" /\ After(a, r) = AfterRevoke(a, r.sym, r.qty)
         /\ r.acct \in Account
<1>1. /\ r \in TradeRecord => r.kind = "trade" /\ r.acct \in Account
      /\ r \in CashRecord => r.kind = "cash" /\ r.acct \in Account
      /\ r \in GiveRecord => r.kind = "give" /\ r.acct \in Account
      /\ r \in TakeRecord => r.kind = "take" /\ r.acct \in Account
  BY DEF TradeRecord, CashRecord, GiveRecord, TakeRecord
<1>2. QED
  BY <1>1 DEF After, Entry

(* Cash taken, shares taken, shares given at last. *)
LEMMA ChangeBooks ==
  ASSUME IInv, BooksInv, NEW o \in Organiser,
         \/ (AdjustCash(o) \/ Revoke(o)) /\ opPc'[o] # "refused"
         \/ Grant(o)
  PROVE  BooksInv'
<1>1. /\ UNCHANGED <<log, price, broken, pc, req, got, op, avg>>
      /\ DOMAIN opPc = Organiser
      /\ ~LedgerLocked(op[o].acct)
  BY DEF AdjustCash, Revoke, Grant, disk, calls, world, IInv, Shape
<1>2. Typed /\ OpTyped(o) /\ ledger \in Books
  BY DEF BooksInv, Typed, OpTyped
<1>3. PICK r : r = op[o]
  OBVIOUS
<1>4. /\ r \in Entry /\ Lawful(ledger[r.acct], r)
      /\ ledger' = [ledger EXCEPT ![r.acct] = After(@, r)]
      /\ OpTyped(o)'
      /\ \A p \in Organiser \ {o} : opPc'[p] = opPc[p]
      /\ \/ opPc[o] \in {"asked", "noted"} /\ opPc'[o] = "changed"
         \/ opPc[o] = "stored" /\ opPc'[o] = "done" /\ r.kind = "give"
  <2>1. CASE AdjustCash(o) /\ opPc'[o] # "refused"
    <3>1. /\ opPc[o] = "asked" /\ r.kind = "cash" /\ opPc'[o] = "changed"
          /\ Covers(ledger[r.acct], r.delta)
          /\ ledger' = [ledger EXCEPT ![r.acct] = AfterCash(@, r.delta)]
          /\ \A p \in Organiser \ {o} : opPc'[p] = opPc[p]
      BY <1>1, <1>3, <2>1 DEF AdjustCash, OpTo, Acct
    <3>2. r \in Withdrawal /\ r \in CashRecord /\ r \in Entry
      BY <1>2, <1>3, <3>1 DEF OpTyped, Due, Withdrawal, GiveRecord, TakeRecord, HoldOrder, Entry
    <3>3. r.acct \in Account /\ ledger[r.acct] \in Wallet /\ ledger[r.acct].cash >= 0
      BY <1>2, <3>2, Kinds DEF Typed, Books
    <3>4. Lawful(ledger[r.acct], r)
      BY <3>1, <3>2, <3>3, LawfulMeans
    <3>5. After(ledger[r.acct], r) = AfterCash(ledger[r.acct], r.delta)
      BY <3>2, Kinds
    <3>6. QED
      BY <1>1, <1>3, <3>1, <3>2, <3>4, <3>5 DEF OpTyped
  <2>2. CASE Revoke(o) /\ opPc'[o] # "refused"
    <3>1. /\ opPc[o] = "noted" /\ opPc'[o] = "changed"
          /\ Holds(ledger[r.acct], r.sym, r.qty)
          /\ ledger' = [ledger EXCEPT ![r.acct] = AfterRevoke(@, r.sym, r.qty)]
          /\ \A p \in Organiser \ {o} : opPc'[p] = opPc[p]
      BY <1>1, <1>3, <2>2 DEF Revoke, OpTo, Acct
    <3>2. r \in TakeRecord /\ r \in Entry
      BY <1>2, <1>3, <3>1 DEF OpTyped, Entry
    <3>3. r.acct \in Account /\ ledger[r.acct] \in Wallet /\ ledger[r.acct].cash >= 0
      BY <1>2, <3>2, Kinds DEF Typed, Books
    <3>4. Lawful(ledger[r.acct], r)
      BY <3>1, <3>2, <3>3, LawfulMeans
    <3>5. After(ledger[r.acct], r) = AfterRevoke(ledger[r.acct], r.sym, r.qty)
      BY <3>2, Kinds
    <3>6. QED
      BY <1>1, <1>3, <3>1, <3>2, <3>4, <3>5 DEF OpTyped
  <2>3. CASE Grant(o)
    <3>1. /\ opPc[o] = "stored" /\ opPc'[o] = "done"
          /\ ledger' = [ledger EXCEPT ![r.acct] = AfterGrant(@, r.sym, r.qty, r.price)]
          /\ \A p \in Organiser \ {o} : opPc'[p] = opPc[p]
      BY <1>1, <1>3, <2>3 DEF Grant, OpTo
    <3>2. r \in GiveRecord /\ r \in Entry
      BY <1>2, <1>3, <3>1 DEF OpTyped, Entry
    <3>3. Lawful(ledger[r.acct], r)
      BY <3>2, GiveLawful DEF BooksInv
    <3>4. /\ r.kind = "give"
          /\ After(ledger[r.acct], r) = AfterGrant(ledger[r.acct], r.sym, r.qty, r.price)
      BY <3>2, Kinds
    <3>5. QED
      BY <1>1, <1>3, <3>1, <3>2, <3>3, <3>4 DEF OpTyped
  <2>4. QED
    BY <2>1, <2>2, <2>3
<1>5. ledger' = Entered(ledger, r)
  BY <1>4 DEF Entered
<1>6. ASSUME NEW a \in Account, NEW m \in Counted
      PROVE  Share(o, a, m)' = Share(o, a, m) + (IF a = r.acct THEN Moves(r, m) ELSE 0)
  <2>1. Moves(r, m) \in Int /\ op'[o] = r
    BY <1>1, <1>3, <1>4, Counts
  <2>2. CASE opPc[o] \in {"asked", "noted"} /\ opPc'[o] = "changed"
    <3>1. /\ Share(o, a, m) = 0
          /\ Share(o, a, m)' = IF a = r.acct THEN Moves(r, m) ELSE 0
      BY <2>1, <2>2, SharesAre, SharesNext DEF Shares
    <3>2. QED
      BY <2>1, <3>1
  <2>3. CASE opPc[o] = "stored" /\ opPc'[o] = "done" /\ r.kind = "give"
    <3>1. /\ Share(o, a, m) = IF a = r.acct THEN -Moves(r, m) ELSE 0
          /\ Share(o, a, m)' = 0
      BY <1>3, <2>1, <2>3, SharesAre, SharesNext DEF Shares
    <3>2. QED
      BY <2>1, <3>1
  <2>4. QED
    BY <1>4, <2>2, <2>3
<1>7. ~LedgerLocked(r.acct)
  BY <1>1, <1>3
<1>8. QED
  BY <1>1, <1>4, <1>5, <1>6, <1>7, OrgChange

(* The trade is on disk and is applied. *)
LEMMA ApplyBooks ==
  ASSUME IInv, BooksInv, NEW c \in Call, Apply(c)
  PROVE  BooksInv'
<1>1. /\ UNCHANGED <<log, price, broken, opPc, op, avg, req, got>>
      /\ pc[c] = "committing" /\ pc'[c] = "applied"
      /\ \A d \in Call \ {c} : pc'[d] = pc[d]
      /\ ledger' = [ledger EXCEPT ![req[c].acct] = AfterTrade(@, got[c])]
  BY DEF Apply, To, disk, ops, world, IInv, Shape
<1>2. PICK r : r = got[c]
  OBVIOUS
<1>3. /\ r \in TradeRecord /\ r \in Entry /\ r.acct = req[c].acct
      /\ Lawful(ledger[r.acct], r)
  BY <1>1, <1>2 DEF BooksInv, Typed, Trades, Entry, Backed, IInv, Quoted, Key
<1>4. ledger' = Entered(ledger, r)
  <2>1. After(ledger[r.acct], r) = AfterTrade(ledger[r.acct], r)
    BY <1>3, Kinds
  <2>2. QED
    BY <1>1, <1>2, <1>3, <2>1 DEF Entered
<1>5. /\ r.acct \in Account /\ ledger' \in Books
      /\ \A a \in Account : ledger'[a].cash >= 0
      /\ \A a \in Account : a # r.acct => ledger'[a] = ledger[a]
  BY <1>3, <1>4, EnteredMoves, EntryEnters DEF BooksInv, Typed
<1>6. Typed'
  <2>1. \A d \in Call : pc'[d] # "idle" => pc[d] # "idle"
    BY <1>1
  <2>2. \A d \in Call : pc'[d] \in Trades => pc[d] \in Trades
    BY <1>1 DEF Trades
  <2>3. QED
    BY <1>1, <1>5, <2>1, <2>2 DEF BooksInv, Typed
<1>7. Match'
  <2>1. c \in Actor
    BY DEF Actor
  <2>2. \A y \in Actor \ {c}, a \in Account, m \in Counted : Share(y, a, m)' = Share(y, a, m)
    BY <1>1, <2>1, OthersOwe
  <2>3. ASSUME NEW a \in Account, NEW m \in Counted
        PROVE  Share(c, a, m)' = Share(c, a, m) + (IF a = r.acct THEN Moves(r, m) ELSE 0)
    <3>1. Moves(r, m) \in Int
      BY <1>3, Counts
    <3>2. /\ Share(c, a, m) = IF a = r.acct THEN -Moves(r, m) ELSE 0
          /\ Share(c, a, m)' = 0
      BY <1>1, <1>2, SharesAre, SharesNext DEF Shares
    <3>3. QED
      BY <3>1, <3>2
  <2>4. QED
    BY <1>1, <1>3, <1>4, <1>6, <2>1, <2>2, <2>3, LedgerMatches DEF BooksInv
<1>8. LawfulLog(log)'
  BY <1>1 DEF BooksInv
<1>9. Backed'
  <2>1. \A d \in Call : pc'[d] = "committing" => d # c /\ pc[d] = "committing"
    BY <1>1
  <2>2. \A d \in Call : pc'[d] = "committing" => got[d].acct # r.acct /\ got[d].acct \in Account
    BY <1>1, <1>3, <2>1 DEF IInv, Quoted, Alone, Key, Trades, BooksInv, Typed, TradeRecord
  <2>3. QED
    BY <1>1, <1>5, <2>1, <2>2 DEF BooksInv, Backed
<1>10. QED
  BY <1>6, <1>7, <1>8, <1>9 DEF BooksInv

(* What could not be stored is undone: the log is broken, and what the     *)
(* account gets back it had.                                               *)
LEMMA UndoBooks ==
  ASSUME IInv, BooksInv, NEW o \in Organiser,
         \/ Store(o) /\ log' = log
         \/ Stored(o) /\ opPc'[o] = "failed"
  PROVE  BooksInv'
<1>1. /\ UNCHANGED <<log, price, broken, pc, req, got, op, avg>>
      /\ DOMAIN opPc = Organiser /\ Typed /\ OpTyped(o) /\ ledger \in Books
  BY DEF Store, Stored, disk, calls, world, IInv, Shape, BooksInv, Typed, OpTyped
<1>2. /\ broken /\ opPc[o] \in {"changed", "storing"} /\ opPc'[o] = "failed"
      /\ \A p \in Organiser \ {o} : opPc'[p] = opPc[p]
      /\ \/ ledger' = ledger
         \/ /\ op[o].kind # "give" \/ opPc[o] = "changed"
            /\ ~LedgerLocked(op[o].acct)
            /\ ledger' = [ledger EXCEPT ![op[o].acct] = Undone(o)]
  <2>1. CASE Store(o) /\ log' = log
    <3>1. ~AppendFor(o, op[o])
      BY <2>1 DEF AppendFor, IInv, Shape
    <3>2. opPc[o] = "changed" /\ broken /\ Undo(o)
      BY <2>1, <3>1 DEF Store
    <3>3. QED
      BY <1>1, <3>2 DEF Undo, OpTo
  <2>2. CASE Stored(o) /\ opPc'[o] = "failed"
    <3>1. /\ opPc[o] = "storing" /\ broken
          /\ IF op[o].kind = "give" THEN OpTo(o, "failed") /\ UNCHANGED ledger ELSE Undo(o)
      BY <1>1, <2>2 DEF Stored, AppendFailed, OpTo
    <3>2. QED
      BY <1>1, <3>1 DEF Undo, OpTo
  <2>3. QED
    BY <2>1, <2>2
<1>3. PICK r : r = op[o]
  OBVIOUS
<1>4. ASSUME ledger' # ledger
      PROVE  /\ r.acct \in Account /\ ~LedgerLocked(r.acct)
             /\ \E w \in Wallet : w.cash >= 0 /\ ledger' = [ledger EXCEPT ![r.acct] = w]
  <2>1. /\ op[o].kind # "give" \/ opPc[o] = "changed"
        /\ ~LedgerLocked(r.acct)
        /\ ledger' = [ledger EXCEPT ![r.acct] = Undone(o)]
    BY <1>2, <1>3, <1>4
  <2>2. r \in Withdrawal \cup TakeRecord
    BY <1>1, <1>2, <1>3, <2>1 DEF OpTyped, Due, GiveRecord
  <2>3. r \in Entry /\ r.acct \in Account
    <3>1. r \in Entry
      BY <2>2 DEF Entry, Withdrawal
    <3>2. QED
      BY <3>1, Kinds
  <2>4. PICK a \in Wallet : a = ledger[r.acct] /\ a.cash >= 0
    BY <1>1, <2>3 DEF Typed, Books
  <2>5. CASE r \in Withdrawal
    <3>1. PICK d \in Int : d = -r.delta /\ d >= 0
      BY <2>5 DEF Withdrawal, CashRecord
    <3>2. r.kind = "cash"
      BY <2>5 DEF Withdrawal, CashRecord
    <3>3. Undone(o) = AfterCash(a, d)
      BY <1>3, <2>4, <3>1, <3>2 DEF Undone, Acct
    <3>4. AfterCash(a, d) \in Wallet /\ AfterCash(a, d).cash = a.cash + d /\ a.cash \in Int
      BY <3>1, CashMoves, HeldIs
    <3>5. AfterCash(a, d).cash >= 0
      BY <2>4, <3>1, <3>4
    <3>6. QED
      BY <2>1, <2>3, <3>3, <3>4, <3>5
  <2>6. CASE r \in TakeRecord
    <3>1. PICK s \in Symbol, n \in Nat, v \in Nat : s = r.sym /\ n = r.qty /\ v = avg[o]
      BY <1>1, <2>6 DEF TakeRecord, Typed
    <3>2. r.kind = "take"
      BY <2>6 DEF TakeRecord
    <3>3. Undone(o) = AfterGrant(a, s, n, v)
      BY <1>3, <2>4, <3>1, <3>2 DEF Undone, Acct
    <3>4. AfterGrant(a, s, n, v) \in Wallet /\ AfterGrant(a, s, n, v).cash = a.cash
      BY SharesCome
    <3>5. QED
      BY <2>1, <2>3, <2>4, <3>3, <3>4
  <2>7. QED
    BY <2>2, <2>5, <2>6
<1>5. /\ ledger' \in Books
      /\ \A a \in Account : ledger'[a].cash >= 0
      /\ \A a \in Account : LedgerLocked(a) => ledger'[a] = ledger[a]
  <2>1. CASE ledger' = ledger
    BY <1>1, <2>1 DEF Typed
  <2>2. CASE ledger' # ledger
    <3>1. PICK w \in Wallet : w.cash >= 0 /\ ledger' = [ledger EXCEPT ![r.acct] = w]
      BY <1>4, <2>2
    <3>2. r.acct \in Account /\ ~LedgerLocked(r.acct)
      BY <1>4, <2>2
    <3>3. QED
      BY <1>1, <3>1, <3>2 DEF Typed, Books
  <2>3. QED
    BY <2>1, <2>2
<1>6. Typed'
  <2>1. OpTyped(o)'
    BY <1>2 DEF OpTyped
  <2>2. QED
    BY <1>1, <1>2, <1>5, <2>1 DEF Typed, OpTyped
<1>7. Match'
  BY <1>1, <1>2 DEF Match
<1>8. LawfulLog(log)'
  BY <1>1 DEF BooksInv
<1>9. Backed'
  <2>1. \A c \in Call : pc[c] = "committing" =>
           LedgerLocked(got[c].acct) /\ got[c].acct \in Account
    BY DEF IInv, Quoted, Key, Trades, LedgerLocked, BooksInv, Typed, TradeRecord
  <2>2. QED
    BY <1>1, <1>5, <2>1 DEF BooksInv, Backed
<1>10. QED
  BY <1>6, <1>7, <1>8, <1>9 DEF BooksInv

-----------------------------------------------------------------------------
(* The log takes a lawful record, which x owes the account from now on, or *)
(* has owed the log.                                                       *)
LEMMA AppendBooks ==
  ASSUME BooksInv, NEW x \in Actor, NEW r \in Entry,
         UNCHANGED <<ledger, price, broken, req, got, op, avg>>, log' = Append(log, r),
         \A d \in Call \ {x} : pc'[d] = pc[d],
         \A p \in Organiser \ {x} : opPc'[p] = opPc[p],
         \A c \in Call : CallTyped(c)', \A o \in Organiser : OpTyped(o)',
         Lawful(Book(log)[r.acct], r), Backed',
         \A a \in Account, m \in Counted : Share(x, a, m)'
            = Share(x, a, m) - (IF a = r.acct THEN Moves(r, m) ELSE 0)
  PROVE  BooksInv'
<1>1. Typed'
  <2>1. log' \in Seq(Entry)
    BY DEF BooksInv, Typed
  <2>2. QED
    BY <2>1 DEF BooksInv, Typed, CallTyped, OpTyped
<1>2. Match'
  <2>1. \A y \in Actor \ {x}, a \in Account, m \in Counted : Share(y, a, m)' = Share(y, a, m)
    BY OthersOwe
  <2>2. QED
    BY <1>1, <2>1, LogMatches DEF BooksInv
<1>3. LawfulLog(log')
  BY LogGrows DEF BooksInv, Typed
<1>4. QED
  BY <1>1, <1>2, <1>3 DEF BooksInv

(* A trade is appended while no other is being committed on its account.   *)
LEMMA CommitBooks ==
  ASSUME IInv, BooksInv, NEW c \in Call, Commit(c), log' # log
  PROVE  BooksInv'
<1>1. /\ UNCHANGED <<ledger, price, broken, opPc, req, got, op, avg>>
      /\ pc[c] = "checked" /\ pc'[c] = "committing" /\ ~broken
      /\ \A d \in Call \ {c} : pc'[d] = pc[d]
      /\ log' = Append(log, got[c]) /\ TradeAllowed(ledger[req[c].acct], got[c])
      /\ ~LedgerLocked(req[c].acct)
  BY DEF Commit, To, AppendFor, memory, ops, world, IInv, Shape
<1>2. PICK r : r = got[c]
  OBVIOUS
<1>3. r \in TradeRecord /\ r \in Entry /\ r.acct = req[c].acct /\ r.acct \in Account
  BY <1>1, <1>2 DEF BooksInv, Typed, Trades, Entry, IInv, Quoted, Key, TradeRecord
<1>4. Lawful(ledger[r.acct], r)
  <2>1. ledger[r.acct] \in Wallet /\ ledger[r.acct].cash >= 0
    BY <1>3 DEF BooksInv, Typed, Books
  <2>2. QED
    BY <1>1, <1>2, <1>3, <2>1, LawfulMeans
<1>5. \A d \in Call : ~(pc[d] = "committing" /\ got[d].acct = r.acct)
  BY <1>1, <1>3 DEF LedgerLocked, IInv, Quoted, Key, Trades
<1>6. Lawful(Book(log)[r.acct], r)
  BY <1>1, <1>3, <1>4, <1>5, CommitLawful DEF BooksInv
<1>7. \A d \in Call : CallTyped(d)'
  <2>1. \A d \in Call : /\ pc'[d] # "idle" => pc[d] # "idle"
                        /\ pc'[d] \in Trades => pc[d] \in Trades
    BY <1>1 DEF Trades
  <2>2. QED
    BY <1>1, <2>1 DEF CallTyped, BooksInv, Typed
<1>8. \A o \in Organiser : OpTyped(o)'
  BY <1>1 DEF OpTyped, BooksInv, Typed
<1>9. Backed'
  BY <1>1, <1>2, <1>4 DEF BooksInv, Backed
<1>10. ASSUME NEW a \in Account, NEW m \in Counted
       PROVE  Share(c, a, m)' = Share(c, a, m) - (IF a = r.acct THEN Moves(r, m) ELSE 0)
  <2>1. Moves(r, m) \in Int
    BY <1>3, Counts
  <2>2. /\ Share(c, a, m) = 0
        /\ Share(c, a, m)' = IF a = r.acct THEN -Moves(r, m) ELSE 0
    BY <1>1, <1>2, SharesAre, SharesNext DEF Shares
  <2>3. QED
    BY <2>1, <2>2
<1>11. c \in Actor
  BY DEF Actor
<1>12. QED
  BY <1>1, <1>2, <1>3, <1>6, <1>7, <1>8, <1>9, <1>10, <1>11, AppendBooks

(* A correction that has been made, or a grant that is to be made, is      *)
(* appended.                                                               *)
LEMMA StoreBooks ==
  ASSUME IInv, BooksInv, NEW o \in Organiser, Store(o) \/ StoreGrant(o), log' # log
  PROVE  BooksInv'
<1>1. PICK r : r = op[o]
  OBVIOUS
<1>2. /\ UNCHANGED <<ledger, price, broken, pc, req, got, op, avg>>
      /\ opPc'[o] = "storing" /\ ~broken /\ log' = Append(log, r)
      /\ \A p \in Organiser \ {o} : opPc'[p] = opPc[p]
      /\ \/ opPc[o] = "changed"
         \/ opPc[o] = "asked" /\ r.kind = "give"
  BY <1>1 DEF Store, StoreGrant, OpTo, AppendFor, memory, calls, world, IInv, Shape
<1>3. OpTyped(o) /\ Typed
  BY DEF BooksInv, Typed, OpTyped
<1>4. /\ r \in Entry /\ r \in Due /\ Lawful(Book(log)[r.acct], r)
      /\ opPc[o] = "changed" => r.kind # "give"
  <2>1. CASE opPc[o] = "changed"
    <3>1. r \in Withdrawal \cup TakeRecord
      BY <1>1, <1>3, <2>1 DEF OpTyped
    <3>2. r \in Due /\ r.kind # "give"
      BY <3>1 DEF Due, Withdrawal, CashRecord, TakeRecord
    <3>3. QED
      BY <1>1, <1>2, <2>1, <3>2, StoreLawful DEF BooksInv, IInv
  <2>2. CASE opPc[o] = "asked" /\ r.kind = "give"
    <3>1. r \in GiveRecord
      BY <1>1, <1>3, <2>2 DEF OpTyped, Due, Withdrawal, CashRecord, TakeRecord, HoldOrder
    <3>2. QED
      BY <2>2, <3>1, GiveLawful DEF BooksInv, Due
  <2>3. QED
    BY <1>2, <2>1, <2>2
<1>5. \A d \in Call : CallTyped(d)'
  BY <1>2 DEF CallTyped, BooksInv, Typed
<1>6. \A p \in Organiser : OpTyped(p)'
  <2>1. OpTyped(o)'
    BY <1>1, <1>2, <1>4 DEF OpTyped
  <2>2. QED
    BY <1>2, <2>1 DEF OpTyped, BooksInv, Typed
<1>7. Backed'
  BY <1>2 DEF BooksInv, Backed
<1>8. ASSUME NEW a \in Account, NEW m \in Counted
      PROVE  Share(o, a, m)' = Share(o, a, m) - (IF a = r.acct THEN Moves(r, m) ELSE 0)
  <2>1. Moves(r, m) \in Int
    BY <1>4, Counts
  <2>2. CASE opPc[o] = "changed"
    <3>1. /\ Share(o, a, m) = IF a = r.acct THEN Moves(r, m) ELSE 0
          /\ Share(o, a, m)' = 0
      BY <1>1, <1>2, <1>4, <2>2, SharesAre, SharesNext DEF Shares
    <3>2. QED
      BY <2>1, <3>1
  <2>3. CASE opPc[o] = "asked" /\ r.kind = "give"
    <3>1. /\ Share(o, a, m) = 0
          /\ Share(o, a, m)' = IF a = r.acct THEN -Moves(r, m) ELSE 0
      BY <1>1, <1>2, <2>3, SharesAre, SharesNext DEF Shares
    <3>2. QED
      BY <2>1, <3>1
  <2>4. QED
    BY <1>2, <2>2, <2>3
<1>9. o \in Actor
  BY DEF Actor
<1>10. QED
  BY <1>2, <1>4, <1>5, <1>6, <1>7, <1>8, <1>9, AppendBooks

-----------------------------------------------------------------------------
(* The market, the disk, and a log that breaks. *)
LEMMA WorldBooks ==
  ASSUME IInv, BooksInv, PriceMove \/ Sync \/ Break
  PROVE  BooksInv'
<1>1. /\ UNCHANGED <<ledger, log, pc, req, got, opPc, op, avg>>
      /\ price' \in PriceTable /\ (~broken' => ~broken)
  BY DEF PriceMove, Sync, Break, memory, disk, actors, calls, ops, world, BooksInv, Typed
<1>2. Typed'
  BY <1>1 DEF BooksInv, Typed
<1>3. Match'
  <2>1. \A x \in Actor, a \in Account, m \in Counted : Share(x, a, m)' = Share(x, a, m)
    BY <1>1 DEF Share, Early, Late, Rec
  <2>2. QED
    BY <1>1, <2>1, StillMatches DEF BooksInv
<1>4. LawfulLog(log)' /\ Backed'
  BY <1>1 DEF BooksInv, Backed
<1>5. QED
  BY <1>2, <1>3, <1>4 DEF BooksInv

(* A restart leaves the accounts as the rest of the log says.              *)
LEMMA RestartBooks ==
  ASSUME IInv, BooksInv, Kill \/ PowerCut
  PROVE  BooksInv'
<1>1. PICK n : n \in 0 .. Len(log) /\ Restart(n)
  BY DEF Kill, PowerCut, IInv, Shape
<1>2. /\ log \in Seq(Entry) /\ LawfulLog(log) /\ Typed
  BY DEF BooksInv, Typed
<1>3. /\ log' = SubSeq(log, 1, n) /\ ledger' = Book(log')
      /\ req' = req /\ got' = got /\ op' = op /\ avg' = avg /\ price' = price
  BY <1>1 DEF Restart, Book, Opening
<1>4. \A c \in Call : pc'[c] \notin Trades /\ (pc'[c] # "idle" => pc[c] # "idle")
  BY <1>1 DEF Restart, Trades
<1>5. \A o \in Organiser : opPc'[o] \in {"idle", "done", "refused", "failed", "lost"}
  BY <1>1 DEF Restart
<1>6. log' \in Seq(Entry) /\ LawfulLog(log') /\ ledger' \in Books
  BY <1>1, <1>2, <1>3, LogParts, LogCut, Replaying
<1>7. \A a \in Account : ledger'[a].cash >= 0
  BY <1>1, <1>2, <1>3, BookSolvent
<1>8. Typed'
  BY <1>2, <1>3, <1>4, <1>5, <1>6, <1>7 DEF Typed
<1>9. Match'
  <2> SUFFICES ASSUME NEW a \in Account, NEW m \in Counted
               PROVE  Held(ledger'[a], m) = Held(Book(log')[a], m) + Total(Owed(a, m)')
    BY DEF Match
  <2>1. PICK h : h = Owed(a, m)'
    OBVIOUS
  <2>2. IsFiniteSet(Actor) /\ h \in [Actor -> Int]
    <3>1. Owed(a, m)' \in [Actor -> Int]
      BY <1>8, OwedNext DEF Numbered
    <3>2. QED
      BY <2>1, <3>1, TradingAssumption DEF Actor
  <2>3. ASSUME NEW x \in Actor PROVE h[x] = 0
    <3>1. h[x] = Share(x, a, m)'
      BY <2>1 DEF Owed
    <3>2. CASE x \in Call
      BY <1>4, <3>1, <3>2, SharesNext DEF Shares, Trades
    <3>3. CASE x \in Organiser
      BY <1>5, <3>1, <3>3, SharesNext DEF Shares
    <3>4. QED
      BY <3>2, <3>3 DEF Actor
  <2>4. Total(h) = 0
    BY <2>2, <2>3, TotalZero
  <2>5. Held(ledger'[a], m) \in Int
    BY <1>6, Counts DEF Books
  <2>6. QED
    BY <1>3, <2>1, <2>4, <2>5
<1>10. Backed'
  BY <1>4 DEF Backed, Trades
<1>11. QED
  BY <1>6, <1>8, <1>9, <1>10 DEF BooksInv

(* Every step keeps the books in order. *)
LEMMA NextBooks ==
  NoCredit /\ IInv /\ BooksInv /\ [Next]_vars => BooksInv'
<1> SUFFICES ASSUME NoCredit, IInv, BooksInv, [Next]_vars PROVE BooksInv'
  OBVIOUS
<1>1. CASE UNCHANGED vars
  <2>1. UNCHANGED <<ledger, log, price, broken, pc, req, got, opPc, op, avg>>
    BY <1>1 DEF vars, memory, disk, actors, calls, ops, world
  <2>2. \A x \in Actor, a \in Account, m \in Counted : Share(x, a, m)' = Share(x, a, m)
    BY <2>1 DEF Share, Early, Late, Rec
  <2>3. Match'
    BY <2>1, <2>2, StillMatches DEF BooksInv
  <2>4. Typed' /\ LawfulLog(log)' /\ Backed'
    BY <2>1 DEF BooksInv, Typed, Backed
  <2>5. QED
    BY <2>3, <2>4 DEF BooksInv
<1>2. ASSUME NEW c \in Call, Arrive(c) \/ CallStep(c) PROVE BooksInv'
  <2>1. CASE \/ Arrive(c) \/ Repeat(c) \/ Quote(c) \/ Check(c) \/ GiveUp(c) \/ Answer(c)
             \/ Commit(c) /\ log' = log
    BY <2>1, CallBooks
  <2>2. CASE Commit(c) /\ log' # log
    BY <2>2, CommitBooks
  <2>3. CASE Apply(c)
    BY <2>3, ApplyBooks
  <2>4. QED
    BY <1>2, <2>1, <2>2, <2>3 DEF CallStep
<1>3. ASSUME NEW o \in Organiser, Ask(o) \/ OpStep(o) PROVE BooksInv'
  <2>1. CASE \/ Ask(o) \/ Measure(o) \/ NoteAverage(o)
             \/ (AdjustCash(o) \/ Revoke(o)) /\ opPc'[o] = "refused"
             \/ StoreGrant(o) /\ log' = log
             \/ Stored(o) /\ opPc'[o] # "failed"
    BY <2>1, OrgBooks
  <2>2. CASE \/ (AdjustCash(o) \/ Revoke(o)) /\ opPc'[o] # "refused"
             \/ Grant(o)
    BY <2>2, ChangeBooks
  <2>3. CASE \/ Store(o) /\ log' = log
             \/ Stored(o) /\ opPc'[o] = "failed"
    BY <2>3, UndoBooks
  <2>4. CASE (Store(o) \/ StoreGrant(o)) /\ log' # log
    BY <2>4, StoreBooks
  <2>5. QED
    BY <1>3, <2>1, <2>2, <2>3, <2>4 DEF OpStep
<1>4. CASE PriceMove \/ Sync \/ Break
  BY <1>4, WorldBooks
<1>5. CASE Kill \/ PowerCut
  BY <1>5, RestartBooks
<1>6. QED
  BY <1>1, <1>2, <1>3, <1>4, <1>5 DEF Next

(* The books are in order as long as nobody is given cash. *)
LEMMA BooksHold == NoCredit /\ Spec => []BooksInv
<1> SUFFICES ASSUME NoCredit PROVE Spec => []BooksInv
  OBVIOUS
<1>1. IInv /\ BooksInv /\ [Next]_vars => BooksInv'
  BY NextBooks
<1>2. QED
  BY InitBooks, Inductive, <1>1, PTL DEF Spec

-----------------------------------------------------------------------------
(* The books that are in order are what BooksStand says they are. *)
LEMMA NeverBelow ==
  ASSUME BooksInv
  PROVE  NeverNegative
<1>1. ASSUME NEW a \in Account, NEW s \in DOMAIN ledger[a].pos
      PROVE  ledger[a].pos[s].qty >= 0 /\ ledger[a].pos[s].cost >= 0
  <2>1. ledger[a] \in Wallet
    BY DEF BooksInv, Typed, Books
  <2>2. ledger[a].pos[s] \in Holding
    BY <2>1 DEF Wallet
  <2>3. QED
    BY <2>2 DEF Holding
<1>2. QED
  BY <1>1 DEF NeverNegative, BooksInv, Typed

(* A restart stops at no record. *)
LEMMA LogReplays ==
  ASSUME BooksInv
  PROVE  StartsAgain
<1> SUFFICES ASSUME NEW n \in 0 .. Len(log) - 1
             PROVE  Replayable(Book(SubSeq(log, 1, n))[log[n + 1].acct], log[n + 1])
  BY DEF StartsAgain, Book, Opening
<1>1. PICK b, r : b = Book(SubSeq(log, 1, n)) /\ r = log[n + 1]
  OBVIOUS
<1>2. log \in Seq(Entry) /\ n \in 0 .. Len(log) /\ n + 1 \in 1 .. Len(log)
  BY DEF BooksInv, Typed
<1>3. b \in Books /\ r \in Entry
  BY <1>1, <1>2, LogParts, Replaying
<1>4. r.acct \in Account /\ b[r.acct].cash >= 0
  BY <1>1, <1>2, <1>3, BookSolvent, Kinds DEF BooksInv
<1>5. Lawful(b[r.acct], r)
  BY <1>1 DEF BooksInv, LawfulLog, LawfulAt
<1>6. r.kind = "take" => r \in TakeRecord
  BY <1>3 DEF Entry, TradeRecord, CashRecord, GiveRecord
<1>7. r.kind = "take" => Holds(b[r.acct], r.sym, r.qty)
  BY <1>3, <1>4, <1>5, <1>6, LawfulMeans DEF Books
<1>8. QED
  BY <1>1, <1>7 DEF Replayable, Holds

(* What a restart would rebuild is what there is. *)
LEMMA RebuiltMatches ==
  ASSUME IInv, BooksInv
  PROVE  ReplayMatches
<1> SUFFICES ASSUME NEW a \in Account, Settled(a)
             PROVE  Balances(ledger[a]) = Balances(Book(log)[a])
  BY DEF ReplayMatches, Book, Opening
<1>1. ~broken /\ Typed
  BY DEF Settled, BooksInv
<1>2. ASSUME NEW m \in Counted PROVE Held(ledger[a], m) = Held(Book(log)[a], m)
  <2>1. IsFiniteSet(Actor) /\ Owed(a, m) \in [Actor -> Int]
    BY <1>1, OwedType
  <2>2. ASSUME NEW x \in Actor PROVE Owed(a, m)[x] = 0
    <3>1. CASE x \in Call
      <4>1. ~(pc[x] = "committing" /\ got[x].acct = a)
        <5> SUFFICES ASSUME pc[x] = "committing", got[x].acct = a PROVE FALSE
          OBVIOUS
        <5>1. req[x].acct = a /\ req[x] \in Request
          BY <1>1, <3>1 DEF IInv, Quoted, Trades, Key, Typed
        <5>2. req[x] # Nothing
          BY <5>1, TradingAssumption DEF Nothing
        <5>3. QED
          BY <3>1, <5>1, <5>2 DEF Settled
      <4>2. QED
        BY <3>1, <4>1, SharesAre DEF Owed, Shares, Actor
    <3>2. CASE x \in Organiser
      <4>1. ~(opPc[x] \in {"changed", "storing", "stored"} /\ op[x].acct = a)
        <5> SUFFICES ASSUME opPc[x] \in {"changed", "storing", "stored"}, op[x].acct = a
                     PROVE  FALSE
          OBVIOUS
        <5>1. op[x] \in Due
          BY <1>1, <3>2 DEF Typed, Due
        <5>2. op[x] # Nothing
          BY <5>1 DEF Due, Withdrawal, CashRecord, GiveRecord, TakeRecord, Nothing
        <5>3. QED
          BY <3>2, <5>2 DEF Settled, OpEnded
      <4>2. QED
        BY <3>2, <4>1, SharesAre DEF Owed, Shares, Actor
    <3>3. QED
      BY <3>1, <3>2 DEF Actor
  <2>3. Total(Owed(a, m)) = 0
    BY <2>1, <2>2, TotalZero
  <2>4. Held(Book(log)[a], m) \in Int
    BY <1>1, Replaying, Counts DEF Typed, Books
  <2>5. QED
    BY <1>1, <2>3, <2>4 DEF BooksInv, Match
<1>3. ledger[a] \in Wallet /\ Book(log)[a] \in Wallet
  BY <1>1, Replaying DEF Typed, Books
<1>4. ledger[a].cash = Book(log)[a].cash
  BY <1>2, <1>3, HeldIs, Counts
<1>5. \A s \in Symbol : Position(ledger[a], s).qty = Position(Book(log)[a], s).qty
  BY <1>2, <1>3, HeldIs, Counts
<1>6. QED
  BY <1>4, <1>5 DEF Balances

(* The books balance: with any accounts, calls, organisers and requests    *)
(* that give nobody cash, nothing is below zero, a restart stops at no     *)
(* record, and what it would rebuild is what there is, wherever the        *)
(* server is killed (Ledger.Trade, AdjustCash, Revoke, restore).           *)
THEOREM BooksBalance == NoCredit /\ Spec => []BooksStand
<1> SUFFICES ASSUME NoCredit PROVE Spec => []BooksStand
  OBVIOUS
<1>1. IInv /\ BooksInv => BooksStand
  BY NeverBelow, LogReplays, RebuiltMatches DEF BooksStand
<1>2. QED
  BY BooksHold, Inductive, <1>1, PTL

-----------------------------------------------------------------------------
(* The accounts of the promise. *)
LEMMA SameAfter == ASSUME NEW a, NEW r PROVE Promise!After(a, r) = After(a, r)
BY DEF Promise!After, After, Promise!AfterTrade, AfterTrade, Promise!AfterCash, AfterCash,
   Promise!AfterGrant, AfterGrant, Promise!AfterRevoke, AfterRevoke, Promise!With, With,
   Promise!Without, Without, Promise!Position, Position, Promise!WithPosition, WithPosition

(* Replaying in the promise is the same fold ... *)
LEMMA PromisedFolds ==
  ASSUME NEW b \in Books, NEW l \in Seq(Entry)
  PROVE  Promise!Replayed(b, l) = Folded(BookStep, b, l)
<1> DEFINE E(w, r) == [w EXCEPT ![r.acct] = Promise!After(@, r)]
           It(h) == h = [d \in SUBSET (DOMAIN l) |->
                           IF d = {} THEN b ELSE E(h[d \ {Max(d)}], l[Max(d)])]
           it == CHOOSE h : h = [d \in SUBSET (DOMAIN l) |->
                           IF d = {} THEN b ELSE E(h[d \ {Max(d)}], l[Max(d)])]
<1>1. \A w, r : E(w, r) = Entered(w, r)
  BY SameAfter DEF Entered
<1>2. \A h : It(h) <=> Recurs(b, l, h)
  <2> HIDE DEF E
  <2>1. QED
    BY <1>1 DEF Recurs
<1>3. PICK f : It(f)
  BY <1>2, RecursFolds
<1>4. It(it)
  BY <1>3
<1>5. Promise!Replayed(b, l) = it[DOMAIN l]
  BY DEF Promise!Replayed, Max, Promise!Max, Promise!FoldLeft, Promise!MapThenFoldSet
<1>6. PICK g : g = it /\ It(g)
  BY <1>4
<1> HIDE DEF it
<1>7. Recurs(b, l, g)
  BY <1>2, <1>6
<1>8. QED
  BY <1>5, <1>6, <1>7, RecursFolds

(* ... so its accounts are those the log says there are. *)
LEMMA PromisedBook ==
  ASSUME NEW l \in Seq(Entry)
  PROVE  Promise!Replayed(Opening, l) = Book(l)
BY PromisedFolds, ReplayFolds, OpeningType DEF Book

-----------------------------------------------------------------------------
(* The trades people were told of, by those who made them. *)
Reporting(c) == pc[c] = "answered" /\ got[c].by = c
Reported     == {got[c] : c \in {d \in Call : Reporting(d)}}

(* A step that does not touch those leaves them alone. *)
LEMMA ReportsStand ==
  ASSUME \A c \in Call : /\ Reporting(c)' <=> Reporting(c)
                         /\ Reporting(c) => got'[c] = got[c]
  PROVE  Reported' = Reported
<1>1. \A c \in Call : Reporting(c)' => Reporting(c)
  BY DEF Reporting
<1>2. \A c \in Call : Reporting(c) => Reporting(c)'
  BY DEF Reporting
<1>3. \A c \in Call : Reporting(c) => got'[c] = got[c]
  BY DEF Reporting
<1>4. QED
  BY <1>1, <1>2, <1>3 DEF Reported, Reporting

(* A step of the promise that neither tells nor changes anything. *)
LEMMA Stutters ==
  ASSUME log' = log, Reported' = Reported
  PROVE  UNCHANGED Promise!vars
BY DEF Promise!vars, Reported, Reporting

(* A record that is appended is legal where it enters the book. *)
LEMMA Enters ==
  ASSUME IInv, IInv', BooksInv, BooksInv', NEW r, log' = Append(log, r), Reported' = Reported
  PROVE  Promise!Next
<1>1. log \in Seq(Entry) /\ log' \in Seq(Entry) /\ Len(log) \in Nat
  BY DEF BooksInv, Typed
<1>2. /\ Len(log') = Len(log) + 1 /\ log'[Len(log) + 1] = r
      /\ \A i \in 1 .. Len(log) : log'[i] = log[i]
      /\ SubSeq(log', 1, Len(log)) = log
  BY <1>1
<1>3. r \in Entry
  BY <1>1, <1>2
<1>4. Lawful(Book(log)[r.acct], r)
  <2>1. LawfulAt(log', Len(log))
    BY <1>1, <1>2 DEF BooksInv, LawfulLog
  <2>2. QED
    BY <1>2, <2>1 DEF LawfulAt
<1>5. PICK a : a = Book(log)[r.acct]
  OBVIOUS
<1>6. a \in Wallet /\ a.cash >= 0
  <2>1. r.acct \in Account /\ Book(log) \in Books
    BY <1>1, <1>3, Kinds, Replaying
  <2>2. Len(log) \in 0 .. Len(log) /\ SubSeq(log, 1, Len(log)) = log
    BY <1>1
  <2>3. Book(log)[r.acct].cash >= 0
    BY <1>1, <2>1, <2>2, BookSolvent DEF BooksInv
  <2>4. QED
    BY <1>5, <2>1, <2>3 DEF Books
<1>7. Promise!Accounts[r.acct] = a
  BY <1>1, <1>5, PromisedBook DEF Promise!Accounts, Opening, Opened, Promise!Opened
<1>8. r.kind = "trade" => Promise!Fresh(r)
  <2> SUFFICES ASSUME r.kind = "trade", NEW i \in 1 .. Len(log), log[i].kind = "trade",
                      log[i].acct = r.acct, log[i].cid = r.cid
               PROVE  FALSE
    BY DEF Promise!Fresh
  <2>1. /\ i \in 1 .. Len(log') /\ Len(log) + 1 \in 1 .. Len(log')
        /\ log'[i].kind = "trade" /\ log'[Len(log) + 1].kind = "trade"
        /\ Key(log'[i]) = Key(log'[Len(log) + 1])
    BY <1>1, <1>2 DEF Key
  <2>2. i = Len(log) + 1
    BY <2>1 DEF IInv, OnceOnly, Key
  <2>3. QED
    BY <1>1, <2>2
<1>9. Promise!Legal(r)
  <2>1. CASE r \in TradeRecord
    <3>1. r.kind = "trade" /\ TradeAllowed(a, r)
      BY <1>3, <1>4, <1>5, <1>6, <2>1, Kinds, LawfulMeans
    <3>2. Promise!TradeAllowed(a, r)
      BY <3>1 DEF TradeAllowed, Affords, Holds, Promise!TradeAllowed, Promise!Affords, Promise!Holds
    <3>3. QED
      BY <1>7, <1>8, <3>1, <3>2 DEF Promise!Legal
  <2>2. CASE r \in CashRecord
    <3>1. r.kind = "cash" /\ Covers(a, r.delta)
      BY <1>3, <1>4, <1>5, <1>6, <2>2, Kinds, LawfulMeans
    <3>2. Promise!Covers(a, r.delta)
      BY <3>1 DEF Covers, Promise!Covers
    <3>3. QED
      BY <1>7, <3>1, <3>2 DEF Promise!Legal
  <2>3. CASE r \in GiveRecord
    <3>1. r.kind = "give"
      BY <1>3, <2>3, Kinds
    <3>2. QED
      BY <3>1 DEF Promise!Legal
  <2>4. CASE r \in TakeRecord
    <3>1. r.kind = "take" /\ Holds(a, r.sym, r.qty)
      BY <1>3, <1>4, <1>5, <1>6, <2>4, Kinds, LawfulMeans
    <3>2. Promise!Holds(a, r.sym, r.qty)
      BY <3>1 DEF Holds, Promise!Holds
    <3>3. QED
      BY <1>7, <3>1, <3>2 DEF Promise!Legal
  <2>5. QED
    BY <1>3, <2>1, <2>2, <2>3, <2>4 DEF Entry
<1>10. Last(log') = r /\ Len(log') > Len(log)
  BY <1>1, <1>2 DEF Last
<1>11. QED
  BY <1>9, <1>10 DEF Promise!Next, Promise!Enter, Reported, Reporting, Last, Promise!Last

(* A trade that is answered is in the book. *)
LEMMA Tells ==
  ASSUME IInv, NEW c \in Call, Answer(c)
  PROVE  Promise!Next
<1>1. /\ log' = log /\ got' = got /\ pc[c] = "applied" /\ pc'[c] = "answered"
      /\ \A d \in Call \ {c} : pc'[d] = pc[d]
  BY DEF Answer, To, disk, IInv, Shape
<1>2. got[c].by = c
  BY <1>1 DEF IInv, Quoted, Trades
<1>3. Reported' = Reported \cup {got[c]}
  <2>1. \A d \in Call : Reporting(d)' <=> Reporting(d) \/ d = c
    BY <1>1, <1>2 DEF Reporting
  <2>2. QED
    BY <1>1, <2>1 DEF Reported
<1>4. got[c] \in ToSet(log)
  <2>1. PICK i \in 1 .. durable : log[i] = got[c]
    BY <1>1 DEF IInv, Recorded
  <2>2. i \in DOMAIN log
    BY DEF IInv, Shape
  <2>3. QED
    BY <2>1, <2>2 DEF ToSet
<1>5. QED
  BY <1>1, <1>3, <1>4 DEF Promise!Next, Promise!Tell, Reported, Reporting, ToSet, Promise!ToSet

(* A crash forgets only what nobody was told of. *)
LEMMA Forgets ==
  ASSUME IInv, Kill \/ PowerCut
  PROVE  Promise!Next
<1>1. PICK n : n \in durable .. Len(log) /\ Restart(n)
  BY DEF Kill, PowerCut, IInv, Shape
<1>2. PICK S : log \in Seq(S)
  BY DEF IInv, Shape
<1>3. n \in 0 .. Len(log) /\ n >= durable /\ durable \in Nat /\ n \in Nat
  BY <1>1, <1>2 DEF IInv, Shape
<1>4. log' = SubSeq(log, 1, n) /\ got' = got
  BY <1>1 DEF Restart
<1>5. Reported' = Reported
  <2>1. \A c \in Call : pc'[c] = "answered" <=> pc[c] = "answered"
    BY <1>1 DEF Restart, Trades
  <2>2. QED
    BY <1>4, <2>1, ReportsStand DEF Reporting
<1>6. Reported \subseteq ToSet(SubSeq(log, 1, n))
  <2> SUFFICES ASSUME NEW c \in Call, Reporting(c) PROVE got[c] \in ToSet(SubSeq(log, 1, n))
    BY DEF Reported
  <2>1. PICK i \in 1 .. durable : log[i] = got[c]
    BY DEF IInv, Recorded, Reporting
  <2>2. PICK t : t = SubSeq(log, 1, n)
    OBVIOUS
  <2>3. Len(t) = n /\ t \in Seq(S) /\ \A j \in 1 .. n : t[j] = log[j]
    BY <1>2, <1>3, <2>2, SubSeqProperties
  <2>4. i \in DOMAIN t /\ t[i] = got[c]
    BY <1>3, <2>1, <2>3
  <2>5. QED
    BY <2>2, <2>4 DEF ToSet
<1>7. QED
  BY <1>3, <1>4, <1>5, <1>6
  DEF Promise!Next, Promise!Forget, Reported, Reporting, ToSet, Promise!ToSet

(* Every step enters a legal change, tells of one, forgets or does nothing *)
(* to the book.                                                            *)
LEMMA NextSerial ==
  IInv /\ IInv' /\ BooksInv /\ BooksInv' /\ [Next]_vars => [Promise!Next]_(Promise!vars)
<1> SUFFICES ASSUME IInv, IInv', BooksInv, BooksInv', [Next]_vars
             PROVE  Promise!Next \/ UNCHANGED Promise!vars
  OBVIOUS
<1>1. pc \in [Call -> States] /\ DOMAIN got = Call
  BY DEF IInv, Shape
<1>2. CASE UNCHANGED vars
  <2>1. log' = log /\ pc' = pc /\ got' = got
    BY <1>2 DEF vars, disk, actors, calls
  <2>2. Reported' = Reported
    BY <2>1, ReportsStand DEF Reporting
  <2>3. QED
    BY <2>1, <2>2, Stutters
<1>3. ASSUME NEW c \in Call, Arrive(c) \/ CallStep(c)
      PROVE  Promise!Next \/ UNCHANGED Promise!vars
  <2>1. CASE Answer(c)
    BY <2>1, Tells
  <2>2. CASE ~Answer(c)
    <3>1. /\ ~Reporting(c) /\ ~Reporting(c)'
          /\ \A d \in Call \ {c} : pc'[d] = pc[d] /\ got'[d] = got[d]
      <4>1. CASE Arrive(c)
        BY <1>1, <4>1 DEF Arrive, To, Reporting
      <4>2. CASE Repeat(c)
        <5>1. /\ pc[c] = "waiting" /\ Key(req[c]) \in DOMAIN seen
              /\ \A d \in Call \ {c} : pc'[d] = pc[d]
              /\ \/ pc'[c] = "refused" /\ got' = got
                 \/ got' = [got EXCEPT ![c] = seen[Key(req[c])]]
          BY <1>1, <4>2 DEF Repeat, To
        <5>2. seen[Key(req[c])].by # c
          BY <5>1 DEF IInv, NoneYet
        <5>3. QED
          BY <1>1, <5>1, <5>2 DEF Reporting
      <4>3. CASE Quote(c)
        <5>1. /\ pc[c] = "waiting" /\ pc'[c] \in {"quoted", "refused"}
              /\ \A d \in Call \ {c} : pc'[d] = pc[d]
              /\ got' = got \/ \E t : got' = [got EXCEPT ![c] = t]
          BY <1>1, <4>3 DEF Quote, To
        <5>2. QED
          BY <1>1, <5>1 DEF Reporting
      <4>4. CASE Check(c) \/ Commit(c) \/ Apply(c) \/ GiveUp(c)
        <5>1. /\ pc[c] \in {"quoted", "checked", "committing"} /\ pc'[c] # "answered"
              /\ \A d \in Call \ {c} : pc'[d] = pc[d]
              /\ got' = got
          BY <1>1, <4>4 DEF Check, Commit, Apply, GiveUp, To
        <5>2. QED
          BY <5>1 DEF Reporting
      <4>5. QED
        BY <1>3, <2>2, <4>1, <4>2, <4>3, <4>4 DEF CallStep
    <3>2. Reported' = Reported
      <4>1. \A d \in Call : /\ Reporting(d)' <=> Reporting(d)
                            /\ Reporting(d) => got'[d] = got[d]
        BY <3>1 DEF Reporting
      <4>2. QED
        BY <4>1, ReportsStand
    <3>3. log' = log \/ log' = Append(log, got[c])
      BY <1>3, <2>2
      DEF CallStep, Arrive, Repeat, Quote, Check, Commit, Apply, GiveUp, AppendFor, disk
    <3>4. QED
      BY <3>2, <3>3, Stutters, Enters
  <2>3. QED
    BY <2>1, <2>2
<1>4. ASSUME NEW o \in Organiser, Ask(o) \/ OpStep(o)
      PROVE  Promise!Next \/ UNCHANGED Promise!vars
  <2>1. pc' = pc /\ got' = got
    BY <1>4 DEF OpStep, Ask, Measure, AdjustCash, NoteAverage, Revoke, Store, StoreGrant, Stored,
                Grant, calls
  <2>2. Reported' = Reported
    BY <2>1, ReportsStand DEF Reporting
  <2>3. log' = log \/ log' = Append(log, op[o])
    BY <1>4 DEF OpStep, Ask, Measure, AdjustCash, NoteAverage, Revoke, Store, StoreGrant, Stored,
                Grant, AppendFor, disk
  <2>4. QED
    BY <2>2, <2>3, Stutters, Enters
<1>5. CASE PriceMove \/ Sync \/ Break
  <2>1. log' = log /\ pc' = pc /\ got' = got
    BY <1>5 DEF PriceMove, Sync, Break, disk, actors, calls
  <2>2. Reported' = Reported
    BY <2>1, ReportsStand DEF Reporting
  <2>3. QED
    BY <2>1, <2>2, Stutters
<1>6. CASE Kill \/ PowerCut
  BY <1>6, Forgets
<1>7. QED
  BY <1>2, <1>3, <1>4, <1>5, <1>6 DEF Next

(* At first the book is empty. *)
LEMMA InitSerial == Init => Promise!Init
<1> SUFFICES ASSUME Init PROVE Promise!Init
  OBVIOUS
<1>1. log = <<>> /\ \A c \in Call : pc[c] = "idle"
  BY DEF Init
<1>2. QED
  BY <1>1 DEF Promise!Init

(* The whole is one book of legal changes: with any accounts, calls,       *)
(* organisers and requests that give nobody cash, every record that joins  *)
(* the log is legal on the accounts as the records before it left them and *)
(* no client id's second trade, and no crash takes away one that its maker *)
(* has reported (Executor.Execute, applyCash, takeShares, giveShares,      *)
(* restore).                                                               *)
THEOREM OneSerialBook == NoCredit /\ Spec => OneBook
<1> SUFFICES ASSUME NoCredit PROVE Spec => OneBook
  OBVIOUS
<1>1. Init => Promise!Init
  BY InitSerial
<1>2. IInv /\ IInv' /\ BooksInv /\ BooksInv' /\ [Next]_vars => [Promise!Next]_(Promise!vars)
  BY NextSerial
<1>3. QED
  BY Inductive, BooksHold, <1>1, <1>2, PTL DEF Spec, OneBook, Promise!Spec

-----------------------------------------------------------------------------
(* Spreading.  At prices that stand still a trade changes what an account  *)
(* has, not what it is worth: until somebody corrects it, it is worth what *)
(* it was opened with.                                                     *)
Prices == [Symbol -> Nat]

Spread(w, q) ==
    /\ w \in Wallet /\ IsFiniteSet(DOMAIN w.pos)
    /\ Worth(w, q) = StartCash
    /\ \A s \in Symbol : 100 * Position(w, s).qty * q[s] <= MaxPercent * StartCash

(* Cash that comes or goes is worth itself. *)
LEMMA CashWorth ==
  ASSUME NEW a \in Wallet, IsFiniteSet(DOMAIN a.pos), NEW d \in Int,
         NEW q, \A s \in Symbol : q[s] \in Nat
  PROVE  /\ AfterCash(a, d) \in Wallet /\ AfterCash(a, d).pos = a.pos
         /\ Worth(AfterCash(a, d), q) = Worth(a, q) + d /\ Worth(a, q) \in Int
<1>1. PICK w : w = AfterCash(a, d)
  OBVIOUS
<1>2. w \in Wallet /\ w.pos = a.pos /\ w.cash = a.cash + d /\ a.cash \in Int
  BY <1>1 DEF AfterCash, Wallet
<1>3. PICK f : f = [s \in DOMAIN a.pos |-> a.pos[s].qty * q[s]]
  OBVIOUS
<1>4. f \in [DOMAIN a.pos -> Int]
  <2>1. ASSUME NEW s \in DOMAIN a.pos PROVE a.pos[s].qty * q[s] \in Int
    <3>1. a.pos[s] \in Holding /\ s \in Symbol
      BY <1>2, PositionType, <2>1 DEF Wallet
    <3>2. a.pos[s].qty \in Nat /\ q[s] \in Nat
      BY <3>1 DEF Holding
    <3>3. QED
      BY <3>2
  <2>2. QED
    BY <1>3, <2>1
<1>5. SumFunction(f) \in Int
  BY <1>4, SumType
<1>6. Worth(a, q) = a.cash + SumFunction(f) /\ Worth(w, q) = w.cash + SumFunction(f)
  BY <1>2, <1>3 DEF Worth
<1>7. QED
  BY <1>1, <1>2, <1>5, <1>6

(* A position that is replaced is worth what its shares are. *)
LEMMA PlacedWorth ==
  ASSUME NEW a \in Wallet, IsFiniteSet(DOMAIN a.pos), NEW s \in Symbol, NEW p \in Holding,
         NEW q, \A x \in Symbol : q[x] \in Nat
  PROVE  /\ IsFiniteSet(DOMAIN WithPosition(a, s, p).pos)
         /\ Worth(WithPosition(a, s, p), q)
              = Worth(a, q) + p.qty * q[s] - Position(a, s).qty * q[s]
<1>1. PICK S : S = DOMAIN a.pos
  OBVIOUS
<1>2. /\ IsFiniteSet(S) /\ S \subseteq Symbol /\ a.cash \in Int
      /\ \A x \in S : a.pos[x].qty \in Nat
  BY <1>1, PositionType DEF Holding
<1>3. PICK g : g = [x \in S \cup {s} |-> IF x = s THEN p ELSE a.pos[x]]
  OBVIOUS
<1>4. PICK w : w = WithPosition(a, s, p)
  OBVIOUS
<1>5. w.pos = g /\ w.cash = a.cash /\ DOMAIN g = S \cup {s}
  BY <1>1, <1>3, <1>4 DEF WithPosition, Wallet
<1>6. /\ g[s].qty = p.qty /\ p.qty \in Nat /\ q[s] \in Nat
      /\ \A x \in S : x # s => g[x] = a.pos[x]
  BY <1>3 DEF Holding
<1>7. PICK e : e = [x \in S |-> a.pos[x].qty * q[x]]
  OBVIOUS
<1>8. PICK h : h = [x \in S \cup {s} |-> g[x].qty * q[x]]
  OBVIOUS
<1>9. e \in [S -> Int] /\ \A x \in S : e[x] = a.pos[x].qty * q[x]
  <2>1. \A x \in S : a.pos[x].qty * q[x] \in Int
    BY <1>2
  <2>2. QED
    BY <1>7, <2>1
<1>10. h \in [S \cup {s} -> Int] /\ h[s] = p.qty * q[s] /\ \A x \in S : x # s => h[x] = e[x]
  <2>1. ASSUME NEW x \in S \cup {s} PROVE g[x].qty * q[x] \in Int
    <3>1. g[x].qty \in Nat /\ q[x] \in Nat
      BY <1>2, <1>6
    <3>2. QED
      BY <3>1
  <2>2. \A x \in S \cup {s} : h[x] = g[x].qty * q[x]
    BY <1>8
  <2>3. \A x \in S : x # s => h[x] = e[x]
    BY <1>6, <1>9, <2>2
  <2>4. QED
    BY <1>6, <1>8, <2>1, <2>2, <2>3
<1>11. SumFunction(h) = SumFunction(e) + h[s] - (IF s \in S THEN e[s] ELSE 0)
  <2>1. SumMoves(e, h, S, s)
    <3>1. PICK T : T = S \cup {s}
      OBVIOUS
    <3>2. h \in [T -> Int] /\ e \in [S -> Int] /\ \A y \in S : y # s => h[y] = e[y]
      BY <1>9, <1>10, <3>1
    <3>3. QED
      BY <1>2, <3>1, <3>2, SumChanges
  <2>2. SumFunction(e) \in Int /\ h[s] \in Int
    BY <1>2, <1>9, <1>10, SumType
  <2>3. QED
    BY <2>1, <2>2 DEF SumMoves
<1>12. SumFunction(e) \in Int
  BY <1>2, <1>9, SumType
<1>13. Worth(a, q) = a.cash + SumFunction(e)
  BY <1>1, <1>7 DEF Worth
<1>14. Worth(w, q) = a.cash + SumFunction(h)
  BY <1>5, <1>8 DEF Worth
<1>15. PICK k \in Int : k = Position(a, s).qty * q[s] /\ k = (IF s \in S THEN e[s] ELSE 0)
  <2>1. CASE s \in S
    <3>1. Position(a, s).qty = a.pos[s].qty /\ e[s] = a.pos[s].qty * q[s] /\ e[s] \in Int
      BY <1>1, <1>9, <2>1 DEF Position
    <3>2. QED
      BY <2>1, <3>1
  <2>2. CASE s \notin S
    <3>1. Position(a, s).qty = 0
      BY <1>1, <2>2 DEF Position
    <3>2. 0 * q[s] = 0
      BY <1>6
    <3>3. QED
      BY <2>2, <3>1, <3>2
  <2>3. QED
    BY <2>1, <2>2
<1>16. PICK m \in Int : m = p.qty * q[s]
  BY <1>6
<1>17. Worth(w, q) = Worth(a, q) + m - k
  BY <1>2, <1>10, <1>11, <1>12, <1>13, <1>14, <1>15, <1>16
<1>18. IsFiniteSet(DOMAIN w.pos)
  BY <1>2, <1>5, FS_AddElement
<1>19. QED
  BY <1>4, <1>15, <1>16, <1>17, <1>18

(* What is under a share of something is not more than it. *)
LEMMA UnderShare ==
  ASSUME NEW n \in Nat, NEW d \in Nat \ {0}, NEW k \in Nat, k <= n \div d
  PROVE  d * k <= n
<1>1. PICK q \in Int : q = n \div d
  OBVIOUS
<1>2. d * q <= n
  BY <1>1
<1>3. d * k <= d * q
  BY <1>1
<1>4. QED
  BY <1>1, <1>2, <1>3

(* May this trade be made without one company growing too large? *)
Fits(w, t) ==
    /\ t.buy  => Position(w, t.sym).qty + t.qty <= (MaxPercent * StartCash) \div (100 * t.price)
    /\ ~t.buy => Position(w, t.sym).qty >= t.qty

(* A trade that may be made leaves an account spread. *)
LEMMA TradeSpreads ==
  ASSUME MaxPercent > 0, NEW q, \A s \in Symbol : q[s] \in Nat, NEW w, Spread(w, q),
         NEW t \in TradeRecord, t.price = q[t.sym], t.price > 0, Fits(w, t)
  PROVE  Spread(AfterTrade(w, t), q)
<1>1. /\ w \in Wallet /\ IsFiniteSet(DOMAIN w.pos) /\ Worth(w, q) = StartCash
      /\ \A s \in Symbol : 100 * Position(w, s).qty * q[s] <= MaxPercent * StartCash
      /\ \A s \in Symbol : Position(w, s).qty \in Nat
  BY PositionType DEF Spread, Holding
<1>2. /\ t.sym \in Symbol /\ t.qty \in Nat \ {0} /\ t.price \in Nat \ {0} /\ t.buy \in BOOLEAN
      /\ StartCash \in Nat /\ MaxPercent \in Nat
  BY TradingAssumption DEF TradeRecord
<1>3. PICK d \in Nat : d = t.price * t.qty
  BY <1>2
<1>4. PICK c \in Int : c = IF t.buy THEN -d ELSE d
  BY <1>3
<1>5. PICK p : p = AfterCash(w, c)
  OBVIOUS
<1>6. p \in Wallet /\ p.pos = w.pos /\ Worth(p, q) = StartCash + c
  BY <1>1, <1>5, CashWorth
<1>7. \A s \in Symbol : Position(p, s) = Position(w, s)
  BY <1>6 DEF Position
<1>8. PICK o : o = Position(w, t.sym) /\ o \in Holding
  BY <1>1, <1>2, PositionType
<1>9. PICK h : h = IF t.buy THEN With(o, t.qty, t.price) ELSE Without(o, t.qty)
  OBVIOUS
<1>10. PICK v : v = AfterTrade(w, t)
  OBVIOUS
<1>11. v = WithPosition(p, t.sym, h)
  BY <1>2, <1>3, <1>4, <1>5, <1>7, <1>8, <1>9, <1>10 DEF AfterTrade, AfterGrant, AfterRevoke
<1>12. o.qty \in Nat /\ o.cost \in Nat
  BY <1>8 DEF Holding
<1>13. h \in Holding /\ h.qty = IF t.buy THEN o.qty + t.qty ELSE o.qty - t.qty
  <2>1. CASE t.buy
    BY <1>2, <1>9, <1>12, <2>1 DEF With, Holding
  <2>2. CASE ~t.buy
    <3>1. o.qty >= t.qty
      BY <1>8, <2>2 DEF Fits
    <3>2. CASE o.qty = t.qty
      BY <1>2, <1>9, <1>12, <2>2, <3>2 DEF Without, Holding
    <3>3. CASE t.qty < o.qty
      <4>1. o.cost - (o.cost * t.qty) \div o.qty \in Nat
        BY <1>2, <1>12, <3>3, PartOfCost
      <4>2. h = [qty |-> o.qty - t.qty, cost |-> o.cost - (o.cost * t.qty) \div o.qty]
        BY <1>2, <1>9, <1>12, <2>2, <3>3 DEF Without
      <4>3. o.qty - t.qty \in Nat
        BY <1>2, <1>12, <3>3
      <4>4. QED
        BY <2>2, <4>1, <4>2, <4>3 DEF Holding
    <3>4. QED
      BY <1>2, <1>12, <3>1, <3>2, <3>3
  <2>3. QED
    BY <2>1, <2>2
<1>14. /\ v \in Wallet /\ IsFiniteSet(DOMAIN v.pos)
       /\ \A s \in Symbol : Position(v, s) = IF s = t.sym THEN h ELSE Position(w, s)
       /\ Worth(v, q) = Worth(p, q) + h.qty * q[t.sym] - Position(p, t.sym).qty * q[t.sym]
  BY <1>1, <1>2, <1>6, <1>7, <1>11, <1>13, Placed, PlacedWorth
<1>15. Worth(v, q) = StartCash
  <2>1. Position(p, t.sym).qty = o.qty
    BY <1>2, <1>7, <1>8
  <2>2. Worth(v, q) = StartCash + c + h.qty * t.price - o.qty * t.price
    BY <1>6, <1>14, <2>1
  <2>3. PICK x, y \in Nat : x = o.qty /\ y = t.qty
    BY <1>2, <1>12
  <2>4. CASE t.buy
    <3>1. (x + y) * t.price = x * t.price + y * t.price
      BY <1>2
    <3>2. h.qty * t.price = o.qty * t.price + d
      BY <1>2, <1>3, <1>13, <2>3, <2>4, <3>1
    <3>3. o.qty * t.price \in Int
      BY <1>2, <1>12
    <3>4. QED
      BY <1>2, <1>3, <1>4, <2>2, <2>4, <3>2, <3>3
  <2>5. CASE ~t.buy
    <3>1. (x - y) * t.price = x * t.price - y * t.price
      BY <1>2
    <3>2. h.qty * t.price = o.qty * t.price - d
      BY <1>2, <1>3, <1>13, <2>3, <2>5, <3>1
    <3>3. o.qty * t.price \in Int
      BY <1>2, <1>12
    <3>4. QED
      BY <1>2, <1>3, <1>4, <2>2, <2>5, <3>2, <3>3
  <2>6. QED
    BY <2>4, <2>5
<1>16. 100 * h.qty * q[t.sym] <= MaxPercent * StartCash
  <2>1. CASE t.buy
    <3>1. h.qty \in Nat /\ 100 * t.price \in Nat \ {0} /\ MaxPercent * StartCash \in Nat
      BY <1>2, <1>13 DEF Holding
    <3>2. h.qty <= (MaxPercent * StartCash) \div (100 * t.price)
      BY <1>8, <1>13, <2>1 DEF Fits
    <3>3. (100 * t.price) * h.qty <= MaxPercent * StartCash
      BY <3>1, <3>2, UnderShare
    <3>4. PICK x, y \in Nat : x = h.qty /\ y = t.price
      BY <1>2, <3>1
    <3>5. 100 * x * y = (100 * y) * x
      OBVIOUS
    <3>6. QED
      BY <3>3, <3>4, <3>5
  <2>2. CASE ~t.buy
    <3>1. PICK x, y, z \in Nat : x = h.qty /\ y = t.price /\ z = o.qty
      BY <1>2, <1>12, <1>13 DEF Holding
    <3>2. x <= z
      BY <1>2, <1>13, <2>2, <3>1
    <3>3. 100 * x * y <= 100 * z * y
      BY <3>2
    <3>4. 100 * z * y <= MaxPercent * StartCash
      BY <1>1, <1>2, <1>8, <3>1
    <3>5. 100 * x * y \in Nat /\ 100 * z * y \in Nat /\ MaxPercent * StartCash \in Nat
      BY <1>2
    <3>6. QED
      BY <3>1, <3>3, <3>4, <3>5
  <2>3. QED
    BY <2>1, <2>2
<1>17. \A s \in Symbol : 100 * Position(v, s).qty * q[s] <= MaxPercent * StartCash
  BY <1>1, <1>14, <1>16
<1>18. QED
  BY <1>10, <1>14, <1>15, <1>17 DEF Spread

(* An account that is opened is spread. *)
LEMMA OpenedSpread ==
  ASSUME MaxPercent > 0, NEW q, \A s \in Symbol : q[s] \in Nat
  PROVE  Spread(Opened(StartCash), q)
<1>1. PICK w : w = Opened(StartCash)
  OBVIOUS
<1>2. w.pos = <<>> /\ DOMAIN w.pos = {} /\ w.cash = StartCash /\ StartCash \in Nat
      /\ MaxPercent \in Nat
  BY <1>1, TradingAssumption DEF Opened
<1>3. Opened(StartCash) \in Wallet
  <2>1. <<>> \in [{} -> Holding] /\ {} \in SUBSET Symbol
    OBVIOUS
  <2>2. <<>> \in UNION {[D -> Holding] : D \in SUBSET Symbol}
    BY <2>1
  <2>3. StartCash \in Int
    BY <1>2
  <2>4. QED
    BY <2>2, <2>3 DEF Opened, Wallet
<1>4. IsFiniteSet(DOMAIN w.pos)
  BY <1>2, FS_EmptySet
<1>5. PICK f : f = [s \in DOMAIN w.pos |-> w.pos[s].qty * q[s]]
  OBVIOUS
<1>6. f \in [{} -> Int]
  BY <1>2, <1>5
<1>7. SumFunction(f) = 0
  BY <1>2, <1>4, <1>6, SumType
<1>8. Worth(w, q) = StartCash
  BY <1>2, <1>5, <1>7 DEF Worth
<1>9. ASSUME NEW s \in Symbol PROVE 100 * Position(w, s).qty * q[s] <= MaxPercent * StartCash
  <2>1. Position(w, s).qty = 0
    BY <1>2 DEF Position
  <2>2. 100 * 0 * q[s] = 0 /\ MaxPercent * StartCash \in Nat
    BY <1>2
  <2>3. QED
    BY <2>1, <2>2
<1>10. QED
  BY <1>1, <1>3, <1>4, <1>8, <1>9 DEF Spread

-----------------------------------------------------------------------------
(* While nobody disturbs them. *)
Undisturbed == MaxPercent > 0 /\ moves = 0 /\ \A o \in Organiser : opPc[o] = "idle"

(* A call's trade is one at the market's price; checked, it still fits, as *)
(* nobody else trades on the account; on its way to the disk, what it will *)
(* leave is spread.                                                        *)
CallSpread(c) ==
    /\ pc[c] # "idle" => req[c] \in Request
    /\ pc[c] \in Trades => /\ got[c] \in TradeRecord /\ got[c].acct = req[c].acct
                           /\ got[c].price = price[got[c].sym] /\ got[c].price > 0
    /\ pc[c] = "checked" => ~Concentrated(ledger[req[c].acct], got[c])
    /\ pc[c] = "committing" => Spread(AfterTrade(ledger[req[c].acct], got[c]), price)

(* No trade is on its way to the disk. *)
Calm(a) == \A c \in Call : pc[c] = "committing" => req[c].acct # a

(* What the log says is what there is, or will be once the trade on its    *)
(* way to the disk has arrived.                                            *)
Agree ==
    /\ \A a \in Account : Calm(a) => Book(log)[a] = ledger[a]
    /\ \A c \in Call : pc[c] = "committing" =>
          Book(log)[req[c].acct] = AfterTrade(ledger[req[c].acct], got[c])

(* Wherever a crash cuts the log, the accounts it leaves are spread. *)
SpreadLog(l) ==
    \A n \in 0 .. Len(l), a \in Account : Spread(Book(SubSeq(l, 1, n))[a], price)

SpreadInv ==
    /\ log \in Seq(Entry) /\ price \in PriceTable /\ ledger \in Books
    /\ \A a \in Account : Spread(ledger[a], price)
    /\ \A c \in Call : CallSpread(c)
    /\ SpreadLog(log)
    /\ ~broken => Agree

(* Nothing has happened yet. *)
LEMMA InitSpread == Init /\ Undisturbed => SpreadInv
<1> SUFFICES ASSUME Init, Undisturbed PROVE SpreadInv
  OBVIOUS
<1>1. /\ ledger = Opening /\ log = <<>> /\ price \in PriceTable
      /\ pc = [c \in Call |-> "idle"]
  BY DEF Init, Opening
<1>2. MaxPercent > 0 /\ \A s \in Symbol : price[s] \in Nat
  BY <1>1, TradingAssumption DEF Undisturbed
<1>3. \A a \in Account : Spread(Opening[a], price)
  BY <1>2, OpenedSpread DEF Opening
<1>4. log \in Seq(Entry) /\ Book(log) = Opening /\ Opening \in Books
  BY <1>1, Replaying, OpeningType
<1>5. SpreadLog(log)
  <2>1. SubSeq(log, 1, 0) = log /\ \A n \in 0 .. Len(log) : n = 0
    BY <1>1
  <2>2. \A n \in 0 .. Len(log) : Book(SubSeq(log, 1, n)) = Opening
    BY <1>4, <2>1
  <2>3. QED
    BY <1>3, <2>2 DEF SpreadLog
<1>6. \A c \in Call : pc[c] = "idle"
  BY <1>1
<1>7. (\A c \in Call : CallSpread(c)) /\ Agree
  BY <1>1, <1>4, <1>6 DEF CallSpread, Agree, Trades
<1>8. QED
  BY <1>1, <1>3, <1>4, <1>5, <1>7 DEF SpreadInv

(* A call that moves on alone, without reaching the account or the log. *)
LEMMA AloneSpread ==
  ASSUME SpreadInv, NEW c \in Call, CallAlone(c), CallSpread(c)',
         pc'[c] # "committing", ~broken => pc[c] # "committing"
  PROVE  SpreadInv'
<1>1. ASSUME NEW d \in Call PROVE CallSpread(d)'
  <2>1. CASE d = c
    BY <2>1
  <2>2. CASE d # c
    BY <2>2 DEF SpreadInv, CallSpread, Concentrated, CallAlone
  <2>3. QED
    BY <2>1, <2>2
<1>2. SpreadLog(log)'
  BY DEF SpreadInv, SpreadLog, CallAlone
<1>3. ASSUME ~broken' PROVE Agree'
  <2>1. Agree /\ pc[c] # "committing"
    BY <1>3 DEF SpreadInv, CallAlone
  <2>2. \A d \in Call : pc'[d] = "committing" <=> pc[d] = "committing"
    BY <2>1 DEF CallAlone
  <2>3. \A d \in Call : pc[d] = "committing" => req'[d] = req[d] /\ got'[d] = got[d]
    BY <2>1 DEF CallAlone
  <2>4. \A a \in Account : Calm(a)' => Calm(a)
    BY <2>2, <2>3 DEF Calm
  <2>5. QED
    BY <2>1, <2>2, <2>3, <2>4 DEF Agree, CallAlone
<1>4. QED
  BY <1>1, <1>2, <1>3 DEF SpreadInv, CallAlone

(* Asked, quoted, checked, refused, failed, answered. *)
LEMMA CallSpreads ==
  ASSUME IInv, SpreadInv, NEW c \in Call,
         \/ Arrive(c) \/ Repeat(c) \/ Quote(c) \/ Check(c) \/ GiveUp(c) \/ Answer(c)
         \/ Commit(c) /\ log' = log
  PROVE  SpreadInv'
<1>1. CallAlone(c)
  BY OneCall
<1>2. pc \in [Call -> States] /\ DOMAIN req = Call /\ DOMAIN got = Call
  BY DEF IInv, Shape
<1>3. CallSpread(c) /\ price \in PriceTable /\ ledger' = ledger /\ price' = price
  BY <1>1 DEF SpreadInv, CallAlone
<1>4. /\ CallSpread(c)' /\ pc'[c] # "committing"
      /\ ~broken => pc[c] # "committing"
  <2>1. CASE Arrive(c)
    <3>1. /\ pc[c] = "idle" /\ pc'[c] = "waiting" /\ req'[c] \in Request
      BY <1>2, <2>1 DEF Arrive, To
    <3>2. QED
      BY <3>1 DEF CallSpread, Trades
  <2>2. CASE Repeat(c)
    <3>1. pc[c] = "waiting" /\ pc'[c] \in {"answered", "refused"} /\ req' = req
      BY <1>2, <2>2 DEF Repeat, To
    <3>2. QED
      BY <1>3, <3>1 DEF CallSpread, Trades
  <2>3. CASE Quote(c)
    <3>1. pc[c] = "waiting" /\ req' = req
      BY <2>3 DEF Quote
    <3>2. req[c] \in Request
      BY <1>3, <3>1 DEF CallSpread
    <3>3. PICK q, p : q = req[c] /\ p = price[q.sym]
      OBVIOUS
    <3>4. \/ pc'[c] = "refused"
          \/ pc'[c] = "quoted" /\ got'[c] = TradeAt(c, q, p) /\ p > 0
      BY <1>2, <2>3, <3>3 DEF Quote, To
    <3>5. /\ TradeAt(c, q, p) \in TradeRecord /\ TradeAt(c, q, p).acct = q.acct
          /\ TradeAt(c, q, p).sym = q.sym /\ TradeAt(c, q, p).price = p
      <4>1. /\ q.acct \in Account /\ q.cid \in {x.cid : x \in Request} /\ q.sym \in Symbol
            /\ q.buy \in BOOLEAN /\ q.qty \in Nat \ {0}
        BY <3>2, <3>3, TradingAssumption
      <4>2. p \in Nat
        BY <1>3, <3>3, <4>1, TradingAssumption
      <4>3. QED
        BY <4>1, <4>2 DEF TradeAt, TradeRecord
    <3>6. QED
      BY <1>3, <3>1, <3>2, <3>3, <3>4, <3>5 DEF CallSpread, Trades
  <2>4. CASE Check(c)
    <3>1. /\ pc[c] = "quoted" /\ req' = req /\ got' = got
          /\ \/ pc'[c] = "refused"
             \/ pc'[c] = "checked" /\ ~Concentrated(ledger[req[c].acct], got[c])
      BY <1>2, <2>4 DEF Check, To
    <3>2. QED
      BY <1>3, <3>1 DEF CallSpread, Trades, Concentrated
  <2>5. CASE GiveUp(c)
    <3>1. pc[c] = "committing" /\ broken /\ pc'[c] = "failed" /\ req' = req
      BY <1>2, <2>5 DEF GiveUp, To, AppendFailed
    <3>2. QED
      BY <1>3, <3>1 DEF CallSpread, Trades
  <2>6. CASE Answer(c)
    <3>1. pc[c] = "applied" /\ pc'[c] = "answered" /\ req' = req
      BY <1>2, <2>6 DEF Answer, To
    <3>2. QED
      BY <1>3, <3>1 DEF CallSpread, Trades
  <2>7. CASE Commit(c) /\ log' = log
    <3>1. pc[c] = "checked" /\ pc'[c] \in {"refused", "failed"} /\ req' = req
      <4>1. log' # Append(log, got[c])
        BY <2>7 DEF IInv, Shape
      <4>2. QED
        BY <1>2, <2>7, <4>1 DEF Commit, To, AppendFor
    <3>2. QED
      BY <1>3, <3>1 DEF CallSpread, Trades
  <2>8. QED
    BY <2>1, <2>2, <2>3, <2>4, <2>5, <2>6, <2>7
<1>5. QED
  BY <1>1, <1>4, AloneSpread

(* While a call trades on an account, no other does. *)
LEMMA NobodyElse ==
  ASSUME IInv, NEW c \in Call, pc[c] \in Trades
  PROVE  \A d \in Call : d # c /\ pc[d] \in Trades => req[d].acct # req[c].acct
BY DEF IInv, Alone

(* A checked trade joins the log: it fits what the account holds, and what *)
(* the log says the account holds.                                         *)
LEMMA CommitSpreads ==
  ASSUME MaxPercent > 0, IInv, SpreadInv, NEW c \in Call, Commit(c), log' # log
  PROVE  SpreadInv'
<1>1. PICK a, t : a = req[c].acct /\ t = got[c]
  OBVIOUS
<1>2. /\ pc[c] = "checked" /\ ~broken /\ log' = Append(log, t) /\ TradeAllowed(ledger[a], t)
      /\ To(c, "committing") /\ UNCHANGED <<ledger, price, broken, req, got>>
  BY <1>1 DEF Commit, AppendFor, memory, world
<1>3. /\ pc'[c] = "committing" /\ \A d \in Call : d # c => pc'[d] = pc[d]
  BY <1>2 DEF IInv, Shape, To
<1>4. /\ log \in Seq(Entry) /\ price \in PriceTable /\ ledger \in Books
      /\ \A b \in Account : Spread(ledger[b], price)
      /\ SpreadLog(log) /\ Agree /\ CallSpread(c)
  BY <1>2 DEF SpreadInv
<1>5. /\ req[c] \in Request /\ t \in TradeRecord /\ t.acct = a /\ t.price = price[t.sym]
      /\ t.price > 0 /\ ~Concentrated(ledger[a], t)
  BY <1>1, <1>2, <1>4 DEF CallSpread, Trades
<1>6. /\ a \in Account /\ t.sym \in Symbol /\ t.buy \in BOOLEAN /\ t.qty \in Nat \ {0}
      /\ t.price \in Nat \ {0} /\ t \in Entry
      /\ \A s \in Symbol : price[s] \in Nat
  <2>1. /\ t.acct \in Account /\ t.sym \in Symbol /\ t.buy \in BOOLEAN /\ t.qty \in Nat \ {0}
        /\ t.price \in Nat
    BY <1>5 DEF TradeRecord
  <2>2. t \in Entry
    BY <1>5 DEF Entry
  <2>3. \A s \in Symbol : price[s] \in Nat
    BY <1>4, TradingAssumption
  <2>4. QED
    BY <1>5, <2>1, <2>2, <2>3
<1>7. PICK w : w = ledger[a]
  OBVIOUS
<1>8. Spread(w, price) /\ w \in Wallet /\ Worth(w, price) = StartCash
  BY <1>4, <1>6, <1>7 DEF Spread
<1>9. Fits(w, t)
  <2>1. Position(w, t.sym).qty \in Nat
    BY <1>6, <1>8, PositionType DEF Holding
  <2>2. CASE t.buy
    <3>1. PICK m \in Int : m = (MaxPercent * StartCash) \div (100 * t.price)
      <4>1. MaxPercent * StartCash \in Int /\ 100 * t.price \in Nat \ {0}
        BY <1>6, TradingAssumption
      <4>2. QED
        BY <4>1
    <3>2. ~(Position(w, t.sym).qty + t.qty > m)
      BY <1>5, <1>7, <1>8, <2>2, <3>1 DEF Concentrated
    <3>3. Position(w, t.sym).qty + t.qty <= m
      BY <1>6, <2>1, <3>2
    <3>4. QED
      BY <2>2, <3>1, <3>3 DEF Fits
  <2>3. CASE ~t.buy
    <3>1. t.sym \in DOMAIN w.pos /\ w.pos[t.sym].qty >= t.qty
      BY <1>2, <1>7, <2>3 DEF TradeAllowed, Holds
    <3>2. QED
      BY <2>3, <3>1 DEF Fits, Position
  <2>4. QED
    BY <2>2, <2>3
<1>10. Spread(AfterTrade(w, t), price)
  BY <1>5, <1>6, <1>8, <1>9, TradeSpreads
<1>11. \A d \in Call : d # c /\ pc[d] \in Trades => req[d].acct # a
  BY <1>1, <1>2, NobodyElse DEF Trades
<1>12. Calm(a)
  BY <1>2, <1>11 DEF Calm, Trades
<1>13. Book(log)[a] = w
  BY <1>4, <1>6, <1>7, <1>12 DEF Agree
<1>14. PICK l : l = Append(log, t)
  OBVIOUS
<1>15. /\ l \in Seq(Entry) /\ Book(l) \in Books
       /\ Book(l)[a] = AfterTrade(w, t)
       /\ \A b \in Account : b # a => Book(l)[b] = Book(log)[b]
  <2>1. Book(l) = Entered(Book(log), t) /\ Book(log) \in Books /\ l \in Seq(Entry)
    BY <1>4, <1>6, <1>14, Replaying
  <2>2. After(w, t) = AfterTrade(w, t)
    BY <1>5 DEF After, TradeRecord
  <2>3. QED
    BY <1>5, <1>6, <1>13, <2>1, <2>2, EntryEnters
<1>16. /\ Len(log) \in Nat /\ Len(l) = Len(log) + 1
       /\ SubSeq(l, 1, Len(log)) = log /\ SubSeq(l, 1, Len(l)) = l
       /\ \A n \in 0 .. Len(log) : SubSeq(l, 1, n) = SubSeq(log, 1, n)
  <2>1. Len(log) \in Nat /\ Len(l) = Len(log) + 1
    BY <1>4, <1>6, <1>14
  <2>2. SubSeq(l, 1, Len(log)) = log /\ SubSeq(l, 1, Len(l)) = l
    BY <1>4, <1>6, <1>14, <2>1
  <2>3. \A n \in 0 .. Len(log) : SubSeq(SubSeq(l, 1, Len(log)), 1, n) = SubSeq(l, 1, n)
    BY <1>15, <2>1, Cuts
  <2>4. QED
    BY <2>1, <2>2, <2>3
<1>17. SpreadLog(l)
  <2>1. ASSUME NEW b \in Account PROVE Spread(Book(l)[b], price)
    <3>1. CASE b = a
      BY <1>10, <1>15, <3>1
    <3>2. CASE b # a
      <4>1. Spread(Book(SubSeq(log, 1, Len(log)))[b], price)
        BY <1>4, <1>16 DEF SpreadLog
      <4>2. SubSeq(log, 1, Len(log)) = log
        BY <1>4
      <4>3. QED
        BY <1>15, <3>2, <4>1, <4>2
    <3>3. QED
      BY <3>1, <3>2
  <2>2. ASSUME NEW n \in 0 .. Len(l), NEW b \in Account
        PROVE  Spread(Book(SubSeq(l, 1, n))[b], price)
    <3>1. CASE n = Len(l)
      BY <1>16, <2>1, <3>1
    <3>2. CASE n # Len(l)
      <4>1. n \in 0 .. Len(log)
        BY <1>16, <3>2
      <4>2. QED
        BY <1>4, <1>16, <4>1 DEF SpreadLog
    <3>3. QED
      BY <3>1, <3>2
  <2>3. QED
    BY <2>2 DEF SpreadLog
<1>18. ASSUME NEW d \in Call PROVE CallSpread(d)'
  <2>1. CASE d = c
    BY <1>1, <1>2, <1>3, <1>5, <1>7, <1>10, <2>1 DEF CallSpread, Trades
  <2>2. CASE d # c
    BY <1>2, <1>3, <2>2 DEF SpreadInv, CallSpread, Concentrated
  <2>3. QED
    BY <2>1, <2>2
<1>19. Agree'
  <2>1. ASSUME NEW b \in Account, Calm(b)' PROVE Book(l)[b] = ledger[b]
    <3>1. b # a /\ Calm(b)
      BY <1>1, <1>2, <1>3, <2>1 DEF Calm
    <3>2. QED
      BY <1>4, <1>15, <3>1 DEF Agree
  <2>2. ASSUME NEW d \in Call, pc'[d] = "committing"
        PROVE  Book(l)[req[d].acct] = AfterTrade(ledger[req[d].acct], got[d])
    <3>1. CASE d = c
      BY <1>1, <1>7, <1>15, <3>1
    <3>2. CASE d # c
      <4>1. pc[d] = "committing" /\ req[d].acct # a
        BY <1>3, <1>11, <2>2, <3>2 DEF Trades
      <4>2. req[d].acct \in Account
        <5>1. req[d] \in Request
          BY <4>1 DEF SpreadInv, CallSpread
        <5>2. QED
          BY <5>1, TradingAssumption
      <4>3. QED
        BY <1>4, <1>15, <4>1, <4>2 DEF Agree
    <3>3. QED
      BY <3>1, <3>2
  <2>3. QED
    BY <1>2, <1>14, <2>1, <2>2 DEF Agree
<1>20. SpreadLog(log)'
  BY <1>2, <1>14, <1>17 DEF SpreadLog
<1>21. QED
  BY <1>2, <1>4, <1>14, <1>15, <1>18, <1>19, <1>20 DEF SpreadInv

(* The trade has arrived on the disk and is applied. *)
LEMMA ApplySpreads ==
  ASSUME IInv, SpreadInv, NEW c \in Call, Apply(c)
  PROVE  SpreadInv'
<1>1. PICK a, t : a = req[c].acct /\ t = got[c]
  OBVIOUS
<1>2. /\ pc[c] = "committing" /\ To(c, "applied")
      /\ ledger' = [ledger EXCEPT ![a] = AfterTrade(@, t)]
      /\ UNCHANGED <<log, price, broken, req, got>>
  BY <1>1 DEF Apply, disk, world
<1>3. /\ pc'[c] = "applied" /\ \A d \in Call : d # c => pc'[d] = pc[d]
  BY <1>2 DEF IInv, Shape, To
<1>4. /\ log \in Seq(Entry) /\ price \in PriceTable /\ ledger \in Books
      /\ \A b \in Account : Spread(ledger[b], price)
      /\ SpreadLog(log) /\ CallSpread(c)
  BY DEF SpreadInv
<1>5. /\ a \in Account /\ t \in TradeRecord /\ Spread(AfterTrade(ledger[a], t), price)
  <2>1. req[c] \in Request
    BY <1>2, <1>4 DEF CallSpread
  <2>2. QED
    BY <1>1, <1>2, <1>4, <2>1, TradingAssumption DEF CallSpread, Trades
<1>6. /\ ledger'[a] = AfterTrade(ledger[a], t)
      /\ \A b \in Account : b # a => ledger'[b] = ledger[b]
      /\ ledger' \in Books
  <2>1. AfterTrade(ledger[a], t) \in Wallet
    BY <1>5 DEF Spread
  <2>2. QED
    BY <1>2, <1>4, <1>5, <2>1 DEF Books
<1>7. \A d \in Call : d # c /\ pc[d] \in Trades => req[d].acct # a
  BY <1>1, <1>2, NobodyElse DEF Trades
<1>8. ASSUME NEW d \in Call PROVE CallSpread(d)'
  <2>1. CASE d = c
    BY <1>2, <1>3, <1>4, <2>1 DEF CallSpread, Trades
  <2>2. CASE d # c
    <3>1. CallSpread(d) /\ pc'[d] = pc[d]
      BY <1>3, <2>2 DEF SpreadInv
    <3>2. pc[d] \in Trades => ledger'[req[d].acct] = ledger[req[d].acct]
      <4>1. ASSUME pc[d] \in Trades PROVE ledger'[req[d].acct] = ledger[req[d].acct]
        <5>1. req[d] \in Request /\ req[d].acct # a
          BY <1>7, <2>2, <3>1, <4>1 DEF CallSpread, Trades
        <5>2. req[d].acct \in Account
          BY <5>1, TradingAssumption
        <5>3. QED
          BY <1>6, <5>1, <5>2
      <4>2. QED
        BY <4>1
    <3>3. QED
      BY <1>2, <3>1, <3>2 DEF CallSpread, Concentrated, Trades
  <2>3. QED
    BY <2>1, <2>2
<1>9. ASSUME ~broken PROVE Agree'
  <2>1. Agree
    BY <1>9 DEF SpreadInv
  <2>2. ASSUME NEW b \in Account, Calm(b)' PROVE Book(log)[b] = ledger'[b]
    <3>1. CASE b = a
      BY <1>1, <1>2, <1>6, <2>1, <3>1 DEF Agree
    <3>2. CASE b # a
      <4>1. Calm(b)
        BY <1>1, <1>2, <1>3, <2>2, <3>2 DEF Calm
      <4>2. QED
        BY <1>6, <2>1, <3>2, <4>1 DEF Agree
    <3>3. QED
      BY <3>1, <3>2
  <2>3. ASSUME NEW d \in Call, pc'[d] = "committing"
        PROVE  Book(log)[req[d].acct] = AfterTrade(ledger'[req[d].acct], got[d])
    <3>1. d # c /\ pc[d] = "committing"
      BY <1>3, <2>3
    <3>2. req[d].acct # a
      BY <1>7, <3>1 DEF Trades
    <3>3. req[d] \in Request
      BY <3>1 DEF SpreadInv, CallSpread
    <3>4. req[d].acct \in Account
      BY <3>3, TradingAssumption
    <3>5. QED
      BY <1>6, <2>1, <3>1, <3>2, <3>4 DEF Agree
  <2>4. QED
    BY <1>2, <2>2, <2>3 DEF Agree
<1>10. SpreadLog(log)'
  BY <1>2, <1>4 DEF SpreadLog
<1>11. \A b \in Account : Spread(ledger'[b], price)
  BY <1>4, <1>5, <1>6
<1>12. QED
  BY <1>2, <1>4, <1>6, <1>8, <1>9, <1>10, <1>11 DEF SpreadInv

(* What changes neither calls nor accounts nor what the log holds. *)
LEMMA WorldSpreads ==
  ASSUME SpreadInv, Sync \/ Break \/ UNCHANGED vars
  PROVE  SpreadInv'
<1>1. UNCHANGED <<ledger, log, price, pc, req, got>> /\ (broken => broken')
  BY DEF Sync, Break, vars, memory, disk, actors, calls, world
<1>2. \A c \in Call : CallSpread(c)'
  BY <1>1 DEF SpreadInv, CallSpread, Concentrated
<1>3. SpreadLog(log)'
  BY <1>1 DEF SpreadInv, SpreadLog
<1>4. ~broken' => Agree'
  BY <1>1 DEF SpreadInv, Agree, Calm
<1>5. QED
  BY <1>1, <1>2, <1>3, <1>4 DEF SpreadInv

(* A restart has the accounts the log leaves it. *)
LEMMA RestartSpreads ==
  ASSUME IInv, SpreadInv, Kill \/ PowerCut
  PROVE  SpreadInv'
<1>1. PICK n : n \in 0 .. Len(log) /\ Restart(n)
  BY DEF Kill, PowerCut, IInv, Shape
<1>2. PICK l : l = SubSeq(log, 1, n)
  OBVIOUS
<1>3. /\ log' = l /\ ledger' = Book(l)
      /\ req' = req /\ got' = got /\ price' = price
  BY <1>1, <1>2 DEF Restart, Book, Opening
<1>4. \A c \in Call : pc'[c] \notin Trades /\ (pc'[c] # "idle" => pc[c] # "idle")
  BY <1>1 DEF Restart, Trades
<1>5. log \in Seq(Entry) /\ SpreadLog(log) /\ price \in PriceTable
  BY DEF SpreadInv
<1>6. l \in Seq(Entry) /\ Len(l) = n /\ Book(l) \in Books
  BY <1>1, <1>2, <1>5, LogParts, Replaying
<1>7. SpreadLog(l)
  <2>1. ASSUME NEW k \in 0 .. Len(l), NEW a \in Account
        PROVE  Spread(Book(SubSeq(l, 1, k))[a], price)
    <3>1. SubSeq(l, 1, k) = SubSeq(log, 1, k) /\ k \in 0 .. Len(log)
      BY <1>1, <1>2, <1>5, <1>6, Cuts
    <3>2. QED
      BY <1>5, <3>1 DEF SpreadLog
  <2>2. QED
    BY <2>1 DEF SpreadLog
<1>8. \A a \in Account : Spread(Book(l)[a], price)
  BY <1>1, <1>2, <1>5 DEF SpreadLog
<1>9. ASSUME NEW c \in Call PROVE CallSpread(c)'
  BY <1>3, <1>4 DEF SpreadInv, CallSpread, Trades
<1>10. Agree'
  BY <1>3, <1>4 DEF Agree, Trades
<1>11. SpreadLog(log)'
  BY <1>3, <1>7 DEF SpreadLog
<1>12. QED
  BY <1>3, <1>5, <1>6, <1>8, <1>9, <1>10, <1>11 DEF SpreadInv

(* Who disturbs the accounts never undoes it. *)
LEMMA StaysDisturbed ==
  ASSUME IInv, moves \in Nat, [Next]_vars
  PROVE  /\ moves' \in Nat
         /\ Undisturbed' => /\ Undisturbed /\ ~PriceMove
                            /\ \A o \in Organiser : ~(Ask(o) \/ OpStep(o))
<1>1. moves' = moves \/ (PriceMove /\ moves' = moves + 1)
  BY DEF Next, CallStep, OpStep, Arrive, Repeat, Quote, Check, Commit, Apply, GiveUp, Answer, Ask,
     Measure, AdjustCash, NoteAverage, Revoke, Store, StoreGrant, Stored, Grant, PriceMove,
     Sync, Break, Kill, PowerCut, Restart, vars, world
<1>2. moves' \in Nat /\ (moves' = 0 => moves = 0)
  BY <1>1
<1>3. PriceMove => moves' # 0
  BY DEF PriceMove
<1>4. DOMAIN opPc = Organiser
  BY DEF IInv, Shape
<1>5. ASSUME NEW o \in Organiser, Ask(o) \/ OpStep(o) PROVE opPc'[o] # "idle"
  BY <1>4, <1>5 DEF Ask, OpStep, Measure, AdjustCash, NoteAverage, Revoke, Store, StoreGrant,
     Stored, Grant, OpTo, Undo
<1>6. ASSUME \A o \in Organiser : ~(Ask(o) \/ OpStep(o))
      PROVE  opPc' = opPc \/ \E n : Restart(n)
  BY <1>6 DEF Next, CallStep, Arrive, Repeat, Quote, Check, Commit, Apply, GiveUp, Answer,
     PriceMove, Sync, Break, Kill, PowerCut, vars, actors, ops
<1>7. ASSUME Undisturbed' PROVE \A o \in Organiser : ~(Ask(o) \/ OpStep(o)) /\ opPc[o] = "idle"
  BY <1>5, <1>6, <1>7 DEF Undisturbed, Restart
<1>8. QED
  BY <1>2, <1>3, <1>7 DEF Undisturbed

(* Every step keeps the accounts spread until somebody disturbs them. *)
LEMMA NextSpread ==
  ASSUME IInv, moves \in Nat, Undisturbed => SpreadInv, [Next]_vars
  PROVE  moves' \in Nat /\ (Undisturbed' => SpreadInv')
<1>1. moves' \in Nat
  BY StaysDisturbed
<1> SUFFICES ASSUME Undisturbed' PROVE SpreadInv'
  BY <1>1
<1>2. SpreadInv /\ ~PriceMove /\ MaxPercent > 0 /\ \A o \in Organiser : ~(Ask(o) \/ OpStep(o))
  BY StaysDisturbed DEF Undisturbed
<1>3. ASSUME NEW c \in Call, Arrive(c) \/ CallStep(c) PROVE SpreadInv'
  BY <1>2, <1>3, CallSpreads, CommitSpreads, ApplySpreads DEF CallStep
<1>4. QED
  BY <1>2, <1>3, WorldSpreads, RestartSpreads DEF Next

(* No interleaving of buys, however many, leaves one company above its     *)
(* share of an account, crashes included, until prices move or somebody    *)
(* corrects an account: the guard's look at the account and the trade it   *)
(* lets through are under the account's lock (concentrationGuard).         *)
THEOREM SpreadStays == Spec => []Diversified
<1> DEFINE J == moves \in Nat /\ (Undisturbed => SpreadInv)
<1>1. Init => J
  BY InitSpread DEF Init
<1>2. IInv /\ J /\ [Next]_vars => J'
  BY NextSpread
<1>3. J => Diversified
  <2> SUFFICES ASSUME SpreadInv, MaxPercent > 0, NEW a \in Account, NEW s \in DOMAIN ledger[a].pos
               PROVE  100 * ledger[a].pos[s].qty * price[s] <= MaxPercent * Worth(ledger[a], price)
    BY DEF Diversified, Undisturbed
  <2>1. Spread(ledger[a], price)
    BY DEF SpreadInv
  <2>2. ledger[a] \in Wallet
    BY <2>1 DEF Spread
  <2>3. DOMAIN ledger[a].pos \subseteq Symbol
    BY <2>2 DEF Wallet
  <2>4. s \in Symbol /\ Position(ledger[a], s) = ledger[a].pos[s]
    BY <2>3 DEF Position
  <2>5. QED
    BY <2>1, <2>4 DEF Spread
<1> HIDE DEF J
<1>4. QED
  BY <1>1, <1>2, <1>3, Inductive, PTL DEF Spec
=============================================================================
