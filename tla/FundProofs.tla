----------------------------- MODULE FundProofs -----------------------------
(***************************************************************************)
(* What is proved of FundOps, for any teams, funds, requests and prices,   *)
(* any number of calls and kills, and a log that may break - while forming *)
(* and dissolving the funds is kept apart from trades (~Rush): a restart   *)
(* brings the funds back as they were, every unit has an owner, and        *)
(* performance fees are for new highs only.                                *)
(*                                                                         *)
(* The argument: the log can always be replayed by the code's own loop     *)
(* (Logged), and the book, the accounts, the roles and the recent trades   *)
(* it gives are the live ones with what the call that holds fundMu has     *)
(* stored and not yet applied in full (Matches).  What such a call has     *)
(* worked out is still accepted when it is stored (Ready), since nobody    *)
(* else changes the book meanwhile (Alone), and nobody trades with the     *)
(* accounts that are being moved (Apart).                                  *)
(*                                                                         *)
(* The books are in order (StateFit) live and in what a restart would make *)
(* of the log, since both are changed by the same events, and what a call  *)
(* has worked out keeps to what it was worked out from (Fits).             *)
(***************************************************************************)
EXTENDS FundOps, Induction

-----------------------------------------------------------------------------
(* Record after record: f gives the state for every set of the records'    *)
(* places.                                                                 *)
Unfolds(b, s, n, f) ==
    f = [d \in SUBSET (1 .. n) |->
            IF d = {} THEN b ELSE Restored(f[d \ {Max(d)}], s[Max(d)])]

LEMMA RestoresExist ==
  ASSUME NEW b, NEW R, NEW s \in Seq(R)
  PROVE  \E f : Unfolds(b, s, Len(s), f)
<1> DEFINE N == {n \in Nat : \E f : Unfolds(b, s, n, f)}
<1>1. 0 \in N
  <2> DEFINE f == [d \in {{}} |-> b]
  <2>1. 1 .. 0 = {} /\ SUBSET {} = {{}}
    OBVIOUS
  <2>2. Unfolds(b, s, 0, f)
    BY <2>1 DEF Unfolds
  <2>3. QED
    BY <2>2
<1>2. ASSUME NEW n \in Nat, n \in N PROVE n + 1 \in N
  <2>1. PICK f : Unfolds(b, s, n, f)
    BY <1>2
  <2> DEFINE g == [d \in SUBSET (1 .. n + 1) |->
                      IF n + 1 \in d THEN Restored(f[d \ {n + 1}], s[n + 1]) ELSE f[d]]
  <2>2. ASSUME NEW d \in SUBSET (1 .. n + 1)
        PROVE  g[d] = IF d = {} THEN b ELSE Restored(g[d \ {Max(d)}], s[Max(d)])
    <3>1. CASE n + 1 \in d
      <4>1. Max(d) = n + 1
        BY <3>1, Largest
      <4>2. d \ {n + 1} \in SUBSET (1 .. n + 1) /\ n + 1 \notin d \ {n + 1}
        OBVIOUS
      <4>3. g[d \ {n + 1}] = f[d \ {n + 1}]
        BY <4>2
      <4>4. g[d] = Restored(f[d \ {n + 1}], s[n + 1])
        BY <3>1
      <4>5. QED
        BY <3>1, <4>1, <4>3, <4>4
    <3>2. CASE n + 1 \notin d
      <4>1. d \in SUBSET (1 .. n) /\ g[d] = f[d]
        BY <3>2
      <4>2. f[d] = IF d = {} THEN b ELSE Restored(f[d \ {Max(d)}], s[Max(d)])
        BY <2>1, <4>1 DEF Unfolds
      <4>3. d \ {Max(d)} \in SUBSET (1 .. n + 1) /\ n + 1 \notin d \ {Max(d)}
        BY <3>2
      <4>4. g[d \ {Max(d)}] = f[d \ {Max(d)}]
        BY <4>3
      <4>5. QED
        BY <4>1, <4>2, <4>4
    <3>3. QED
      BY <3>1, <3>2
  <2>3. DOMAIN g = SUBSET (1 .. n + 1) /\ g = [d \in SUBSET (1 .. n + 1) |-> g[d]]
    OBVIOUS
  <2> HIDE DEF g
  <2>4. Unfolds(b, s, n + 1, g)
    BY <2>2, <2>3 DEF Unfolds
  <2>5. QED
    BY <2>4
<1> HIDE DEF N
<1>3. Len(s) \in N
  BY <1>1, <1>2, Numbers
<1>4. QED
  BY <1>3 DEF N

(* What the records of s make of the state b. *)
Outcome(b, s) == FoldLeft(Restored, b, s)

Runs(b, s, f) ==
    /\ f[{}] = b /\ Outcome(b, s) = f[1 .. Len(s)]
    /\ \A k \in 1 .. Len(s) : f[1 .. k] = Restored(f[1 .. k - 1], s[k])

LEMMA RestoresAre ==
  ASSUME NEW b, NEW R, NEW s \in Seq(R)
  PROVE  \E f : Runs(b, s, f)
<1>1. PICK f : /\ f = CHOOSE h : h = [d \in SUBSET (DOMAIN s) |->
                            IF d = {} THEN b ELSE Restored(h[d \ {Max(d)}], s[Max(d)])]
  OBVIOUS
<1>2. Unfolds(b, s, Len(s), f)
  <2>1. PICK h : Unfolds(b, s, Len(s), h)
    BY RestoresExist
  <2>2. DOMAIN s = 1 .. Len(s)
    OBVIOUS
  <2>3. h = [d \in SUBSET (DOMAIN s) |->
               IF d = {} THEN b ELSE Restored(h[d \ {Max(d)}], s[Max(d)])]
    BY <2>1, <2>2 DEF Unfolds
  <2>4. f = [d \in SUBSET (DOMAIN s) |->
               IF d = {} THEN b ELSE Restored(f[d \ {Max(d)}], s[Max(d)])]
    BY <1>1, <2>3
  <2>5. QED
    BY <2>2, <2>4 DEF Unfolds
<1>3. Outcome(b, s) = f[DOMAIN s]
  BY <1>1 DEF Outcome, FoldLeft, MapThenFoldSet
<1>4. DOMAIN s = 1 .. Len(s) /\ Len(s) \in Nat
  OBVIOUS
<1>5. f[{}] = b
  BY <1>2 DEF Unfolds
<1>6. ASSUME NEW k \in 1 .. Len(s) PROVE f[1 .. k] = Restored(f[1 .. k - 1], s[k])
  <2>1. /\ (1 .. k) \ {k} = 1 .. k - 1 /\ 1 .. k # {}
        /\ 1 .. k \in SUBSET (1 .. Len(s)) /\ Max(1 .. k) = k
    BY <1>4, UpTo
  <2>2. \A d \in SUBSET (1 .. Len(s)) :
           f[d] = IF d = {} THEN b ELSE Restored(f[d \ {Max(d)}], s[Max(d)])
    BY <1>2, <1>4 DEF Unfolds
  <2>3. QED
    BY <2>1, <2>2
<1>7. Runs(b, s, f)
  BY <1>3, <1>4, <1>5, <1>6 DEF Runs
<1>8. QED
  BY <1>7

(* A log is replayed record by record. *)
LEMMA NoRecords ==
  ASSUME NEW b
  PROVE  Outcome(b, <<>>) = b
<1>1. Outcome(b, <<>>) = b
  <2>1. <<>> \in Seq({}) /\ Len(<<>>) = 0 /\ 1 .. 0 = {}
    OBVIOUS
  <2>2. PICK f : Runs(b, <<>>, f)
    BY <2>1, RestoresAre
  <2>3. QED
    BY <2>1, <2>2 DEF Runs
<1>2. QED
  BY <1>1

LEMMA RestoredSteps ==
  ASSUME NEW b, NEW R, NEW s \in Seq(R), NEW x \in R
  PROVE  Outcome(b, Append(s, x)) = Restored(Outcome(b, s), x)
<1>2. Outcome(b, Append(s, x)) = Restored(Outcome(b, s), x)
  <2>1. PICK t : t = Append(s, x)
    OBVIOUS
  <2>2. /\ t \in Seq(R) /\ Len(s) \in Nat /\ Len(t) = Len(s) + 1 /\ t[Len(s) + 1] = x
        /\ \A k \in 1 .. Len(s) : t[k] = s[k]
    BY <2>1
  <2>3. PICK f : Runs(b, s, f)
    BY RestoresAre
  <2>4. PICK g : Runs(b, t, g)
    BY <2>2, RestoresAre
  <2> DEFINE N == {n \in Nat : n <= Len(s) => f[1 .. n] = g[1 .. n]}
  <2>5. 0 \in N
    <3>1. 1 .. 0 = {}
      OBVIOUS
    <3>2. QED
      BY <2>3, <2>4, <3>1 DEF Runs
  <2>6. ASSUME NEW n \in Nat, n \in N PROVE n + 1 \in N
    <3> SUFFICES ASSUME n + 1 <= Len(s) PROVE f[1 .. n + 1] = g[1 .. n + 1]
      OBVIOUS
    <3>1. /\ n + 1 \in 1 .. Len(s) /\ n + 1 \in 1 .. Len(t) /\ (n + 1) - 1 = n
          /\ n <= Len(s)
      BY <2>2
    <3>2. f[1 .. n] = g[1 .. n]
      BY <2>6, <3>1
    <3>3. f[1 .. n + 1] = Restored(f[1 .. n], s[n + 1])
      BY <2>3, <3>1 DEF Runs
    <3>4. g[1 .. n + 1] = Restored(g[1 .. n], t[n + 1])
      BY <2>4, <3>1 DEF Runs
    <3>5. t[n + 1] = s[n + 1]
      BY <2>2, <3>1
    <3>6. QED
      BY <3>2, <3>3, <3>4, <3>5
  <2> HIDE DEF N
  <2>7. Len(s) \in N
    BY <2>2, <2>5, <2>6, Numbers
  <2>8. f[1 .. Len(s)] = g[1 .. Len(s)]
    BY <2>2, <2>7 DEF N
  <2>9. g[1 .. Len(s) + 1] = Restored(g[1 .. Len(s)], x)
    <3>1. Len(s) + 1 \in 1 .. Len(t) /\ (Len(s) + 1) - 1 = Len(s)
      BY <2>2
    <3>2. QED
      BY <2>2, <2>4, <3>1 DEF Runs
  <2>10. QED
    BY <2>1, <2>2, <2>3, <2>4, <2>8, <2>9 DEF Runs
<1>3. QED
  BY <1>2

-----------------------------------------------------------------------------
(* Move after move, in the same way. *)
Shifts(b, s, n, f) ==
    f = [d \in SUBSET (1 .. n) |->
            IF d = {} THEN b ELSE AfterMove(f[d \ {Max(d)}], s[Max(d)])]

LEMMA MovesExist ==
  ASSUME NEW b, NEW R, NEW s \in Seq(R)
  PROVE  \E f : Shifts(b, s, Len(s), f)
<1> DEFINE N == {n \in Nat : \E f : Shifts(b, s, n, f)}
<1>1. 0 \in N
  <2> DEFINE f == [d \in {{}} |-> b]
  <2>1. 1 .. 0 = {} /\ SUBSET {} = {{}}
    OBVIOUS
  <2>2. Shifts(b, s, 0, f)
    BY <2>1 DEF Shifts
  <2>3. QED
    BY <2>2
<1>2. ASSUME NEW n \in Nat, n \in N PROVE n + 1 \in N
  <2>1. PICK f : Shifts(b, s, n, f)
    BY <1>2
  <2> DEFINE g == [d \in SUBSET (1 .. n + 1) |->
                      IF n + 1 \in d THEN AfterMove(f[d \ {n + 1}], s[n + 1]) ELSE f[d]]
  <2>2. ASSUME NEW d \in SUBSET (1 .. n + 1)
        PROVE  g[d] = IF d = {} THEN b ELSE AfterMove(g[d \ {Max(d)}], s[Max(d)])
    <3>1. CASE n + 1 \in d
      <4>1. Max(d) = n + 1
        BY <3>1, Largest
      <4>2. d \ {n + 1} \in SUBSET (1 .. n + 1) /\ n + 1 \notin d \ {n + 1}
        OBVIOUS
      <4>3. g[d \ {n + 1}] = f[d \ {n + 1}]
        BY <4>2
      <4>4. g[d] = AfterMove(f[d \ {n + 1}], s[n + 1])
        BY <3>1
      <4>5. QED
        BY <3>1, <4>1, <4>3, <4>4
    <3>2. CASE n + 1 \notin d
      <4>1. d \in SUBSET (1 .. n) /\ g[d] = f[d]
        BY <3>2
      <4>2. f[d] = IF d = {} THEN b ELSE AfterMove(f[d \ {Max(d)}], s[Max(d)])
        BY <2>1, <4>1 DEF Shifts
      <4>3. d \ {Max(d)} \in SUBSET (1 .. n + 1) /\ n + 1 \notin d \ {Max(d)}
        BY <3>2
      <4>4. g[d \ {Max(d)}] = f[d \ {Max(d)}]
        BY <4>3
      <4>5. QED
        BY <4>1, <4>2, <4>4
    <3>3. QED
      BY <3>1, <3>2
  <2>3. DOMAIN g = SUBSET (1 .. n + 1) /\ g = [d \in SUBSET (1 .. n + 1) |-> g[d]]
    OBVIOUS
  <2> HIDE DEF g
  <2>4. Shifts(b, s, n + 1, g)
    BY <2>2, <2>3 DEF Shifts
  <2>5. QED
    BY <2>4
<1> HIDE DEF N
<1>3. Len(s) \in N
  BY <1>1, <1>2, Numbers
<1>4. QED
  BY <1>3 DEF N

Moves(b, s, f) ==
    /\ f[{}] = b /\ AfterMoves(b, s) = f[1 .. Len(s)]
    /\ \A k \in 1 .. Len(s) : f[1 .. k] = AfterMove(f[1 .. k - 1], s[k])

LEMMA MovesAre ==
  ASSUME NEW b, NEW R, NEW s \in Seq(R)
  PROVE  \E f : Moves(b, s, f)
<1>1. PICK f : /\ f = CHOOSE h : h = [d \in SUBSET (DOMAIN s) |->
                            IF d = {} THEN b ELSE AfterMove(h[d \ {Max(d)}], s[Max(d)])]
  OBVIOUS
<1>2. Shifts(b, s, Len(s), f)
  <2>1. PICK h : Shifts(b, s, Len(s), h)
    BY MovesExist
  <2>2. DOMAIN s = 1 .. Len(s)
    OBVIOUS
  <2>3. h = [d \in SUBSET (DOMAIN s) |->
               IF d = {} THEN b ELSE AfterMove(h[d \ {Max(d)}], s[Max(d)])]
    BY <2>1, <2>2 DEF Shifts
  <2>4. f = [d \in SUBSET (DOMAIN s) |->
               IF d = {} THEN b ELSE AfterMove(f[d \ {Max(d)}], s[Max(d)])]
    BY <1>1, <2>3
  <2>5. QED
    BY <2>2, <2>4 DEF Shifts
<1>3. AfterMoves(b, s) = f[DOMAIN s]
  BY <1>1 DEF AfterMoves, FoldLeft, MapThenFoldSet
<1>4. DOMAIN s = 1 .. Len(s) /\ Len(s) \in Nat
  OBVIOUS
<1>5. f[{}] = b
  BY <1>2 DEF Shifts
<1>6. ASSUME NEW k \in 1 .. Len(s) PROVE f[1 .. k] = AfterMove(f[1 .. k - 1], s[k])
  <2>1. /\ (1 .. k) \ {k} = 1 .. k - 1 /\ 1 .. k # {}
        /\ 1 .. k \in SUBSET (1 .. Len(s)) /\ Max(1 .. k) = k
    BY <1>4, UpTo
  <2>2. \A d \in SUBSET (1 .. Len(s)) :
           f[d] = IF d = {} THEN b ELSE AfterMove(f[d \ {Max(d)}], s[Max(d)])
    BY <1>2, <1>4 DEF Shifts
  <2>3. QED
    BY <2>1, <2>2
<1>7. Moves(b, s, f)
  BY <1>3, <1>4, <1>5, <1>6 DEF Moves
<1>8. QED
  BY <1>7

(* Moves are made one by one. *)
LEMMA NoMoves ==
  ASSUME NEW b
  PROVE  AfterMoves(b, <<>>) = b
<1>1. AfterMoves(b, <<>>) = b
  <2>1. <<>> \in Seq({}) /\ Len(<<>>) = 0 /\ 1 .. 0 = {}
    OBVIOUS
  <2>2. PICK f : Moves(b, <<>>, f)
    BY <2>1, MovesAre
  <2>3. QED
    BY <2>1, <2>2 DEF Moves
<1>2. QED
  BY <1>1

LEMMA MoveSteps ==
  ASSUME NEW b, NEW R, NEW s \in Seq(R), NEW x \in R
  PROVE  AfterMoves(b, Append(s, x)) = AfterMove(AfterMoves(b, s), x)
<1>2. AfterMoves(b, Append(s, x)) = AfterMove(AfterMoves(b, s), x)
  <2>1. PICK t : t = Append(s, x)
    OBVIOUS
  <2>2. /\ t \in Seq(R) /\ Len(s) \in Nat /\ Len(t) = Len(s) + 1 /\ t[Len(s) + 1] = x
        /\ \A k \in 1 .. Len(s) : t[k] = s[k]
    BY <2>1
  <2>3. PICK f : Moves(b, s, f)
    BY MovesAre
  <2>4. PICK g : Moves(b, t, g)
    BY <2>2, MovesAre
  <2> DEFINE N == {n \in Nat : n <= Len(s) => f[1 .. n] = g[1 .. n]}
  <2>5. 0 \in N
    <3>1. 1 .. 0 = {}
      OBVIOUS
    <3>2. QED
      BY <2>3, <2>4, <3>1 DEF Moves
  <2>6. ASSUME NEW n \in Nat, n \in N PROVE n + 1 \in N
    <3> SUFFICES ASSUME n + 1 <= Len(s) PROVE f[1 .. n + 1] = g[1 .. n + 1]
      OBVIOUS
    <3>1. /\ n + 1 \in 1 .. Len(s) /\ n + 1 \in 1 .. Len(t) /\ (n + 1) - 1 = n
          /\ n <= Len(s)
      BY <2>2
    <3>2. f[1 .. n] = g[1 .. n]
      BY <2>6, <3>1
    <3>3. f[1 .. n + 1] = AfterMove(f[1 .. n], s[n + 1])
      BY <2>3, <3>1 DEF Moves
    <3>4. g[1 .. n + 1] = AfterMove(g[1 .. n], t[n + 1])
      BY <2>4, <3>1 DEF Moves
    <3>5. t[n + 1] = s[n + 1]
      BY <2>2, <3>1
    <3>6. QED
      BY <3>2, <3>3, <3>4, <3>5
  <2> HIDE DEF N
  <2>7. Len(s) \in N
    BY <2>2, <2>5, <2>6, Numbers
  <2>8. f[1 .. Len(s)] = g[1 .. Len(s)]
    BY <2>2, <2>7 DEF N
  <2>9. g[1 .. Len(s) + 1] = AfterMove(g[1 .. Len(s)], x)
    <3>1. Len(s) + 1 \in 1 .. Len(t) /\ (Len(s) + 1) - 1 = Len(s)
      BY <2>2
    <3>2. QED
      BY <2>2, <2>4, <3>1 DEF Moves
  <2>10. QED
    BY <2>1, <2>2, <2>3, <2>4, <2>8, <2>9 DEF Moves
<1>3. QED
  BY <1>2

-----------------------------------------------------------------------------
(* The invariant of the restart.                                           *)

(* A sequence of its own elements. *)
Listed(s) == s \in Seq(ToSet(s))

(* The log can be replayed by the code's own loop. *)
Logged(l) == Listed(l) /\ Rebuilt(l).ok = TRUE

(* The state a replay ends in has its five parts. *)
Whole(s) ==
    s = [ledger |-> s.ledger, book |-> s.book, role |-> s.role,
         traded |-> s.traded, ok |-> s.ok]

(* What calls note while they form, dissolve and redeem. *)
FormNote(g) ==
    /\ g.op = "formed"
    /\ g = [op |-> g.op, funds |-> g.funds, moves |-> g.moves, seeds |-> g.seeds,
            ranking |-> g.ranking, todo |-> g.todo]

RedeemNote(g) ==
    /\ g.op = "redeem"
    /\ g = [op |-> g.op, fund |-> g.fund, who |-> g.who, window |-> g.window,
            amount |-> g.amount, units |-> g.units, nav |-> g.nav, at |-> g.at,
            sell |-> g.sell]

MovesNote(g) == g = [todo |-> g.todo, op |-> g.op, next |-> g.next]

OpOf(c) ==
    IF Kind(c) = "form" THEN "formed" ELSE IF Kind(c) = "sample" THEN "series" ELSE Kind(c)

(* Where a call can be, by what it is, and what it has noted. *)
Shaped(c) ==
    /\ pc[c] = "reading" => Kind(c) = "form" /\ FormNote(got[c])
    /\ pc[c] \in {"raising", "selling"} => Kind(c) = "redeem" /\ RedeemNote(got[c])
    /\ pc[c] \in {"storing", "stored"} =>
          /\ Kind(c) # "trade" /\ got[c].op = OpOf(c)
          /\ Kind(c) = "form" => FormNote(got[c])
          /\ Kind(c) = "redeem" => RedeemNote(got[c])
    /\ pc[c] \in {"moving", "clearing", "roles"} =>
          Restructures(c) /\ got[c].op = OpOf(c) /\ MovesNote(got[c])
    /\ pc[c] = "clearing" => Kind(c) = "dissolve"
    /\ pc[c] = "made" => Kind(c) = "trade"

Shapes ==
    /\ pc \in [Call -> {"idle"} \cup Acting \cup {"over", "stuck"}]
    /\ got = [c \in Call |-> got[c]]
    /\ \A c \in Call : Shaped(c)

(* Only one call has fundMu. *)
Alone == \A c, d \in Call : HoldsFundMu(c) /\ HoldsFundMu(d) => c = d

(* Forming and dissolving are kept apart from trades. *)
Apart ==
    \A c, d \in Call : pc[c] \in Acting /\ pc[d] \in Acting => ~(Restructures(c) /\ Looks(d))

(* What a call has worked out is still accepted when it stores it, and the *)
(* moves of it are in a list.                                              *)
ReadyAt(c) ==
    /\ pc[c] \in {"reading", "raising", "selling", "storing", "stored"} =>
          Accepts(book, got[c]) /\ (Restructures(c) => Listed(got[c].moves))
    /\ pc[c] = "moving" => Listed(got[c].todo)
    /\ pc[c] = "asked" /\ Kind(c) \in {"profile", "trader"} =>
          got[c].fund \in DOMAIN book.funds
    /\ pc[c] = "asked" /\ Kind(c) = "trader" =>
          Wants[c].who \in ToSet(book.funds[got[c].fund].members)

Ready == \A c \in Call : ReadyAt(c)

(* The book has its parts, and so has every fund of it. *)
FundWhole(f) ==
    f = [account |-> f.account, members |-> f.members, trader |-> f.trader,
         fee |-> f.fee, units |-> f.units, seeded |-> f.seeded, minted |-> f.minted,
         redeemed |-> f.redeemed, active |-> f.active, mark |-> f.mark,
         peak |-> f.peak, fall |-> f.fall, aums |-> f.aums]

BookWhole(b) ==
    /\ b = [formed |-> b.formed, funds |-> b.funds, held |-> b.held, inflow |-> b.inflow,
            ranking |-> b.ranking, moves |-> b.moves, risks |-> b.risks,
            checks |-> b.checks, logs |-> b.logs]
    /\ b.funds = [f \in DOMAIN b.funds |-> b.funds[f]]
    /\ \A f \in DOMAIN b.funds : FundWhole(b.funds[f])
    /\ Listed(b.moves)

(* An event is stored and not yet applied in full. *)
Applying(c) == pc[c] \in {"stored", "moving", "clearing"}

(* What the log says of the book and the accounts meanwhile. *)
BookDue(c) ==
    CASE pc[c] = "stored" -> Apply(book, got[c])
      [] pc[c] = "moving" -> IF got[c].op = "formed" THEN book ELSE NewBook
      [] OTHER -> book

LedgerDue(c) ==
    CASE pc[c] = "stored" /\ got[c].op = "formed" ->
            AfterMoves(WithFunds(ledger, DOMAIN got[c].funds), got[c].moves)
      [] pc[c] = "stored" /\ got[c].op = "dissolve" ->
            Removed(AfterMoves(ledger, got[c].moves), DOMAIN book.funds)
      [] pc[c] = "moving" /\ got[c].op = "formed" -> AfterMoves(ledger, got[c].todo)
      [] pc[c] = "moving" /\ got[c].op = "dissolve" ->
            Removed(AfterMoves(ledger, got[c].todo), DOMAIN book.funds)
      [] pc[c] = "clearing" -> Removed(ledger, got[c].todo)
      [] OTHER -> ledger

BookMatches ==
    /\ \A c \in Call : Applying(c) => Rebuilt(log).book = BookDue(c)
    /\ (\A c \in Call : ~Applying(c)) => Rebuilt(log).book = book

LedgerMatches ==
    /\ \A c \in Call : Applying(c) => Rebuilt(log).ledger = LedgerDue(c)
    /\ (\A c \in Call : ~Applying(c)) => Rebuilt(log).ledger = ledger

(* A trade that is made joins the list of recent trades a little later. *)
TradesMatch == Rebuilt(log).traded = traded \cup {got[c].acct : c \in {d \in Call : pc[d] = "made"}}

Matches == BookMatches /\ LedgerMatches /\ TradesMatch /\ Rebuilt(log).role = role

RestartInv ==
    /\ Shapes /\ Alone /\ Apart /\ Ready
    /\ Logged(log) /\ Whole(Rebuilt(log))
    /\ BookWhole(book) /\ BookWhole(Rebuilt(log).book)
    /\ ~broken => Matches

-----------------------------------------------------------------------------
(* Who moves, and how. *)
LEMMA PutsAt ==
  ASSUME Shapes, NEW c \in Call,
         NEW p \in {"idle"} \cup Acting \cup {"over", "stuck"}
  PROVE  /\ To(c, p) => /\ pc' \in [Call -> {"idle"} \cup Acting \cup {"over", "stuck"}]
                        /\ pc'[c] = p /\ \A d \in Call \ {c} : pc'[d] = pc[d]
         /\ \A w : Note(c, w) => /\ got' = [d \in Call |-> got'[d]]
                                /\ got'[c] = w /\ \A d \in Call \ {c} : got'[d] = got[d]
         /\ UNCHANGED got => /\ got' = [d \in Call |-> got'[d]]
                             /\ \A d \in Call : got'[d] = got[d]
BY DEF Shapes, To, Note

(* What one call does to its place and to what it has noted: nothing of    *)
(* the others'.                                                            *)
Moved1(c) ==
    /\ pc' \in [Call -> {"idle"} \cup Acting \cup {"over", "stuck"}]
    /\ got' = [d \in Call |-> got'[d]]
    /\ \A d \in Call \ {c} : pc'[d] = pc[d] /\ got'[d] = got[d]

LEMMA ExecuteMoves ==
  ASSUME Shapes, NEW c \in Call, NEW t, NEW made \in Acting, NEW refused \in {"over", "stuck"},
         Execute(c, t, made, refused)
  PROVE  /\ Moved1(c)
         /\ pc'[c] \in {made, refused, "over"}
         /\ pc'[c] = made => got'[c] = got[c]
<1>1. CASE Leaves(c, refused)
  BY <1>1, PutsAt DEF Leaves, Moved1, Acting
<1>2. CASE To(c, made) /\ UNCHANGED got
  <2>1. made \in {"idle"} \cup Acting \cup {"over", "stuck"}
    OBVIOUS
  <2>2. QED
    BY <1>2, <2>1, PutsAt DEF Moved1
<1>3. CASE Ends(c)
  BY <1>3, PutsAt DEF Ends, Leaves, Moved1, Acting
<1>4. QED
  BY <1>1, <1>2, <1>3 DEF Execute

LEMMA KindsKnown ==
  ASSUME NEW c \in Call
  PROVE  Kind(c) \in {"form", "dissolve", "sample", "checkpoint", "fundDQ", "log", "profile",
                     "trader", "trade", "alloc", "redeem"}
BY FundAssumption DEF Request, Kind

(* What each step of a call makes of its place and its notes. *)
LEMMA TradeShape ==
  ASSUME Shapes, NEW c \in Call, Trade(c)
  PROVE  Moved1(c) /\ Shaped(c)' /\ pc'[c] \in {"made", "over"}
<1>1. Kind(c) = "trade"
  BY DEF Trade
<1>2. Moved1(c) /\ pc'[c] \in {"made", "over"}
  <2>1. PICK t : Execute(c, t, "made", "over")
    BY DEF Trade
  <2>2. "made" \in Acting /\ "over" \in {"over", "stuck"}
    BY DEF Acting
  <2>3. QED
    BY <2>1, <2>2, ExecuteMoves
<1>3. QED
  BY <1>1, <1>2 DEF Shaped, Kind

LEMMA RecordShape ==
  ASSUME Shapes, NEW c \in Call, Record(c)
  PROVE  Moved1(c) /\ Shaped(c)' /\ pc'[c] = "over"
<1>1. Moved1(c) /\ pc'[c] = "over"
  BY PutsAt DEF Record, Ends, Leaves, Moved1
<1>2. QED
  BY <1>1 DEF Shaped

LEMMA EndsShape ==
  ASSUME Shapes, NEW c \in Call, NEW p \in {"over", "stuck"}, Leaves(c, p)
  PROVE  Moved1(c) /\ Shaped(c)' /\ pc'[c] = p
<1>1. Moved1(c) /\ pc'[c] = p
  BY PutsAt DEF Leaves, Moved1
<1>2. QED
  BY <1>1 DEF Shaped

LEMMA PlanShape ==
  ASSUME Shapes, NEW c \in Call, Plan(c)
  PROVE  Moved1(c) /\ Shaped(c)' /\ pc'[c] \in {"over", "reading", "storing", "raising"}
<1>1. CASE Ends(c)
  BY <1>1, EndsShape DEF Ends
<1>2. ASSUME PlanForm(c), ~Ends(c)
      PROVE  Moved1(c) /\ pc'[c] = "reading" /\ Kind(c) = "form" /\ FormNote(got'[c])
  <2>1. PICK pairs : /\ To(c, "reading")
                     /\ Note(c, [op |-> "formed", funds |-> FundsOf(pairs), moves |-> <<>>,
                             seeds |-> <<>>, ranking |-> pairs, todo |-> TeamsOf(pairs)])
    BY <1>2 DEF PlanForm
  <2>2. "reading" \in Acting
    BY DEF Acting
  <2>3. Moved1(c) /\ pc'[c] = "reading"
        /\ got'[c] = [op |-> "formed", funds |-> FundsOf(pairs), moves |-> <<>>,
                      seeds |-> <<>>, ranking |-> pairs, todo |-> TeamsOf(pairs)]
    BY <2>1, <2>2, PutsAt DEF Moved1
  <2>4. QED
    BY <1>2, <2>3 DEF PlanForm, FormNote
<1>3. ASSUME PlanDissolve(c), ~Ends(c)
      PROVE  Moved1(c) /\ pc'[c] = "storing" /\ Kind(c) = "dissolve" /\ got'[c].op = "dissolve"
  <2>1. PICK m : To(c, "storing") /\ Note(c, [op |-> "dissolve", moves |-> m])
    BY <1>3 DEF PlanDissolve
  <2>2. "storing" \in Acting
    BY DEF Acting
  <2>3. Moved1(c) /\ pc'[c] = "storing" /\ got'[c] = [op |-> "dissolve", moves |-> m]
    BY <2>1, <2>2, PutsAt DEF Moved1
  <2>4. Kind(c) = "dissolve"
    BY <1>3 DEF PlanDissolve
  <2>5. QED
    BY <2>3, <2>4
<1>4. ASSUME PlanAlloc(c), ~Ends(c)
      PROVE  Moved1(c) /\ pc'[c] = "storing" /\ Kind(c) = "alloc" /\ got'[c].op = "alloc"
  <2>1. PICK u, n : /\ To(c, "storing")
                    /\ Note(c, [op |-> "alloc", fund |-> Wants[c].fund, who |-> Wants[c].who,
                             window |-> Window, amount |-> Wants[c].amount, units |-> u,
                             nav |-> n, at |-> moves])
    BY <1>4 DEF PlanAlloc
  <2>2. "storing" \in Acting
    BY DEF Acting
  <2>3. QED
    BY <1>4, <2>1, <2>2, PutsAt DEF Moved1, PlanAlloc
<1>5. ASSUME PlanRedeem(c), ~Ends(c)
      PROVE  Moved1(c) /\ pc'[c] = "raising" /\ Kind(c) = "redeem" /\ RedeemNote(got'[c])
  <2>1. PICK a, u, n : /\ To(c, "raising")
                       /\ Note(c, [op |-> "redeem", fund |-> Wants[c].fund, who |-> Wants[c].who,
                             window |-> Window, amount |-> a, units |-> u, nav |-> n,
                             at |-> moves, sell |-> 0])
    BY <1>5 DEF PlanRedeem
  <2>2. "raising" \in Acting
    BY DEF Acting
  <2>3. Moved1(c) /\ pc'[c] = "raising"
        /\ got'[c] = [op |-> "redeem", fund |-> Wants[c].fund, who |-> Wants[c].who,
                             window |-> Window, amount |-> a, units |-> u, nav |-> n,
                             at |-> moves, sell |-> 0]
    BY <2>1, <2>2, PutsAt DEF Moved1
  <2>4. QED
    BY <1>5, <2>3 DEF PlanRedeem, RedeemNote
<1>6. ASSUME PlanOne(c), ~Ends(c)
      PROVE  /\ Moved1(c) /\ pc'[c] = "storing"
             /\ Kind(c) \in {"profile", "trader", "fundDQ", "log", "sample", "checkpoint"}
             /\ got'[c].op = OpOf(c)
  <2>1. Kind(c) \in {"profile", "trader", "fundDQ", "log", "sample", "checkpoint"}
        /\ To(c, "storing") /\ \E ev \in Planned(c) : Note(c, ev)
    BY <1>6 DEF PlanOne
  <2>2. PICK ev \in Planned(c) : Note(c, ev)
    BY <2>1
  <2>3. ev.op = OpOf(c)
    <3>1. CASE Kind(c) \in {"profile", "trader"}
      BY <2>2, <3>1 DEF Planned, OpOf, FundProfile, FundTrader
    <3>2. CASE Kind(c) \in {"fundDQ", "log"}
      BY <2>2, <3>2 DEF Planned, OpOf, Disqualified, StrategyLog
    <3>3. CASE Kind(c) \in {"sample", "checkpoint"}
      BY <2>2, <3>3 DEF Planned, OpOf, Series, CheckpointOnce
    <3>4. QED
      BY <2>1, <3>1, <3>2, <3>3
  <2>4. "storing" \in Acting
    BY DEF Acting
  <2>5. QED
    BY <2>1, <2>2, <2>3, <2>4, PutsAt DEF Moved1
<1>7. QED
  BY <1>1, <1>2, <1>3, <1>4, <1>5, <1>6 DEF Plan, Shaped, OpOf, Kind, Restructures

LEMMA FormNoteKept ==
  ASSUME NEW g, FormNote(g), NEW a, NEW b, NEW d
  PROVE  FormNote([g EXCEPT !.todo = a, !.moves = b, !.seeds = d])
<1>1. PICK f, m, s, r, l : g = [op |-> "formed", funds |-> f, moves |-> m,
                                seeds |-> s, ranking |-> r, todo |-> l]
  BY DEF FormNote
<1>2. PICK h : h = [g EXCEPT !.todo = a, !.moves = b, !.seeds = d]
  OBVIOUS
<1>3. /\ h = [op |-> h.op, funds |-> h.funds, moves |-> h.moves, seeds |-> h.seeds,
              ranking |-> h.ranking, todo |-> h.todo]
      /\ h.op = "formed"
  BY <1>1, <1>2
<1>4. QED
  BY <1>2, <1>3 DEF FormNote

LEMMA ReadShape ==
  ASSUME Shapes, NEW c \in Call, ReadTeam(c) \/ ReadAll(c)
  PROVE  Moved1(c) /\ Shaped(c)' /\ pc'[c] \in {"reading", "storing"}
<1>0. Kind(c) = "form" /\ FormNote(got[c]) /\ pc[c] = "reading"
  BY DEF Shapes, Shaped, ReadTeam, ReadAll
<1>1. CASE ReadTeam(c)
  <2>1. PICK a, b, d : Note(c, [got[c] EXCEPT !.todo = a, !.moves = b, !.seeds = d])
    BY <1>1 DEF ReadTeam
  <2>2. FormNote([got[c] EXCEPT !.todo = a, !.moves = b, !.seeds = d])
    BY <1>0, FormNoteKept
  <2>3. Moved1(c) /\ pc'[c] = "reading" /\ FormNote(got'[c])
    BY <1>0, <1>1, <2>1, <2>2, PutsAt DEF Moved1, ReadTeam, Shapes
  <2>4. QED
    BY <1>0, <2>3 DEF Shaped, Kind
<1>2. CASE ReadAll(c)
  <2>1. "storing" \in Acting
    BY DEF Acting
  <2>2. Moved1(c) /\ pc'[c] = "storing" /\ got'[c] = got[c]
    BY <1>2, <2>1, PutsAt DEF Moved1, ReadAll
  <2>3. QED
    BY <1>0, <2>2 DEF Shaped, Kind, OpOf, FormNote
<1>3. QED
  BY <1>1, <1>2

LEMMA RaiseShape ==
  ASSUME Shapes, NEW c \in Call, Raise(c) \/ Sell(c)
  PROVE  Moved1(c) /\ Shaped(c)' /\ pc'[c] \in {"selling", "storing", "stuck", "over"}
<1>0. Kind(c) = "redeem" /\ RedeemNote(got[c])
  BY DEF Shapes, Shaped, Raise, Sell
<1>1. \A s : RedeemNote([got[c] EXCEPT !.sell = s])
  <2>1. PICK g : g = got[c]
    OBVIOUS
  <2>2. ASSUME NEW s PROVE RedeemNote([g EXCEPT !.sell = s])
    <3>1. PICK h : h = [g EXCEPT !.sell = s]
      OBVIOUS
    <3>2. /\ h = [op |-> h.op, fund |-> h.fund, who |-> h.who, window |-> h.window,
                 amount |-> h.amount, units |-> h.units, nav |-> h.nav, at |-> h.at,
                 sell |-> h.sell]
          /\ h.op = "redeem"
      BY <1>0, <2>1, <3>1 DEF RedeemNote
    <3>3. QED
      BY <3>1, <3>2 DEF RedeemNote
  <2>3. QED
    BY <2>1, <2>2
<1>2. "selling" \in Acting /\ "storing" \in Acting
  BY DEF Acting
<1>3. ASSUME To(c, "storing"), UNCHANGED got
      PROVE  Moved1(c) /\ Shaped(c)' /\ pc'[c] = "storing"
  <2>1. Moved1(c) /\ pc'[c] = "storing" /\ got'[c] = got[c]
    BY <1>2, <1>3, PutsAt DEF Moved1
  <2>2. QED
    BY <1>0, <2>1 DEF Shaped, Kind, OpOf, RedeemNote
<1>4. CASE Raise(c)
  <2>1. CASE To(c, "storing") /\ UNCHANGED got
    BY <1>3, <2>1
  <2>2. CASE Leaves(c, "stuck")
    BY <2>2, EndsShape
  <2>3. CASE \E s : To(c, "selling") /\ Note(c, [got[c] EXCEPT !.sell = s])
    <3>1. PICK s : To(c, "selling") /\ Note(c, [got[c] EXCEPT !.sell = s])
      BY <2>3
    <3>2. Moved1(c) /\ pc'[c] = "selling" /\ got'[c] = [got[c] EXCEPT !.sell = s]
      BY <1>2, <3>1, PutsAt DEF Moved1
    <3>3. RedeemNote(got'[c])
      BY <1>1, <3>2
    <3>4. QED
      BY <1>0, <3>2, <3>3 DEF Shaped, Kind
  <2>4. QED
    BY <1>4, <2>1, <2>2, <2>3 DEF Raise
<1>5. CASE Sell(c)
  <2>1. PICK t : Execute(c, t, "storing", "stuck")
    BY <1>5 DEF Sell
  <2>2. /\ Moved1(c) /\ pc'[c] \in {"storing", "stuck", "over"}
        /\ pc'[c] = "storing" => got'[c] = got[c]
    BY <1>2, <2>1, ExecuteMoves
  <2>3. QED
    BY <1>0, <2>2 DEF Shaped, Kind, OpOf, RedeemNote
<1>6. QED
  BY <1>4, <1>5

LEMMA StoreShape ==
  ASSUME Shapes, NEW c \in Call, Store(c)
  PROVE  /\ Moved1(c) /\ Shaped(c)' /\ pc'[c] \in {"stored", "stuck", "over"}
         /\ pc'[c] = "stored" => got'[c] = got[c]
<1>1. CASE To(c, "stored") /\ UNCHANGED got
  <2>1. "stored" \in Acting
    BY DEF Acting
  <2>2. Moved1(c) /\ pc'[c] = "stored" /\ got'[c] = got[c]
    BY <1>1, <2>1, PutsAt DEF Moved1
  <2>3. QED
    BY <2>2 DEF Shapes, Shaped, Kind, OpOf, FormNote, RedeemNote, Store
<1>2. CASE \E p \in {"over", "stuck"} : Leaves(c, p)
  BY <1>2, EndsShape
<1>3. QED
  BY <1>1, <1>2 DEF Store, Ends

LEMMA NotesKept ==
  ASSUME NEW g, MovesNote(g), NEW t
  PROVE  /\ MovesNote([g EXCEPT !.todo = t]) /\ MovesNote([g EXCEPT !.next = t])
         /\ [g EXCEPT !.todo = t].op = g.op /\ [g EXCEPT !.next = t].op = g.op
         /\ [g EXCEPT !.todo = t].todo = t /\ [g EXCEPT !.next = t].todo = g.todo
<1>1. PICK h : h = [g EXCEPT !.todo = t]
  OBVIOUS
<1>2. PICK k : k = [g EXCEPT !.next = t]
  OBVIOUS
<1>3. h = [todo |-> h.todo, op |-> h.op, next |-> h.next] /\ h.op = g.op /\ h.todo = t
  BY <1>1 DEF MovesNote
<1>4. k = [todo |-> k.todo, op |-> k.op, next |-> k.next] /\ k.op = g.op /\ k.todo = g.todo
  BY <1>2 DEF MovesNote
<1>5. QED
  BY <1>1, <1>2, <1>3, <1>4 DEF MovesNote

LEMMA ApplyShape ==
  ASSUME Shapes, NEW c \in Call, ApplyEvent(c) \/ RolesSet(c)
  PROVE  Moved1(c) /\ Shaped(c)' /\ pc'[c] = "over"
BY EndsShape DEF ApplyEvent, RolesSet, Ends

LEMMA StartShape ==
  ASSUME Shapes, NEW c \in Call, OpenFunds(c) \/ StartBack(c)
  PROVE  /\ Moved1(c) /\ Shaped(c)' /\ pc'[c] = "moving"
         /\ got'[c].op = got[c].op /\ got'[c].todo = got[c].moves
<1>1. PICK n : /\ Note(c, [todo |-> got[c].moves, op |-> got[c].op, next |-> n])
               /\ To(c, "moving")
  BY DEF OpenFunds, StartBack
<1>2. "moving" \in Acting
  BY DEF Acting
<1>3. /\ Moved1(c) /\ pc'[c] = "moving"
      /\ got'[c] = [todo |-> got[c].moves, op |-> got[c].op, next |-> n]
  BY <1>1, <1>2, PutsAt DEF Moved1
<1>4. Restructures(c) /\ got[c].op = OpOf(c)
  BY KindsKnown DEF Shapes, Shaped, OpenFunds, StartBack, OpOf, Restructures
<1>5. QED
  BY <1>3, <1>4 DEF Shaped, Kind, OpOf, MovesNote, Restructures

LEMMA MoveShape ==
  ASSUME Shapes, NEW c \in Call, MoveNext(c)
  PROVE  /\ Moved1(c) /\ Shaped(c)' /\ pc'[c] = "moving"
         /\ got'[c].op = got[c].op /\ got'[c].todo = Tail(got[c].todo)
<1>1. pc[c] = "moving" /\ Note(c, [got[c] EXCEPT !.todo = Tail(got[c].todo)]) /\ pc' = pc
  BY DEF MoveNext
<1>2. PICK w : w = [got[c] EXCEPT !.todo = Tail(got[c].todo)]
  OBVIOUS
<1>3. Restructures(c) /\ got[c].op = OpOf(c) /\ MovesNote(got[c])
  BY <1>1 DEF Shapes, Shaped
<1>4. MovesNote(w) /\ w.op = got[c].op /\ w.todo = Tail(got[c].todo)
  BY <1>2, <1>3, NotesKept
<1>5. Moved1(c) /\ pc'[c] = "moving" /\ got'[c] = w
  BY <1>1, <1>2, PutsAt DEF Moved1, Shapes
<1>6. QED
  BY <1>3, <1>4, <1>5 DEF Shaped, Kind, OpOf, Restructures

LEMMA MovedShape ==
  ASSUME Shapes, NEW c \in Call, AllMoved(c)
  PROVE  /\ Moved1(c) /\ Shaped(c)' /\ got'[c].op = got[c].op
         /\ IF got[c].op = "formed" THEN pc'[c] = "roles"
            ELSE pc'[c] = "clearing" /\ got'[c].todo = DOMAIN book.funds
<1>1. /\ pc[c] = "moving"
      /\ Restructures(c) /\ got[c].op = OpOf(c) /\ MovesNote(got[c])
  BY DEF AllMoved, Shapes, Shaped
<1>2. "roles" \in Acting /\ "clearing" \in Acting
  BY DEF Acting
<1>3. CASE got[c].op = "formed"
  <2>1. Moved1(c) /\ pc'[c] = "roles" /\ got'[c] = got[c]
    BY <1>2, <1>3, PutsAt DEF Moved1, AllMoved
  <2>2. QED
    BY <1>1, <1>3, <2>1 DEF Shaped, Kind, OpOf, Restructures, MovesNote
<1>4. CASE got[c].op # "formed"
  <2>1. Note(c, [got[c] EXCEPT !.todo = DOMAIN book.funds]) /\ To(c, "clearing")
    BY <1>4 DEF AllMoved
  <2>2. PICK w : w = [got[c] EXCEPT !.todo = DOMAIN book.funds]
    OBVIOUS
  <2>3. MovesNote(w) /\ w.op = got[c].op /\ w.todo = DOMAIN book.funds
    BY <1>1, <2>2, NotesKept
  <2>4. Moved1(c) /\ pc'[c] = "clearing" /\ got'[c] = w
    BY <1>2, <2>1, <2>2, PutsAt DEF Moved1
  <2>5. Kind(c) = "dissolve"
    BY <1>1, <1>4 DEF OpOf, Restructures
  <2>6. QED
    BY <1>1, <1>4, <2>3, <2>4, <2>5 DEF Shaped, Kind, OpOf, Restructures
<1>5. QED
  BY <1>3, <1>4

LEMMA RemoveShape ==
  ASSUME Shapes, NEW c \in Call, RemoveFunds(c)
  PROVE  Moved1(c) /\ Shaped(c)' /\ pc'[c] = "roles"
<1>1. "roles" \in Acting
  BY DEF Acting
<1>2. Moved1(c) /\ pc'[c] = "roles" /\ got'[c] = got[c]
  BY <1>1, PutsAt DEF Moved1, RemoveFunds
<1>3. Restructures(c) /\ got[c].op = OpOf(c) /\ MovesNote(got[c])
  BY DEF Shapes, Shaped, RemoveFunds
<1>4. QED
  BY <1>2, <1>3 DEF Shaped, Kind, OpOf, Restructures, MovesNote

LEMMA RoleShape ==
  ASSUME Shapes, NEW c \in Call, SetRole(c)
  PROVE  Moved1(c) /\ Shaped(c)' /\ pc'[c] = "roles"
<1>1. pc[c] = "roles" /\ Note(c, [got[c] EXCEPT !.next = Tail(got[c].next)]) /\ pc' = pc
  BY DEF SetRole
<1>2. PICK w : w = [got[c] EXCEPT !.next = Tail(got[c].next)]
  OBVIOUS
<1>3. Restructures(c) /\ got[c].op = OpOf(c) /\ MovesNote(got[c])
  BY <1>1 DEF Shapes, Shaped
<1>4. MovesNote(w) /\ w.op = got[c].op
  BY <1>2, <1>3, NotesKept
<1>5. Moved1(c) /\ pc'[c] = "roles" /\ got'[c] = w
  BY <1>1, <1>2, PutsAt DEF Moved1, Shapes
<1>6. QED
  BY <1>3, <1>4, <1>5 DEF Shaped, Kind, OpOf, Restructures

LEMMA EnterShape ==
  ASSUME Shapes, NEW c \in Call, Enter(c)
  PROVE  Moved1(c) /\ Shaped(c)' /\ pc'[c] = "asked"
<1>1. "asked" \in Acting
  BY DEF Acting
<1>2. PICK n : To(c, "asked") /\ Note(c, n)
  BY DEF Enter
<1>3. Moved1(c) /\ pc'[c] = "asked"
  BY <1>1, <1>2, PutsAt DEF Moved1
<1>4. QED
  BY <1>3 DEF Shaped

LEMMA ShapesNext ==
  ASSUME Shapes, [Next]_vars
  PROVE  Shapes'
<1>1. ASSUME NEW c \in Call, Moved1(c), Shaped(c)' PROVE Shapes'
  <2>1. ASSUME NEW d \in Call PROVE Shaped(d)'
    <3>1. CASE d = c
      BY <1>1, <3>1
    <3>2. CASE d # c
      <4>1. pc'[d] = pc[d] /\ got'[d] = got[d] /\ Shaped(d)
        BY <1>1, <3>2 DEF Moved1, Shapes
      <4>2. QED
        BY <4>1 DEF Shaped, Kind, OpOf, Restructures, FormNote, RedeemNote, MovesNote
    <3>3. QED
      BY <3>1, <3>2
  <2>2. QED
    BY <1>1, <2>1 DEF Shapes, Moved1
<1>2. ASSUME NEW c \in Call, Enter(c) PROVE Shapes'
  BY <1>1, <1>2, EnterShape
<1>3. ASSUME NEW c \in Call, CallStep(c) PROVE Shapes'
  <2>1. Moved1(c) /\ Shaped(c)'
    BY <1>3, TradeShape, RecordShape, PlanShape, ReadShape, RaiseShape, StoreShape, ApplyShape,
       StartShape, MoveShape, MovedShape, RemoveShape, RoleShape DEF CallStep
  <2>2. QED
    BY <1>1, <2>1
<1>4. ASSUME pc' = pc, got' = got PROVE Shapes'
  BY <1>4 DEF Shapes, Shaped, Kind, OpOf, Restructures, FormNote, RedeemNote, MovesNote
<1>5. CASE Kill
  <2>1. pc' = [c \in Call |-> IF pc[c] \in Acting THEN "over" ELSE pc[c]]
        /\ got' = [c \in Call |-> Nothing]
    BY <1>5 DEF Kill
  <2>2. ASSUME NEW d \in Call PROVE pc'[d] \in {"idle", "over", "stuck"}
    BY <2>1 DEF Shapes, Acting
  <2>3. QED
    BY <2>1, <2>2 DEF Shapes, Shaped
<1>6. CASE PriceMove \/ CloseWindow \/ UNCHANGED vars
  BY <1>4, <1>6 DEF PriceMove, CloseWindow, vars
<1>7. QED
  BY <1>2, <1>3, <1>5, <1>6 DEF Next

(* Where a call comes from, and whether it takes fundMu. *)
LEMMA StepsHold ==
  ASSUME Shapes, NEW c \in Call, CallStep(c)
  PROVE  /\ Moved1(c) /\ pc[c] \in Acting
         /\ HoldsFundMu(c)' => HoldsFundMu(c) \/ FundMuFree
<1>1. Moved1(c)
  BY TradeShape, RecordShape, PlanShape, ReadShape, RaiseShape, StoreShape, ApplyShape,
     StartShape, MoveShape, MovedShape, RemoveShape, RoleShape DEF CallStep
<1>2. pc[c] \in Acting
  BY DEF CallStep, Trade, Record, Plan, ReadTeam, ReadAll, Raise, Sell, Store, ApplyEvent,
     OpenFunds, StartBack, MoveNext, AllMoved, RemoveFunds, SetRole, RolesSet, Acting
<1>3. HoldsFundMu(c)' => HoldsFundMu(c) \/ FundMuFree
  <2>1. CASE Trade(c)
    <3>1. pc'[c] \in {"made", "over"}
      BY <2>1, TradeShape
    <3>2. QED
      BY <3>1 DEF HoldsFundMu, Acting
  <2>2. CASE Plan(c)
    BY <2>2 DEF Plan
  <2>3. CASE Record(c)
    <3>1. pc'[c] = "over"
      BY <2>3, RecordShape
    <3>2. QED
      BY <3>1 DEF HoldsFundMu, Acting
  <2>4. CASE ~(Trade(c) \/ Plan(c) \/ Record(c))
    <3>1. pc[c] \in {"reading", "raising", "selling", "storing", "stored", "moving",
                     "clearing", "roles"}
      BY <2>4 DEF CallStep, ReadTeam, ReadAll, Raise, Sell, Store, ApplyEvent,
         OpenFunds, StartBack, MoveNext, AllMoved, RemoveFunds, SetRole, RolesSet
    <3>2. QED
      BY <3>1 DEF HoldsFundMu, Acting
  <2>5. QED
    BY <2>1, <2>2, <2>3, <2>4
<1>4. QED
  BY <1>1, <1>2, <1>3

(* The three kinds of steps. *)
LEMMA StepCases ==
  ASSUME [Next]_vars
  PROVE  \/ \E c \in Call : Enter(c)
         \/ \E c \in Call : CallStep(c)
         \/ Kill
         \/ (PriceMove \/ CloseWindow \/ UNCHANGED vars) /\ UNCHANGED <<state, disk, pc, got>>
BY DEF Next, PriceMove, CloseWindow, vars, state, disk

LEMMA KillStops ==
  ASSUME Shapes, Kill
  PROVE  \A c \in Call : pc'[c] \in {"idle", "over", "stuck"} /\ got'[c] = Nothing
BY DEF Kill, Shapes, Acting

LEMMA AloneNext ==
  ASSUME Shapes, Alone, [Next]_vars
  PROVE  Alone'
<1>1. ASSUME NEW c \in Call, Moved1(c), HoldsFundMu(c)' => HoldsFundMu(c) \/ FundMuFree
      PROVE  Alone'
  <2> SUFFICES ASSUME NEW x \in Call, NEW y \in Call, HoldsFundMu(x)', HoldsFundMu(y)'
               PROVE  x = y
    BY DEF Alone
  <2>1. \A d \in Call \ {c} : HoldsFundMu(d)' <=> HoldsFundMu(d)
    BY <1>1 DEF Moved1, HoldsFundMu
  <2>2. CASE x = c /\ y # c
    BY <1>1, <2>1, <2>2 DEF Alone, FundMuFree
  <2>3. CASE y = c /\ x # c
    BY <1>1, <2>1, <2>3 DEF Alone, FundMuFree
  <2>4. CASE x # c /\ y # c
    BY <2>1, <2>4 DEF Alone
  <2>5. QED
    BY <2>2, <2>3, <2>4
<1>2. ASSUME NEW c \in Call, Enter(c) PROVE Alone'
  <2>1. Moved1(c) /\ pc'[c] = "asked"
    BY <1>2, EnterShape
  <2>2. ~HoldsFundMu(c)'
    BY <2>1 DEF HoldsFundMu
  <2>3. QED
    BY <1>1, <2>1, <2>2
<1>3. ASSUME NEW c \in Call, CallStep(c) PROVE Alone'
  BY <1>1, <1>3, StepsHold
<1>4. CASE Kill
  <2>1. \A d \in Call : ~HoldsFundMu(d)'
    BY <1>4, KillStops DEF HoldsFundMu, Acting
  <2>2. QED
    BY <2>1 DEF Alone
<1>5. CASE UNCHANGED pc
  BY <1>5 DEF Alone, HoldsFundMu
<1>6. QED
  BY <1>2, <1>3, <1>4, <1>5, StepCases

LEMMA ApartNext ==
  ASSUME ~Rush, Shapes, Apart, [Next]_vars
  PROVE  Apart'
<1>1. ASSUME NEW c \in Call, Moved1(c),
             \/ pc[c] \in Acting
             \/ \A d \in Call \ {c} : pc[d] \in Acting =>
                  ~(Restructures(c) /\ Looks(d)) /\ ~(Looks(c) /\ Restructures(d))
      PROVE  Apart'
  <2> SUFFICES ASSUME NEW x \in Call, NEW y \in Call, pc'[x] \in Acting, pc'[y] \in Acting,
                      Restructures(x), Looks(y)
               PROVE  FALSE
    BY DEF Apart, Restructures, Looks, Kind
  <2>0. x # y
    BY DEF Restructures, Looks
  <2>1. \A d \in Call \ {c} : pc'[d] = pc[d]
    BY <1>1 DEF Moved1
  <2>2. CASE pc[c] \in Acting
    BY <2>1, <2>2 DEF Apart
  <2>3. CASE pc[c] \notin Acting
    <3>1. CASE x = c
      BY <1>1, <2>0, <2>1, <2>3, <3>1
    <3>2. CASE y = c
      BY <1>1, <2>0, <2>1, <2>3, <3>2
    <3>3. CASE x # c /\ y # c
      BY <2>1, <3>3 DEF Apart
    <3>4. QED
      BY <3>1, <3>2, <3>3
  <2>4. QED
    BY <2>2, <2>3
<1>2. ASSUME NEW c \in Call, Enter(c) PROVE Apart'
  BY <1>1, <1>2, EnterShape DEF Enter, Quiet
<1>3. ASSUME NEW c \in Call, CallStep(c) PROVE Apart'
  BY <1>1, <1>3, StepsHold
<1>4. CASE Kill
  <2>1. \A d \in Call : pc'[d] \notin Acting
    BY <1>4, KillStops DEF Acting
  <2>2. QED
    BY <2>1 DEF Apart
<1>5. CASE UNCHANGED pc
  BY <1>5 DEF Apart, Restructures, Looks, Kind
<1>6. QED
  BY <1>2, <1>3, <1>4, <1>5, StepCases

-----------------------------------------------------------------------------
(* What a step makes of the log, and of the moves that are left.           *)

LEMMA SequencesOwn ==
  ASSUME NEW R, NEW s \in Seq(R)
  PROVE  s \in Seq(ToSet(s))
<1>1. Len(s) \in Nat /\ DOMAIN s = 1 .. Len(s) /\ s = [i \in 1 .. Len(s) |-> s[i]]
  OBVIOUS
<1>2. \A i \in 1 .. Len(s) : s[i] \in ToSet(s)
  BY <1>1 DEF ToSet
<1>3. QED
  BY <1>1, <1>2

LEMMA LogAppends ==
  ASSUME NEW l, l \in Seq(ToSet(l)), NEW x
  PROVE  /\ Append(l, x) \in Seq(ToSet(Append(l, x)))
         /\ Rebuilt(Append(l, x)) = Restored(Rebuilt(l), x)
<1> DEFINE R == ToSet(l) \cup {x}
<1>1. l \in Seq(R) /\ x \in R
  OBVIOUS
<1> HIDE DEF R
<1>2. Append(l, x) \in Seq(R)
  BY <1>1
<1>3. Outcome(Fresh, Append(l, x)) = Restored(Outcome(Fresh, l), x)
  BY <1>1, RestoredSteps
<1>4. QED
  BY <1>2, <1>3, SequencesOwn DEF Rebuilt, Outcome

LEMMA MoveOne ==
  ASSUME NEW b, NEW m
  PROVE  AfterMoves(b, <<m>>) = AfterMove(b, m) /\ AfterMoves(b, <<>>) = b
<1>1. <<>> \in Seq({m}) /\ Append(<<>>, m) = <<m>>
  OBVIOUS
<1>2. AfterMoves(b, Append(<<>>, m)) = AfterMove(AfterMoves(b, <<>>), m)
  <2>1. m \in {m}
    OBVIOUS
  <2>2. QED
    BY <1>1, <2>1, MoveSteps
<1>3. AfterMoves(b, <<>>) = b
  BY NoMoves
<1>4. QED
  BY <1>1, <1>2, <1>3

LEMMA MoveFirst ==
  ASSUME NEW b, NEW R, NEW s \in Seq(R), s # <<>>
  PROVE  AfterMoves(b, s) = AfterMoves(AfterMoves(b, <<Head(s)>>), Tail(s))
<1>1. PICK t : t = Tail(s)
  OBVIOUS
<1>2. /\ t \in Seq(R) /\ Len(s) \in Nat /\ Len(t) \in Nat /\ Len(s) = Len(t) + 1
      /\ \A k \in 1 .. Len(t) : t[k] = s[k + 1]
      /\ Head(s) = s[1]
  BY <1>1
<1>3. PICK a : a = AfterMove(b, s[1])
  OBVIOUS
<1>4. AfterMoves(b, <<Head(s)>>) = a
  BY <1>2, <1>3, MoveOne
<1>5. PICK f : Moves(b, s, f)
  BY MovesAre
<1>6. PICK g : Moves(a, t, g)
  BY <1>2, MovesAre
<1> DEFINE N == {n \in Nat : n <= Len(t) => f[1 .. n + 1] = g[1 .. n]}
<1>7. 0 \in N
  <2>1. 1 \in 1 .. Len(s) /\ 1 .. 1 - 1 = {} /\ 1 .. 0 = {} /\ 0 + 1 = 1
    BY <1>2
  <2>2. f[1 .. 1] = AfterMove(f[1 .. 1 - 1], s[1])
    BY <1>5, <2>1 DEF Moves
  <2>3. f[1 .. 1] = a
    BY <1>3, <1>5, <2>1, <2>2 DEF Moves
  <2>4. g[1 .. 0] = a
    BY <1>6, <2>1 DEF Moves
  <2>5. QED
    BY <2>1, <2>3, <2>4
<1>8. ASSUME NEW n \in Nat, n \in N PROVE n + 1 \in N
  <2> SUFFICES ASSUME n + 1 <= Len(t) PROVE f[1 .. (n + 1) + 1] = g[1 .. n + 1]
    OBVIOUS
  <2>1. /\ n + 1 \in 1 .. Len(t) /\ (n + 1) + 1 \in 1 .. Len(s)
        /\ (n + 1) - 1 = n /\ ((n + 1) + 1) - 1 = n + 1 /\ n <= Len(t)
    BY <1>2
  <2>2. f[1 .. n + 1] = g[1 .. n]
    BY <1>8, <2>1
  <2>3. f[1 .. (n + 1) + 1] = AfterMove(f[1 .. n + 1], s[(n + 1) + 1])
    BY <1>5, <2>1 DEF Moves
  <2>4. g[1 .. n + 1] = AfterMove(g[1 .. n], t[n + 1])
    BY <1>6, <2>1 DEF Moves
  <2>5. t[n + 1] = s[(n + 1) + 1]
    BY <1>2, <2>1
  <2>6. QED
    BY <2>2, <2>3, <2>4, <2>5
<1> HIDE DEF N
<1>9. Len(t) \in N
  BY <1>2, <1>7, <1>8, Numbers
<1>10. f[1 .. Len(t) + 1] = g[1 .. Len(t)]
  BY <1>2, <1>9 DEF N
<1>11. AfterMoves(b, s) = f[1 .. Len(s)] /\ AfterMoves(a, t) = g[1 .. Len(t)]
  BY <1>5, <1>6 DEF Moves
<1>12. QED
  BY <1>1, <1>2, <1>4, <1>10, <1>11

-----------------------------------------------------------------------------
(* What a record of the log does to the state of a replay.                 *)

LEMMA TradeReplayed ==
  ASSUME NEW s, Whole(s), NEW t, t.kind = "trade"
  PROVE  Replay(s, t) =
            [ledger |-> [s.ledger EXCEPT ![t.acct] = AfterTrade(s.ledger[t.acct], t)],
             book |-> s.book, role |-> s.role, traded |-> s.traded \cup {t.acct}, ok |-> s.ok]
<1>1. PICK r : r = [s EXCEPT !.ledger[t.acct] = AfterTrade(@, t),
                             !.traded = @ \cup {t.acct}]
  OBVIOUS
<1>2. /\ r = [ledger |-> r.ledger, book |-> r.book, role |-> r.role, traded |-> r.traded,
              ok |-> r.ok]
      /\ r.ledger = [s.ledger EXCEPT ![t.acct] = AfterTrade(s.ledger[t.acct], t)]
      /\ r.book = s.book /\ r.role = s.role /\ r.traded = s.traded \cup {t.acct}
      /\ r.ok = s.ok
  BY <1>1 DEF Whole
<1>3. Replay(s, t) = r
  BY <1>1 DEF Replay
<1>4. QED
  BY <1>2, <1>3

LEMMA RoleReplayed ==
  ASSUME NEW s, Whole(s), NEW u, NEW p
  PROVE  /\ Replays(s, [kind |-> "role", who |-> u, role |-> p])
         /\ Replay(s, [kind |-> "role", who |-> u, role |-> p]) =
            [ledger |-> s.ledger, book |-> s.book, role |-> [s.role EXCEPT ![u] = p],
             traded |-> s.traded, ok |-> s.ok]
<1>1. PICK r : r = [s EXCEPT !.role[u] = p]
  OBVIOUS
<1>2. /\ r = [ledger |-> r.ledger, book |-> r.book, role |-> r.role, traded |-> r.traded,
              ok |-> r.ok]
      /\ r.role = [s.role EXCEPT ![u] = p]
      /\ r.book = s.book /\ r.ledger = s.ledger /\ r.traded = s.traded /\ r.ok = s.ok
  BY <1>1 DEF Whole
<1>3. Replay(s, [kind |-> "role", who |-> u, role |-> p]) = r
  BY <1>1 DEF Replay
<1>4. Replays(s, [kind |-> "role", who |-> u, role |-> p])
  BY DEF Replays
<1>5. QED
  BY <1>2, <1>3, <1>4

(* The accounts after an event. *)
Settled(s, ev) ==
    CASE ev.op = "formed" -> AfterMoves(WithFunds(s.ledger, DOMAIN ev.funds), ev.moves)
      [] ev.op = "dissolve" -> Removed(AfterMoves(s.ledger, ev.moves), DOMAIN s.book.funds)
      [] ev.op = "alloc" -> MoveCash(s.ledger, ev.who, ev.fund, ev.amount)
      [] ev.op = "redeem" -> MoveCash(s.ledger, ev.fund, ev.who, ev.amount)
      [] OTHER -> s.ledger

LEMMA FundReplayed ==
  ASSUME NEW s, Whole(s), NEW ev
  PROVE  /\ Replays(s, FundRecord(ev)) <=> Accepts(s.book, ev)
         /\ Replay(s, FundRecord(ev)) =
               [ledger |-> Settled(s, ev), book |-> Apply(s.book, ev), role |-> s.role,
                traded |-> s.traded, ok |-> s.ok]
<1>1. /\ Replays(s, FundRecord(ev)) <=> Accepts(s.book, ev)
      /\ Replay(s, FundRecord(ev)) = ReplayFund(s, ev)
  BY DEF Replays, Replay, FundRecord
<1>2. PICK b : b = Apply(s.book, ev)
  OBVIOUS
<1>3. PICK l : l = Settled(s, ev)
  OBVIOUS
<1>4. ASSUME NEW r, r = [s EXCEPT !.book = b, !.ledger = l]
      PROVE  r = [ledger |-> l, book |-> b, role |-> s.role, traded |-> s.traded, ok |-> s.ok]
  <2>1. /\ r = [ledger |-> r.ledger, book |-> r.book, role |-> r.role, traded |-> r.traded,
                ok |-> r.ok]
        /\ r.ledger = l /\ r.book = b /\ r.role = s.role /\ r.traded = s.traded /\ r.ok = s.ok
    BY <1>4 DEF Whole
  <2>2. QED
    BY <2>1
<1>5. ASSUME NEW r, r = [s EXCEPT !.book = b], l = s.ledger
      PROVE  r = [ledger |-> l, book |-> b, role |-> s.role, traded |-> s.traded, ok |-> s.ok]
  <2>1. /\ r = [ledger |-> r.ledger, book |-> r.book, role |-> r.role, traded |-> r.traded,
                ok |-> r.ok]
        /\ r.ledger = l /\ r.book = b /\ r.role = s.role /\ r.traded = s.traded /\ r.ok = s.ok
    BY <1>5 DEF Whole
  <2>2. QED
    BY <2>1
<1>6. \/ ReplayFund(s, ev) = [s EXCEPT !.book = b, !.ledger = l]
      \/ l = s.ledger /\ ReplayFund(s, ev) = [s EXCEPT !.book = b]
  <2>1. CASE ev.op = "formed"
    BY <1>2, <1>3, <2>1 DEF ReplayFund, Settled
  <2>2. CASE ev.op = "dissolve"
    BY <1>2, <1>3, <2>2 DEF ReplayFund, Settled
  <2>3. CASE ev.op = "alloc"
    BY <1>2, <1>3, <2>3 DEF ReplayFund, Settled
  <2>4. CASE ev.op = "redeem"
    BY <1>2, <1>3, <2>4 DEF ReplayFund, Settled
  <2>5. CASE ev.op \notin {"formed", "dissolve", "alloc", "redeem"}
    BY <1>2, <1>3, <2>5 DEF ReplayFund, Settled
  <2>6. QED
    BY <2>1, <2>2, <2>3, <2>4, <2>5
<1>7. ReplayFund(s, ev) = [ledger |-> l, book |-> b, role |-> s.role, traded |-> s.traded,
                           ok |-> s.ok]
  BY <1>4, <1>5, <1>6
<1>8. QED
  BY <1>1, <1>2, <1>3, <1>7

-----------------------------------------------------------------------------
(* What an event makes of the book.                                        *)

(* The funds are the same ones, of the same teams. *)
SameFunds(b, d) ==
    /\ DOMAIN d.funds = DOMAIN b.funds /\ d.formed = b.formed /\ d.moves = b.moves
    /\ \A f \in DOMAIN b.funds : d.funds[f].members = b.funds[f].members

LEMMA FundKept ==
  ASSUME NEW g, FundWhole(g), NEW x, NEW y
  PROVE  \A h \in {[g EXCEPT !.fee = x], [g EXCEPT !.trader = x], [g EXCEPT !.active = x],
                   [g EXCEPT !.units = x, !.minted = y], [g EXCEPT !.units = x, !.redeemed = y],
                   [g EXCEPT !.mark = x, !.aums = y], [g EXCEPT !.units = x, !.seeded = y]} :
            FundWhole(h) /\ h.members = g.members
<1>1. ASSUME NEW h, h = [g EXCEPT !.fee = x] PROVE FundWhole(h) /\ h.members = g.members
  BY <1>1 DEF FundWhole
<1>2. ASSUME NEW h, h = [g EXCEPT !.trader = x] PROVE FundWhole(h) /\ h.members = g.members
  BY <1>2 DEF FundWhole
<1>3. ASSUME NEW h, h = [g EXCEPT !.active = x] PROVE FundWhole(h) /\ h.members = g.members
  BY <1>3 DEF FundWhole
<1>4. ASSUME NEW h, h = [g EXCEPT !.units = x, !.minted = y]
      PROVE  FundWhole(h) /\ h.members = g.members
  BY <1>4 DEF FundWhole
<1>5. ASSUME NEW h, h = [g EXCEPT !.units = x, !.redeemed = y]
      PROVE  FundWhole(h) /\ h.members = g.members
  BY <1>5 DEF FundWhole
<1>6. ASSUME NEW h, h = [g EXCEPT !.mark = x, !.aums = y]
      PROVE  FundWhole(h) /\ h.members = g.members
  BY <1>6 DEF FundWhole
<1>7. ASSUME NEW h, h = [g EXCEPT !.units = x, !.seeded = y]
      PROVE  FundWhole(h) /\ h.members = g.members
  BY <1>7 DEF FundWhole
<1>8. QED
  BY <1>1, <1>2, <1>3, <1>4, <1>5, <1>6, <1>7

(* A book in which other parts than the funds have changed. *)
LEMMA BookKept ==
  ASSUME NEW b, BookWhole(b), NEW fs, NEW hs, NEW is, NEW rs, NEW ks, NEW ls, NEW d,
         d = [formed |-> b.formed, funds |-> fs, held |-> hs, inflow |-> is,
              ranking |-> b.ranking, moves |-> b.moves, risks |-> rs, checks |-> ks, logs |-> ls],
         fs = [f \in DOMAIN b.funds |-> fs[f]],
         \A f \in DOMAIN b.funds :
            FundWhole(fs[f]) /\ fs[f].members = b.funds[f].members
  PROVE  BookWhole(d) /\ SameFunds(b, d)
BY DEF BookWhole, SameFunds

LEMMA OneFundKept ==
  ASSUME NEW b, BookWhole(b), NEW f \in DOMAIN b.funds, NEW ev, ev.fund = f,
         ev.op \in {"profile", "trader", "fundDQ"}
  PROVE  BookWhole(Apply(b, ev)) /\ SameFunds(b, Apply(b, ev))
<1>1. ASSUME NEW g, FundWhole(g), g.members = b.funds[f].members, NEW d,
             d = [b EXCEPT !.funds = [b.funds EXCEPT ![f] = g]]
      PROVE  BookWhole(d) /\ SameFunds(b, d)
  <2>1. PICK fs : fs = [b.funds EXCEPT ![f] = g]
    OBVIOUS
  <2>2. /\ fs = [x \in DOMAIN b.funds |-> fs[x]]
        /\ \A x \in DOMAIN b.funds :
              FundWhole(fs[x]) /\ fs[x].members = b.funds[x].members
    BY <1>1, <2>1 DEF BookWhole
  <2>3. d = [formed |-> b.formed, funds |-> fs, held |-> b.held, inflow |-> b.inflow,
              ranking |-> b.ranking, moves |-> b.moves, risks |-> b.risks,
              checks |-> b.checks, logs |-> b.logs]
    <3>1. /\ d = [formed |-> d.formed, funds |-> d.funds, held |-> d.held,
                  inflow |-> d.inflow, ranking |-> d.ranking, moves |-> d.moves,
                  risks |-> d.risks, checks |-> d.checks, logs |-> d.logs]
          /\ d.funds = fs /\ d.formed = b.formed /\ d.held = b.held /\ d.inflow = b.inflow
          /\ d.ranking = b.ranking /\ d.moves = b.moves /\ d.risks = b.risks
          /\ d.checks = b.checks /\ d.logs = b.logs
      BY <1>1, <2>1 DEF BookWhole
    <3>2. QED
      BY <3>1
  <2>4. QED
    BY <2>2, <2>3, BookKept
<1>2. PICK g : g = b.funds[f]
  OBVIOUS
<1>3. FundWhole(g)
  BY <1>2 DEF BookWhole
<1>4. CASE ev.op = "profile"
  <2>1. PICK h : h = [g EXCEPT !.fee = ev.fee]
    OBVIOUS
  <2>2. FundWhole(h) /\ h.members = g.members
    BY <1>3, <2>1, FundKept
  <2>3. Apply(b, ev) = [b EXCEPT !.funds = [b.funds EXCEPT ![f] = h]]
    BY <1>2, <1>4, <2>1 DEF Apply
  <2>4. QED
    BY <1>1, <1>2, <2>2, <2>3
<1>5. CASE ev.op = "trader"
  <2>1. PICK h : h = [g EXCEPT !.trader = ev.who]
    OBVIOUS
  <2>2. FundWhole(h) /\ h.members = g.members
    BY <1>3, <2>1, FundKept
  <2>3. Apply(b, ev) = [b EXCEPT !.funds = [b.funds EXCEPT ![f] = h]]
    BY <1>2, <1>5, <2>1 DEF Apply
  <2>4. QED
    BY <1>1, <1>2, <2>2, <2>3
<1>6. CASE ev.op = "fundDQ"
  <2>1. PICK h : h = [g EXCEPT !.active = FALSE]
    OBVIOUS
  <2>2. FundWhole(h) /\ h.members = g.members
    BY <1>3, <2>1, FundKept
  <2>3. Apply(b, ev) = [b EXCEPT !.funds = [b.funds EXCEPT ![f] = h]]
    BY <1>2, <1>6, <2>1 DEF Apply
  <2>4. QED
    BY <1>1, <1>2, <2>2, <2>3
<1>7. QED
  BY <1>4, <1>5, <1>6

(* What an allocation and a redemption make of a fund and of a holding. *)
Changed(fs, f, g) == [fs EXCEPT ![f] = g]
Minting(g, n)   == [g EXCEPT !.units = @ + n, !.minted = @ + n]
Redeeming(g, n) == [g EXCEPT !.units = Less(@, n), !.redeemed = @ + n]
Buying(h, n, amount)  == [h EXCEPT !.units = @ + n, !.paid = @ + amount]
Selling(h, n, amount) == [h EXCEPT !.units = Less(@, n), !.back = @ + amount]

LEMMA AllocBook ==
  ASSUME NEW b, BookWhole(b), NEW f \in DOMAIN b.funds, NEW ev, ev.fund = f, ev.op = "alloc"
  PROVE  LET h == HoldingIn(b, ev.who, f)
             d == Apply(b, ev)
         IN  /\ BookWhole(d) /\ SameFunds(b, d)
             /\ d.funds = Changed(b.funds, f, Minting(b.funds[f], ev.units))
             /\ d.held = Put(b.held, <<ev.who, f>>, Buying(h, ev.units, ev.amount))
             /\ d.checks = b.checks
<1>1. PICK d : d = Apply(b, ev)
  OBVIOUS
<1>2. PICK g : g = b.funds[f]
  OBVIOUS
<1>3. PICK h : h = [g EXCEPT !.units = g.units + ev.units, !.minted = g.minted + ev.units]
  OBVIOUS
<1>4. FundWhole(g) /\ FundWhole(h) /\ h.members = g.members
  <2>1. FundWhole(g)
    BY <1>2 DEF BookWhole
  <2>2. FundWhole(h) /\ h.members = g.members
    BY <1>3, <2>1 DEF FundWhole
  <2>3. QED
    BY <2>1, <2>2
<1>5. PICK hs : hs = Put(b.held, <<ev.who, f>>,
                         [HoldingIn(b, ev.who, f) EXCEPT !.units = @ + ev.units,
                                                         !.paid = @ + ev.amount])
  OBVIOUS
<1>6. PICK is : is = Put(b.inflow, <<ev.window, f>>, InflowIn(b, ev.window, f) + ev.amount)
  OBVIOUS
<1>7. PICK fs : fs = [b.funds EXCEPT ![f] = h]
  OBVIOUS
<1>8. d = [formed |-> b.formed, funds |-> fs, held |-> hs, inflow |-> is,
            ranking |-> b.ranking, moves |-> b.moves, risks |-> b.risks,
            checks |-> b.checks, logs |-> b.logs]
  <2>1. d = [b EXCEPT !.held = hs, !.inflow = is,
                      !.funds[f].units = @ + ev.units, !.funds[f].minted = @ + ev.units]
    BY <1>1, <1>5, <1>6 DEF Apply, Alloc
  <2>2. /\ d = [formed |-> d.formed, funds |-> d.funds, held |-> d.held,
                inflow |-> d.inflow, ranking |-> d.ranking, moves |-> d.moves,
                risks |-> d.risks, checks |-> d.checks, logs |-> d.logs]
        /\ d.formed = b.formed /\ d.held = hs /\ d.inflow = is
        /\ d.ranking = b.ranking /\ d.moves = b.moves /\ d.risks = b.risks
        /\ d.checks = b.checks /\ d.logs = b.logs
    BY <2>1 DEF BookWhole
  <2>3. d.funds = fs
    BY <1>2, <1>3, <1>4, <1>7, <2>1 DEF BookWhole, FundWhole
  <2>4. QED
    BY <2>2, <2>3
<1>9. /\ fs = [x \in DOMAIN b.funds |-> fs[x]]
      /\ \A x \in DOMAIN b.funds :
            FundWhole(fs[x]) /\ fs[x].members = b.funds[x].members
  BY <1>2, <1>4, <1>7 DEF BookWhole
<1>10. BookWhole(d) /\ SameFunds(b, d)
  BY <1>8, <1>9, BookKept
<1>11. QED
  BY <1>1, <1>2, <1>3, <1>5, <1>7, <1>8, <1>10 DEF Changed, Minting, Buying

LEMMA RedeemBook ==
  ASSUME NEW b, BookWhole(b), NEW f \in DOMAIN b.funds, NEW ev, ev.fund = f, ev.op = "redeem"
  PROVE  LET h == HoldingIn(b, ev.who, f)
             d == Apply(b, ev)
         IN  /\ BookWhole(d) /\ SameFunds(b, d)
             /\ d.funds = Changed(b.funds, f, Redeeming(b.funds[f], ev.units))
             /\ d.held = Put(b.held, <<ev.who, f>>, Selling(h, ev.units, ev.amount))
             /\ d.checks = b.checks
<1>1. PICK d : d = Apply(b, ev)
  OBVIOUS
<1>2. PICK g : g = b.funds[f]
  OBVIOUS
<1>3. PICK h : h = [g EXCEPT !.units = Less(g.units, ev.units),
                             !.redeemed = g.redeemed + ev.units]
  OBVIOUS
<1>4. FundWhole(g) /\ FundWhole(h) /\ h.members = g.members
  <2>1. FundWhole(g)
    BY <1>2 DEF BookWhole
  <2>2. FundWhole(h) /\ h.members = g.members
    BY <1>3, <2>1 DEF FundWhole
  <2>3. QED
    BY <2>1, <2>2
<1>5. PICK hs : hs = Put(b.held, <<ev.who, f>>,
                         [HoldingIn(b, ev.who, f) EXCEPT !.units = Less(@, ev.units),
                                                         !.back = @ + ev.amount])
  OBVIOUS
<1>6. PICK fs : fs = [b.funds EXCEPT ![f] = h]
  OBVIOUS
<1>7. d = [formed |-> b.formed, funds |-> fs, held |-> hs, inflow |-> b.inflow,
            ranking |-> b.ranking, moves |-> b.moves, risks |-> b.risks,
            checks |-> b.checks, logs |-> b.logs]
  <2>1. d = [b EXCEPT !.held = hs, !.funds[f].units = Less(@, ev.units),
                      !.funds[f].redeemed = @ + ev.units]
    BY <1>1, <1>5 DEF Apply, Redeem
  <2>2. /\ d = [formed |-> d.formed, funds |-> d.funds, held |-> d.held,
                inflow |-> d.inflow, ranking |-> d.ranking, moves |-> d.moves,
                risks |-> d.risks, checks |-> d.checks, logs |-> d.logs]
        /\ d.formed = b.formed /\ d.held = hs /\ d.inflow = b.inflow
        /\ d.ranking = b.ranking /\ d.moves = b.moves /\ d.risks = b.risks
        /\ d.checks = b.checks /\ d.logs = b.logs
    BY <2>1 DEF BookWhole
  <2>3. d.funds = fs
    BY <1>2, <1>3, <1>4, <1>6, <2>1 DEF BookWhole, FundWhole
  <2>4. QED
    BY <2>2, <2>3
<1>8. /\ fs = [x \in DOMAIN b.funds |-> fs[x]]
      /\ \A x \in DOMAIN b.funds :
            FundWhole(fs[x]) /\ fs[x].members = b.funds[x].members
  BY <1>2, <1>4, <1>6 DEF BookWhole
<1>9. BookWhole(d) /\ SameFunds(b, d)
  BY <1>7, <1>8, BookKept
<1>10. QED
  BY <1>1, <1>2, <1>3, <1>5, <1>6, <1>7, <1>9 DEF Changed, Redeeming, Selling

(* A sample and a checkpoint change every fund; a strategy log none.       *)
SampledWith(g, nav, aum) == [Rated(g, nav) EXCEPT !.aums = Append(@, aum)]

LEMMA SampledWhole ==
  ASSUME NEW g, FundWhole(g), NEW nav, NEW aum
  PROVE  FundWhole(SampledWith(g, nav, aum)) /\ SampledWith(g, nav, aum).members = g.members
<1>1. PICK p, h : /\ p = Rated(g, nav)
                  /\ h = [p EXCEPT !.aums = Append(p.aums, aum)]
  OBVIOUS
<1>2. FundWhole(p) /\ p.members = g.members
  <2>1. PICK x, y : p = [g EXCEPT !.peak = x, !.fall = y]
    BY <1>1 DEF Rated
  <2>2. QED
    BY <2>1 DEF FundWhole
<1>3. FundWhole(h) /\ h.members = g.members
  BY <1>1, <1>2 DEF FundWhole
<1>4. SampledWith(g, nav, aum) = h
  BY <1>1 DEF SampledWith
<1>5. QED
  BY <1>3, <1>4

LEMMA SampleBook ==
  ASSUME NEW b, BookWhole(b), NEW ev, ev.op = "series"
  PROVE  LET d == Apply(b, ev)
         IN  /\ BookWhole(d) /\ SameFunds(b, d)
             /\ \A f \in DOMAIN b.funds :
                   d.funds[f] = IF f \in DOMAIN ev.navs
                                THEN SampledWith(b.funds[f], ev.navs[f], ev.aums[f])
                                ELSE b.funds[f]
             /\ d.held = b.held /\ d.checks = b.checks
<1>1. PICK d : d = Apply(b, ev)
  OBVIOUS
<1>2. PICK fs : fs = [f \in DOMAIN b.funds |->
                        IF f \in DOMAIN ev.navs
                        THEN SampledWith(b.funds[f], ev.navs[f], ev.aums[f])
                        ELSE b.funds[f]]
  OBVIOUS
<1>3. PICK rs : d = [b EXCEPT !.risks = rs, !.funds = fs]
  <2>1. d = Sample(b, ev)
    BY <1>1 DEF Apply
  <2>2. Sample(b, ev) = [b EXCEPT !.risks = RisksWith(b, ev), !.funds = fs]
    BY <1>2 DEF Sample, SampledWith
  <2>3. QED
    BY <2>1, <2>2
<1>4. ASSUME NEW f \in DOMAIN b.funds
      PROVE  FundWhole(fs[f]) /\ fs[f].members = b.funds[f].members
  <2>1. FundWhole(b.funds[f])
    BY DEF BookWhole
  <2>2. fs[f] = b.funds[f] \/ fs[f] = SampledWith(b.funds[f], ev.navs[f], ev.aums[f])
    BY <1>2
  <2>3. QED
    BY <2>1, <2>2, SampledWhole
<1>5. d = [formed |-> b.formed, funds |-> fs, held |-> b.held, inflow |-> b.inflow,
            ranking |-> b.ranking, moves |-> b.moves, risks |-> rs,
            checks |-> b.checks, logs |-> b.logs]
  <2>1. /\ d = [formed |-> d.formed, funds |-> d.funds, held |-> d.held,
                inflow |-> d.inflow, ranking |-> d.ranking, moves |-> d.moves,
                risks |-> d.risks, checks |-> d.checks, logs |-> d.logs]
        /\ d.formed = b.formed /\ d.held = b.held /\ d.inflow = b.inflow
        /\ d.ranking = b.ranking /\ d.moves = b.moves /\ d.risks = rs
        /\ d.checks = b.checks /\ d.logs = b.logs /\ d.funds = fs
    BY <1>3 DEF BookWhole
  <2>2. QED
    BY <2>1
<1>6. fs = [f \in DOMAIN b.funds |-> fs[f]]
  BY <1>2
<1>7. BookWhole(d) /\ SameFunds(b, d)
  BY <1>4, <1>5, <1>6, BookKept
<1>8. d.funds = fs /\ d.held = b.held /\ d.checks = b.checks
  BY <1>5
<1>9. QED
  BY <1>1, <1>2, <1>7, <1>8

CheckedWith(g, k) == [g EXCEPT !.mark = k.markAfter, !.aums = <<>>]

LEMMA CheckBook ==
  ASSUME NEW b, BookWhole(b), NEW ev, ev.op = "checkpoint"
  PROVE  LET d == Apply(b, ev)
         IN  /\ BookWhole(d) /\ SameFunds(b, d)
             /\ \A f \in DOMAIN b.funds :
                   d.funds[f] = IF f \in DOMAIN ev.check.funds
                                THEN CheckedWith(b.funds[f], ev.check.funds[f])
                                ELSE b.funds[f]
             /\ d.held = b.held /\ d.checks = Append(b.checks, ev.check)
<1>1. PICK d : d = Apply(b, ev)
  OBVIOUS
<1>2. PICK fs : fs = [f \in DOMAIN b.funds |->
            IF f \in DOMAIN ev.check.funds
            THEN CheckedWith(b.funds[f], ev.check.funds[f]) ELSE b.funds[f]]
  OBVIOUS
<1>3. PICK ks : ks = Append(b.checks, ev.check)
  OBVIOUS
<1>4. d = [b EXCEPT !.checks = ks, !.funds = fs]
  BY <1>1, <1>2, <1>3 DEF Apply, Check, CheckedWith
<1>5. ASSUME NEW f \in DOMAIN b.funds
      PROVE  FundWhole(fs[f]) /\ fs[f].members = b.funds[f].members
  <2>1. PICK g : g = b.funds[f]
    OBVIOUS
  <2>2. FundWhole(g)
    BY <2>1 DEF BookWhole
  <2>3. CASE f \in DOMAIN ev.check.funds
    <3>1. PICK h : h = [g EXCEPT !.mark = ev.check.funds[f].markAfter, !.aums = <<>>]
      OBVIOUS
    <3>2. FundWhole(h) /\ h.members = g.members
      BY <2>2, <3>1 DEF FundWhole
    <3>3. fs[f] = h
      BY <1>2, <2>1, <2>3, <3>1 DEF CheckedWith
    <3>4. QED
      BY <2>1, <3>2, <3>3
  <2>4. QED
    BY <1>2, <2>1, <2>2, <2>3
<1>6. d = [formed |-> b.formed, funds |-> fs, held |-> b.held, inflow |-> b.inflow,
            ranking |-> b.ranking, moves |-> b.moves, risks |-> b.risks,
            checks |-> ks, logs |-> b.logs]
  <2>1. /\ d = [formed |-> d.formed, funds |-> d.funds, held |-> d.held,
                inflow |-> d.inflow, ranking |-> d.ranking, moves |-> d.moves,
                risks |-> d.risks, checks |-> d.checks, logs |-> d.logs]
        /\ d.formed = b.formed /\ d.held = b.held /\ d.inflow = b.inflow
        /\ d.ranking = b.ranking /\ d.moves = b.moves /\ d.risks = b.risks
        /\ d.checks = ks /\ d.logs = b.logs /\ d.funds = fs
    BY <1>4 DEF BookWhole
  <2>2. QED
    BY <2>1
<1>7. fs = [f \in DOMAIN b.funds |-> fs[f]]
  BY <1>2
<1>8. BookWhole(d) /\ SameFunds(b, d)
  BY <1>5, <1>6, <1>7, BookKept
<1>9. d.funds = fs /\ d.held = b.held /\ d.checks = ks
  BY <1>6
<1>10. QED
  BY <1>1, <1>2, <1>3, <1>8, <1>9

LEMMA LogBook ==
  ASSUME NEW b, BookWhole(b), NEW ev, ev.op = "log"
  PROVE  LET d == Apply(b, ev)
         IN  /\ BookWhole(d) /\ SameFunds(b, d)
             /\ d.funds = b.funds /\ d.held = b.held /\ d.checks = b.checks
<1>1. PICK d : d = Apply(b, ev)
  OBVIOUS
<1>2. PICK ls : ls = Append(b.logs, ev.entry)
  OBVIOUS
<1>3. d = [b EXCEPT !.logs = ls]
  BY <1>1, <1>2 DEF Apply
<1>4. d = [formed |-> b.formed, funds |-> b.funds, held |-> b.held, inflow |-> b.inflow,
            ranking |-> b.ranking, moves |-> b.moves, risks |-> b.risks,
            checks |-> b.checks, logs |-> ls]
  <2>1. /\ d = [formed |-> d.formed, funds |-> d.funds, held |-> d.held,
                inflow |-> d.inflow, ranking |-> d.ranking, moves |-> d.moves,
                risks |-> d.risks, checks |-> d.checks, logs |-> d.logs]
        /\ d.formed = b.formed /\ d.held = b.held /\ d.inflow = b.inflow
        /\ d.ranking = b.ranking /\ d.moves = b.moves /\ d.risks = b.risks
        /\ d.checks = b.checks /\ d.logs = ls /\ d.funds = b.funds
    BY <1>3 DEF BookWhole
  <2>2. QED
    BY <2>1
<1>5. /\ b.funds = [f \in DOMAIN b.funds |-> b.funds[f]]
      /\ \A f \in DOMAIN b.funds : FundWhole(b.funds[f])
  BY DEF BookWhole
<1>6. BookWhole(d) /\ SameFunds(b, d)
  BY <1>4, <1>5, BookKept
<1>7. QED
  BY <1>1, <1>4, <1>6

(* What a new fund is, and who holds its units. *)
Seeded(g, n) == [Launched(g) EXCEPT !.units = n, !.seeded = n]

HeldBy(seeds) ==
    [k \in {<<s.team, s.fund>> : s \in ToSet(seeds)} |->
        [units |-> SeedOf(seeds, k).units, paid |-> SeedOf(seeds, k).amount,
         back |-> 0, seed |-> TRUE]]

LEMMA FormBook ==
  ASSUME NEW b, BookWhole(b), NEW ev, ev.op = "formed", Listed(ev.moves)
  PROVE  LET d == Apply(b, ev)
         IN  /\ BookWhole(d)
             /\ DOMAIN d.funds = DOMAIN ev.funds
             /\ \A f \in DOMAIN ev.funds :
                   d.funds[f] = Seeded(ev.funds[f], Brought(ev.seeds, f))
             /\ d.held = HeldBy(ev.seeds)
             /\ d.checks = b.checks /\ d.moves = ev.moves /\ d.formed = TRUE
<1>1. PICK d : d = Apply(b, ev)
  OBVIOUS
<1>2. PICK fs : fs = [f \in DOMAIN ev.funds |->
                     [Launched(ev.funds[f]) EXCEPT !.units = Brought(ev.seeds, f),
                                                   !.seeded = Brought(ev.seeds, f)]]
  OBVIOUS
<1>3. PICK hs : hs = [k \in {<<s.team, s.fund>> : s \in ToSet(ev.seeds)} |->
                             [units |-> SeedOf(ev.seeds, k).units,
                              paid |-> SeedOf(ev.seeds, k).amount, back |-> 0, seed |-> TRUE]]
  OBVIOUS
<1>4. d = [b EXCEPT !.formed = TRUE, !.ranking = ev.ranking, !.moves = ev.moves,
                    !.funds = fs, !.held = hs]
  BY <1>1, <1>2, <1>3 DEF Apply, Form
<1>5. /\ d = [formed |-> d.formed, funds |-> d.funds, held |-> d.held,
              inflow |-> d.inflow, ranking |-> d.ranking, moves |-> d.moves,
              risks |-> d.risks, checks |-> d.checks, logs |-> d.logs]
      /\ d.formed = TRUE /\ d.held = hs /\ d.moves = ev.moves
      /\ d.checks = b.checks /\ d.funds = fs
  BY <1>4 DEF BookWhole
<1>6. ASSUME NEW f \in DOMAIN ev.funds
      PROVE  FundWhole(fs[f]) /\ fs[f] = Seeded(ev.funds[f], Brought(ev.seeds, f))
  <2>1. PICK g, x : g = Launched(ev.funds[f]) /\ x = Brought(ev.seeds, f)
    OBVIOUS
  <2>2. FundWhole(g)
    BY <2>1 DEF Launched, FundWhole
  <2>3. PICK h : h = [g EXCEPT !.units = x, !.seeded = x]
    OBVIOUS
  <2>4. FundWhole(h)
    BY <2>2, <2>3 DEF FundWhole
  <2>5. fs[f] = h
    BY <1>2, <2>1, <2>3
  <2>6. h = Seeded(ev.funds[f], Brought(ev.seeds, f))
    BY <2>1, <2>3 DEF Seeded
  <2>7. QED
    BY <2>4, <2>5, <2>6
<1>7. fs = [f \in DOMAIN fs |-> fs[f]] /\ DOMAIN fs = DOMAIN ev.funds
  BY <1>2
<1>8. BookWhole(d)
  BY <1>5, <1>6, <1>7 DEF BookWhole
<1>9. hs = HeldBy(ev.seeds)
  BY <1>3 DEF HeldBy
<1>10. /\ d.funds = fs /\ d.held = hs /\ d.checks = b.checks /\ d.moves = ev.moves
       /\ d.formed = TRUE
  BY <1>5
<1> HIDE <1>2, <1>3, <1>4, <1>5
<1>11. QED
  BY <1>1, <1>6, <1>7, <1>8, <1>9, <1>10

LEMMA EmptyBook == BookWhole(NewBook) /\ DOMAIN NewBook.funds = {} /\ ~NewBook.formed
<1>1. Listed(<<>>) /\ <<>> = [i \in {} |-> <<>>[i]] /\ DOMAIN <<>> = {}
  <2>1. <<>> \in Seq({})
    OBVIOUS
  <2>2. QED
    BY <2>1, SequencesOwn DEF Listed
<1>2. PICK e : e = <<>>
  OBVIOUS
<1>3. PICK b : b = [formed |-> FALSE, funds |-> e, held |-> e, inflow |-> e,
                    ranking |-> e, moves |-> e, risks |-> e, checks |-> e, logs |-> e]
  OBVIOUS
<1>4. BookWhole(b) /\ DOMAIN b.funds = {} /\ ~b.formed
  BY <1>1, <1>2, <1>3 DEF BookWhole
<1>5. NewBook = b
  BY <1>2, <1>3 DEF NewBook
<1>6. QED
  BY <1>4, <1>5

(* The events there are. *)
Events == {"formed", "dissolve", "alloc", "redeem", "series", "checkpoint", "profile",
           "trader", "fundDQ", "log"}

LEMMA ApplyWhole ==
  ASSUME NEW b, BookWhole(b), NEW ev, ev.op \in Events, Accepts(b, ev),
         ev.op = "formed" => Listed(ev.moves)
  PROVE  /\ BookWhole(Apply(b, ev))
         /\ ev.op \notin {"formed", "dissolve"} => SameFunds(b, Apply(b, ev))
<1>1. CASE ev.op = "formed"
  BY <1>1, FormBook
<1>2. CASE ev.op = "dissolve"
  BY <1>2, EmptyBook DEF Apply
<1>3. CASE ev.op \in {"profile", "trader", "fundDQ"}
  <2>1. ev.fund \in DOMAIN b.funds
    BY <1>3 DEF Accepts
  <2>2. QED
    BY <1>3, <2>1, OneFundKept
<1>4. CASE ev.op = "alloc"
  <2>1. ev.fund \in DOMAIN b.funds
    BY <1>4 DEF Accepts
  <2>2. QED
    BY <1>4, <2>1, AllocBook
<1>5. CASE ev.op = "redeem"
  <2>1. ev.fund \in DOMAIN b.funds
    BY <1>5 DEF Accepts
  <2>2. QED
    BY <1>5, <2>1, RedeemBook
<1>6. CASE ev.op = "series"
  BY <1>6, SampleBook
<1>7. CASE ev.op = "checkpoint"
  BY <1>7, CheckBook
<1>8. CASE ev.op = "log"
  BY <1>8, LogBook
<1>9. QED
  BY <1>1, <1>2, <1>3, <1>4, <1>5, <1>6, <1>7, <1>8 DEF Events

-----------------------------------------------------------------------------
(* What is worked out is still accepted when it is stored.                 *)

LEMMA ReadyKept ==
  ASSUME Ready, NEW c \in Call, Moved1(c), book' = book, ReadyAt(c)'
  PROVE  Ready'
<1>1. ASSUME NEW d \in Call PROVE ReadyAt(d)'
  <2>1. CASE d # c
    <3>1. pc'[d] = pc[d] /\ got'[d] = got[d] /\ ReadyAt(d)
      BY <2>1 DEF Moved1, Ready
    <3>2. QED
      BY <3>1 DEF ReadyAt, Restructures, Kind
  <2>2. QED
    BY <2>1
<1>2. QED
  BY <1>1 DEF Ready

LEMMA NothingReady ==
  ASSUME NEW c \in Call,
         pc'[c] \notin {"asked", "reading", "raising", "selling", "storing", "stored", "moving"}
  PROVE  ReadyAt(c)'
BY DEF ReadyAt

LEMMA SameReady ==
  ASSUME NEW c \in Call, ReadyAt(c), book' = book, Moved1(c),
         pc[c] \in {"reading", "raising", "selling", "storing", "stored"},
         pc'[c] \in {"reading", "raising", "selling", "storing", "stored", "stuck", "over"},
         pc'[c] \notin {"stuck", "over"} =>
            Accepts(book, got'[c]) /\ (Restructures(c) => Listed(got'[c].moves))
  PROVE  ReadyAt(c)'
BY DEF ReadyAt, Restructures, Kind

LEMMA EnterReady ==
  ASSUME Shapes, NEW c \in Call, Enter(c)
  PROVE  ReadyAt(c)'
<1>1. PICK n \in Admitted(Wants[c]) : Note(c, n)
  BY DEF Enter
<1>2. pc'[c] = "asked" /\ got'[c] = n /\ book' = book
  BY <1>1, EnterShape, PutsAt DEF Enter, state
<1>3. CASE Kind(c) = "profile"
  <2>1. PICK f \in MaySetFee(Wants[c]) : n = [fund |-> f]
    BY <1>1, <1>3 DEF Admitted, Kind
  <2>2. n.fund \in DOMAIN book.funds
    BY <2>1 DEF MaySetFee, FundOfMember
  <2>3. QED
    BY <1>2, <1>3, <2>2 DEF ReadyAt, Kind
<1>4. CASE Kind(c) = "trader"
  <2>1. PICK f : /\ f \in DOMAIN book.funds /\ Wants[c].who \in ToSet(book.funds[f].members)
                 /\ n = [fund |-> f]
    BY <1>1, <1>4 DEF Admitted, Kind
  <2>2. n.fund = f
    BY <2>1
  <2>3. QED
    BY <1>2, <1>4, <2>1, <2>2 DEF ReadyAt, Kind
<1>5. CASE Kind(c) \notin {"profile", "trader"}
  BY <1>2, <1>5 DEF ReadyAt, Kind
<1>6. QED
  BY <1>3, <1>4, <1>5

(* Moves turned round. *)
LEMMA TurnedRound ==
  ASSUME NEW s, Listed(s), NEW t, DOMAIN t = DOMAIN s, t = [i \in DOMAIN t |-> t[i]]
  PROVE  Listed(t)
<1>1. Len(s) \in Nat /\ DOMAIN s = 1 .. Len(s)
  BY DEF Listed
<1>2. \A i \in DOMAIN t : t[i] \in ToSet(t)
  BY DEF ToSet
<1>3. t \in [1 .. Len(s) -> ToSet(t)]
  BY <1>1, <1>2
<1>4. QED
  BY <1>1, <1>3 DEF Listed

LEMMA PlanReady ==
  ASSUME Shapes, BookWhole(book), NEW c \in Call, ReadyAt(c), Plan(c)
  PROVE  ReadyAt(c)'
<1>0. pc[c] = "asked" /\ book' = book /\ Moved1(c)
  BY PlanShape DEF Plan, state
<1>1. CASE Ends(c)
  BY <1>1, EndsShape, NothingReady DEF Ends
<1> DEFINE P == {"reading", "raising", "storing"}
<1>2. ASSUME NEW p \in P, NEW ev, To(c, p), Note(c, ev), Accepts(book, ev),
             Restructures(c) => Listed(ev.moves)
      PROVE  ReadyAt(c)'
  <2>1. p \in Acting
    BY DEF Acting
  <2>2. pc'[c] = p /\ got'[c] = ev
    BY <1>2, <2>1, PutsAt
  <2>3. p \notin {"asked", "moving"}
    OBVIOUS
  <2>4. QED
    BY <1>0, <1>2, <2>2, <2>3 DEF ReadyAt, Restructures, Kind
<1>3. ASSUME PlanForm(c), ~Ends(c) PROVE ReadyAt(c)'
  <2>1. PICK ev : /\ To(c, "reading") /\ Note(c, ev) /\ ~book.formed
                  /\ ev.op = "formed" /\ ev.moves = <<>>
    BY <1>3 DEF PlanForm
  <2>2. Listed(<<>>)
    BY EmptyBook DEF BookWhole, NewBook
  <2>3. Accepts(book, ev)
    BY <2>1 DEF Accepts
  <2>4. QED
    BY <1>2, <2>1, <2>2, <2>3
<1>4. ASSUME PlanDissolve(c), ~Ends(c) PROVE ReadyAt(c)'
  <2>1. PICK m : m = [i \in DOMAIN book.moves |-> [book.moves[i] EXCEPT
                         !.from = book.moves[i].to, !.to = book.moves[i].from]]
    OBVIOUS
  <2>2. To(c, "storing") /\ Note(c, [op |-> "dissolve", moves |-> m])
    BY <1>4, <2>1 DEF PlanDissolve
  <2>3. Listed(book.moves)
    BY DEF BookWhole
  <2>4. Listed(m)
    BY <2>1, <2>3, TurnedRound
  <2>5. Accepts(book, [op |-> "dissolve", moves |-> m])
    BY DEF Accepts
  <2>6. QED
    BY <1>2, <2>2, <2>4, <2>5
<1>5. ASSUME PlanAlloc(c), ~Ends(c) PROVE ReadyAt(c)'
  <2>1. PICK ev : /\ To(c, "storing") /\ Note(c, ev) /\ ev.op = "alloc"
                  /\ ev.fund \in DOMAIN book.funds /\ Kind(c) = "alloc"
    BY <1>5 DEF PlanAlloc
  <2>2. Accepts(book, ev) /\ ~Restructures(c)
    BY <2>1 DEF Accepts, Restructures
  <2>3. QED
    BY <1>2, <2>1, <2>2
<1>6. ASSUME PlanRedeem(c), ~Ends(c) PROVE ReadyAt(c)'
  <2>1. PICK ev : /\ To(c, "raising") /\ Note(c, ev) /\ ev.op = "redeem"
                  /\ ev.fund \in DOMAIN book.funds /\ Kind(c) = "redeem"
    BY <1>6 DEF PlanRedeem
  <2>2. Accepts(book, ev) /\ ~Restructures(c)
    BY <2>1 DEF Accepts, Restructures
  <2>3. QED
    BY <1>2, <2>1, <2>2
<1>7. ASSUME PlanOne(c), ~Ends(c) PROVE ReadyAt(c)'
  <2>1. PICK ev \in Planned(c) : To(c, "storing") /\ Note(c, ev)
    BY <1>7 DEF PlanOne
  <2>2. Kind(c) \in {"profile", "trader", "fundDQ", "log", "sample", "checkpoint"}
        /\ ~Restructures(c)
    BY <1>7 DEF PlanOne, Restructures
  <2>3. Accepts(book, ev)
    <3>1. CASE Kind(c) = "profile"
      BY <1>0, <2>1, <3>1 DEF Planned, FundProfile, Accepts, ReadyAt
    <3>2. CASE Kind(c) = "trader"
      BY <1>0, <2>1, <3>2 DEF Planned, FundTrader, Accepts, ReadyAt
    <3>3. CASE Kind(c) = "fundDQ"
      BY <2>1, <3>3 DEF Planned, Disqualified, Accepts
    <3>4. CASE Kind(c) = "log"
      BY <2>1, <3>4 DEF Planned, StrategyLog, Accepts
    <3>5. CASE Kind(c) = "sample"
      BY <2>1, <3>5 DEF Planned, Series, Accepts
    <3>6. CASE Kind(c) = "checkpoint"
      BY <2>1, <3>6 DEF Planned, CheckpointOnce, Accepts
    <3>7. QED
      BY <2>2, <3>1, <3>2, <3>3, <3>4, <3>5, <3>6
  <2>4. QED
    BY <1>2, <2>1, <2>2, <2>3
<1>8. QED
  BY <1>1, <1>3, <1>4, <1>5, <1>6, <1>7 DEF Plan

LEMMA Joined ==
  ASSUME NEW s, Listed(s), NEW t, Listed(t)
  PROVE  Listed(s \o t)
<1> DEFINE R == ToSet(s) \cup ToSet(t)
<1>1. s \in Seq(R) /\ t \in Seq(R)
  BY DEF Listed
<1> HIDE DEF R
<1>2. s \o t \in Seq(R)
  BY <1>1
<1>3. QED
  BY <1>2, SequencesOwn DEF Listed

LEMMA AtMostOne ==
  ASSUME NEW p \in BOOLEAN, NEW m
  PROVE  Listed(IF p THEN <<m>> ELSE <<>>)
<1>1. <<m>> \in Seq({m}) /\ <<>> \in Seq({m})
  OBVIOUS
<1>2. Listed(<<m>>) /\ Listed(<<>>)
  BY <1>1, SequencesOwn DEF Listed
<1>3. QED
  BY <1>2

LEMMA ReadReady ==
  ASSUME Shapes, NEW c \in Call, ReadyAt(c), ReadTeam(c) \/ ReadAll(c)
  PROVE  ReadyAt(c)'
<1>0. /\ book' = book /\ Moved1(c) /\ pc[c] = "reading"
      /\ pc'[c] \in {"reading", "storing"} /\ FormNote(got[c]) /\ Kind(c) = "form"
  BY ReadShape DEF ReadTeam, ReadAll, state, Shapes, Shaped
<1>1. Accepts(book, got[c]) /\ Listed(got[c].moves) /\ ~book.formed
  BY <1>0 DEF ReadyAt, Restructures, FormNote, Accepts
<1>2. CASE ReadTeam(c)
  <2>1. PICK l, m, d : /\ Note(c, [got[c] EXCEPT !.todo = l, !.moves = m, !.seeds = d])
                       /\ Listed(m)
    <3> DEFINE t == Head(got[c].todo)
               f == CHOOSE x \in DOMAIN got[c].funds : t \in ToSet(got[c].funds[x].members)
               a == ledger[t]
               ps == Position(a, Sym)
               x == [from |-> t, to |-> f, cash |-> a.cash, qty |-> 0, cost |-> 0]
               y == [from |-> t, to |-> f, cash |-> 0, qty |-> ps.qty, cost |-> ps.cost]
               p == a.cash > 0
               q == ps.qty > 0
               one == IF p THEN <<x>> ELSE <<>>
               two == IF q THEN <<y>> ELSE <<>>
    <3>1. \E d : Note(c, [got[c] EXCEPT !.todo = Tail(@), !.moves = @ \o one \o two,
                                       !.seeds = d])
      BY <1>2 DEF ReadTeam
    <3>2. PICK d : Note(c, [got[c] EXCEPT !.todo = Tail(@), !.moves = @ \o one \o two,
                                       !.seeds = d])
      BY <3>1
    <3>3. Note(c, [got[c] EXCEPT !.todo = Tail(got[c].todo),
                                 !.moves = got[c].moves \o one \o two, !.seeds = d])
      BY <1>0, <3>2 DEF FormNote
    <3>4. Listed(one) /\ Listed(two)
      BY AtMostOne
    <3> HIDE DEF one, two
    <3>5. Listed(got[c].moves \o one) /\ Listed(got[c].moves \o one \o two)
      BY <1>1, <3>4, Joined
    <3>6. QED
      BY <3>3, <3>5
  <2>3. PICK g, h : g = got[c] /\ h = [g EXCEPT !.todo = l, !.moves = m, !.seeds = d]
    OBVIOUS
  <2>4. h.op = "formed" /\ h.moves = m
    BY <1>0, <2>3 DEF FormNote
  <2>5. got'[c] = h
    BY <2>1, <2>3, PutsAt
  <2>6. Accepts(book, h)
    BY <1>1, <2>4 DEF Accepts
  <2>7. QED
    BY <1>0, <2>1, <2>4, <2>5, <2>6, SameReady
<1>3. CASE ReadAll(c)
  <2>1. got'[c] = got[c]
    BY <1>3, PutsAt DEF ReadAll
  <2>2. QED
    BY <1>0, <1>1, <2>1, SameReady
<1>4. QED
  BY <1>2, <1>3

LEMMA RaiseReady ==
  ASSUME Shapes, NEW c \in Call, ReadyAt(c), Raise(c) \/ Sell(c)
  PROVE  ReadyAt(c)'
<1>0. /\ book' = book /\ Moved1(c) /\ pc[c] \in {"raising", "selling"}
      /\ pc'[c] \in {"selling", "storing", "stuck", "over"}
      /\ Kind(c) = "redeem" /\ RedeemNote(got[c])
  BY RaiseShape DEF Raise, Sell, state, Shapes, Shaped
<1>1. Accepts(book, got[c]) /\ ~Restructures(c)
  BY <1>0 DEF ReadyAt, Restructures
<1>2. ASSUME pc'[c] \notin {"stuck", "over"}
      PROVE  got'[c].op = "redeem" /\ got'[c].fund = got[c].fund
  <2>1. CASE got'[c] = got[c]
    BY <1>0, <2>1 DEF RedeemNote
  <2>2. CASE \E s : got'[c] = [got[c] EXCEPT !.sell = s]
    <3>1. PICK g, h, s : g = got[c] /\ h = got'[c] /\ h = [g EXCEPT !.sell = s]
      BY <2>2
    <3>2. QED
      BY <1>0, <3>1 DEF RedeemNote
  <2>3. CASE Raise(c)
    <3>1. CASE Leaves(c, "stuck")
      BY <1>2, <3>1, EndsShape
    <3>2. CASE UNCHANGED got
      BY <2>1, <3>2
    <3>3. CASE \E s : Note(c, [got[c] EXCEPT !.sell = s])
      BY <2>2, <3>3, PutsAt
    <3>4. QED
      BY <2>3, <3>1, <3>2, <3>3 DEF Raise
  <2>4. CASE Sell(c)
    <3>1. PICK t : Execute(c, t, "storing", "stuck")
      BY <2>4 DEF Sell
    <3>2. "storing" \in Acting
      BY DEF Acting
    <3>3. pc'[c] = "storing" /\ got'[c] = got[c]
      BY <1>2, <3>1, <3>2, ExecuteMoves
    <3>4. QED
      BY <2>1, <3>3
  <2>5. QED
    BY <2>3, <2>4
<1>3. got[c].op = "redeem"
  BY <1>0 DEF RedeemNote
<1>4. pc'[c] \notin {"stuck", "over"} => Accepts(book, got'[c])
  BY <1>1, <1>2, <1>3 DEF Accepts
<1>5. QED
  BY <1>0, <1>1, <1>4, SameReady

LEMMA StoreReady ==
  ASSUME Shapes, NEW c \in Call, ReadyAt(c), Store(c)
  PROVE  ReadyAt(c)'
<1>0. /\ book' = book /\ Moved1(c) /\ pc[c] = "storing"
      /\ pc'[c] \in {"stored", "stuck", "over"}
      /\ pc'[c] = "stored" => got'[c] = got[c]
  BY StoreShape DEF Store
<1>1. Accepts(book, got[c]) /\ (Restructures(c) => Listed(got[c].moves))
  BY <1>0 DEF ReadyAt
<1>2. QED
  BY <1>0, <1>1, SameReady

LEMMA StartReady ==
  ASSUME Shapes, NEW c \in Call, ReadyAt(c), OpenFunds(c) \/ StartBack(c)
  PROVE  ReadyAt(c)'
<1>1. /\ pc[c] = "stored" /\ pc'[c] = "moving" /\ got'[c].todo = got[c].moves
      /\ got[c].op \in {"formed", "dissolve"}
  BY StartShape DEF OpenFunds, StartBack
<1>2. Restructures(c)
  BY <1>1, KindsKnown DEF Shapes, Shaped, OpOf, Restructures
<1>3. Listed(got[c].moves)
  BY <1>1, <1>2 DEF ReadyAt
<1>4. QED
  BY <1>1, <1>3 DEF ReadyAt

LEMMA Rest ==
  ASSUME NEW s, Listed(s), s # <<>>
  PROVE  Listed(Tail(s))
<1>1. Tail(s) \in Seq(ToSet(s))
  BY DEF Listed
<1>2. QED
  BY <1>1, SequencesOwn DEF Listed

LEMMA MoveReady ==
  ASSUME Shapes, NEW c \in Call, ReadyAt(c), MoveNext(c)
  PROVE  ReadyAt(c)'
<1>1. pc'[c] = "moving" /\ got'[c].todo = Tail(got[c].todo)
  BY MoveShape
<1>2. Listed(got[c].todo) /\ got[c].todo # <<>>
  BY DEF ReadyAt, MoveNext
<1>3. QED
  BY <1>1, <1>2, Rest DEF ReadyAt

LEMMA OthersReady ==
  ASSUME Ready, Alone, Apart, Shapes, NEW c \in Call, HoldsFundMu(c), Moved1(c),
         Restructures(c) \/ SameFunds(book, book'), ReadyAt(c)'
  PROVE  Ready'
<1>1. ASSUME NEW d \in Call, d # c PROVE ReadyAt(d)'
  <2>1. pc'[d] = pc[d] /\ got'[d] = got[d] /\ ReadyAt(d) /\ ~HoldsFundMu(d)
    BY <1>1 DEF Moved1, Ready, Alone
  <2>2. pc[d] \notin {"reading", "raising", "selling", "storing", "stored", "moving"}
    BY <2>1 DEF HoldsFundMu, Acting
  <2>3. CASE pc[d] = "asked" /\ Kind(d) \in {"profile", "trader"}
    <3>1. ~Restructures(c)
      BY <2>3 DEF Apart, Looks, HoldsFundMu, Acting
    <3>2. SameFunds(book, book')
      BY <3>1
    <3>3. QED
      BY <2>1, <2>3, <3>2 DEF ReadyAt, SameFunds, Kind
  <2>4. QED
    BY <2>1, <2>2, <2>3 DEF ReadyAt, Kind
<1>2. QED
  BY <1>1 DEF Ready

LEMMA StoredOp ==
  ASSUME Shapes, NEW c \in Call, pc[c] \in {"storing", "stored"}
  PROVE  /\ got[c].op \in Events
         /\ Restructures(c) <=> got[c].op \in {"formed", "dissolve"}
BY KindsKnown DEF Shapes, Shaped, OpOf, Events, Restructures

LEMMA BookChanges ==
  ASSUME Shapes, Alone, Apart, Ready, BookWhole(book), NEW c \in Call,
         ApplyEvent(c) \/ OpenFunds(c) \/ AllMoved(c)
  PROVE  BookWhole(book') /\ Ready'
<1>1. CASE ApplyEvent(c)
  <2>1. Moved1(c) /\ pc'[c] = "over"
    BY <1>1, ApplyShape
  <2>2. /\ pc[c] = "stored" /\ HoldsFundMu(c) /\ got[c].op \in Events
        /\ got[c].op \notin {"formed", "dissolve"} /\ Accepts(book, got[c])
        /\ book' = Apply(book, got[c])
    BY <1>1, StoredOp DEF ApplyEvent, HoldsFundMu, Acting, Ready, ReadyAt
  <2>3. BookWhole(book') /\ SameFunds(book, book')
    BY <2>2, ApplyWhole
  <2>4. ReadyAt(c)'
    BY <2>1, NothingReady
  <2>5. QED
    BY <2>1, <2>2, <2>3, <2>4, OthersReady
<1>2. CASE OpenFunds(c)
  <2>1. Moved1(c) /\ ReadyAt(c)'
    BY <1>2, StartShape, StartReady DEF Ready
  <2>2. /\ pc[c] = "stored" /\ HoldsFundMu(c) /\ Restructures(c)
        /\ got[c].op = "formed" /\ book' = Apply(book, got[c])
    BY <1>2, StoredOp DEF OpenFunds, HoldsFundMu, Acting
  <2>3. Listed(got[c].moves)
    BY <2>2 DEF Ready, ReadyAt
  <2>4. BookWhole(book')
    BY <2>2, <2>3, FormBook
  <2>5. QED
    BY <2>1, <2>2, <2>4, OthersReady
<1>3. CASE AllMoved(c)
  <2>1. Moved1(c) /\ pc'[c] \in {"roles", "clearing"}
    BY <1>3, MovedShape
  <2>2. pc[c] = "moving" /\ HoldsFundMu(c) /\ Restructures(c)
    BY <1>3 DEF AllMoved, HoldsFundMu, Acting, Shapes, Shaped
  <2>3. ReadyAt(c)'
    BY <2>1, NothingReady
  <2>4. BookWhole(book')
    <3>1. book' = book \/ book' = NewBook
      BY <1>3 DEF AllMoved
    <3>2. QED
      BY <3>1, EmptyBook
  <2>5. QED
    BY <2>1, <2>2, <2>3, <2>4, OthersReady
<1>4. QED
  BY <1>1, <1>2, <1>3

LEMMA ReadyNext ==
  ASSUME Shapes, Alone, Apart, Ready, BookWhole(book), BookWhole(Rebuilt(log).book),
         [Next]_vars
  PROVE  BookWhole(book') /\ Ready'
<1>1. ASSUME NEW c \in Call, Enter(c) PROVE BookWhole(book') /\ Ready'
  <2>1. Moved1(c) /\ ReadyAt(c)'
    BY <1>1, EnterShape, EnterReady
  <2>2. book' = book
    BY <1>1 DEF Enter, state
  <2>3. QED
    BY <2>1, <2>2, ReadyKept
<1>2. ASSUME NEW c \in Call, CallStep(c) PROVE BookWhole(book') /\ Ready'
  <2>0. ReadyAt(c) /\ Moved1(c)
    BY <1>2, StepsHold DEF Ready
  <2>1. ASSUME book' = book, ReadyAt(c)' PROVE BookWhole(book') /\ Ready'
    BY <2>0, <2>1, ReadyKept
  <2>2. CASE Trade(c)
    BY <2>1, <2>2, TradeShape, NothingReady DEF Trade
  <2>3. CASE Record(c)
    BY <2>1, <2>3, RecordShape, NothingReady DEF Record
  <2>4. CASE Plan(c)
    BY <2>0, <2>1, <2>4, PlanReady DEF Plan, state
  <2>5. CASE ReadTeam(c) \/ ReadAll(c)
    BY <2>0, <2>1, <2>5, ReadReady DEF ReadTeam, ReadAll, state
  <2>6. CASE Raise(c) \/ Sell(c)
    BY <2>0, <2>1, <2>6, RaiseReady DEF Raise, Sell, state
  <2>7. CASE Store(c)
    BY <2>0, <2>1, <2>7, StoreReady DEF Store
  <2>8. CASE ApplyEvent(c) \/ OpenFunds(c) \/ AllMoved(c)
    BY <2>8, BookChanges
  <2>9. CASE StartBack(c)
    BY <2>0, <2>1, <2>9, StartReady DEF StartBack, state
  <2>10. CASE MoveNext(c)
    BY <2>0, <2>1, <2>10, MoveReady DEF MoveNext
  <2>11. CASE RemoveFunds(c)
    BY <2>1, <2>11, RemoveShape, NothingReady DEF RemoveFunds
  <2>12. CASE SetRole(c)
    BY <2>1, <2>12, RoleShape, NothingReady DEF SetRole
  <2>13. CASE RolesSet(c)
    BY <2>1, <2>13, ApplyShape, NothingReady DEF RolesSet, state
  <2>14. QED
    BY <1>2, <2>2, <2>3, <2>4, <2>5, <2>6, <2>7, <2>8, <2>9, <2>10, <2>11, <2>12, <2>13
       DEF CallStep
<1>3. CASE Kill
  <2>1. book' = Rebuilt(log).book
    BY <1>3 DEF Kill, Becomes
  <2>2. \A d \in Call : ReadyAt(d)'
    BY <1>3, KillStops DEF ReadyAt
  <2>3. QED
    BY <2>1, <2>2 DEF Ready
<1>4. CASE UNCHANGED <<book, pc, got>>
  BY <1>4 DEF Ready, ReadyAt, Restructures, Kind
<1>5. QED
  BY <1>1, <1>2, <1>3, <1>4, StepCases DEF state

-----------------------------------------------------------------------------
(* The log can be replayed after every step.                               *)

(* The log can be replayed, and gives a state with all its parts. *)
LogGood == Logged(log) /\ Whole(Rebuilt(log)) /\ BookWhole(Rebuilt(log).book)

LEMMA Grows ==
  ASSUME LogGood, NEW rec, log' = Append(log, rec), Replays(Rebuilt(log), rec),
         Whole(Replay(Rebuilt(log), rec)), Replay(Rebuilt(log), rec).ok = TRUE,
         BookWhole(Replay(Rebuilt(log), rec).book)
  PROVE  LogGood' /\ Rebuilt(log') = Replay(Rebuilt(log), rec)
<1>1. Listed(log') /\ Rebuilt(log') = Restored(Rebuilt(log), rec)
  BY LogAppends DEF LogGood, Logged, Listed
<1>2. Restored(Rebuilt(log), rec) = Replay(Rebuilt(log), rec)
  BY DEF Restored, LogGood, Logged
<1>3. QED
  BY <1>1, <1>2 DEF LogGood, Logged

LEMMA GrowsByTrade ==
  ASSUME LogGood, NEW t, t.kind = "trade", log' = Append(log, t),
         t.acct \in DOMAIN Rebuilt(log).ledger
  PROVE  LET s == Rebuilt(log) IN
         /\ LogGood'
         /\ Rebuilt(log') =
               [ledger |-> [s.ledger EXCEPT ![t.acct] = AfterTrade(s.ledger[t.acct], t)],
                book |-> s.book, role |-> s.role, traded |-> s.traded \cup {t.acct},
                ok |-> s.ok]
<1>1. PICK s : s = Rebuilt(log)
  OBVIOUS
<1>2. Whole(s) /\ s.ok = TRUE /\ BookWhole(s.book)
  BY <1>1 DEF LogGood, Logged
<1>3. Replays(s, t)
  BY <1>1 DEF Replays
<1>4. PICK r : r = Replay(s, t)
  OBVIOUS
<1>5. r = [ledger |-> [s.ledger EXCEPT ![t.acct] = AfterTrade(s.ledger[t.acct], t)],
           book |-> s.book, role |-> s.role, traded |-> s.traded \cup {t.acct}, ok |-> s.ok]
  BY <1>2, <1>4, TradeReplayed
<1>6. Whole(r) /\ r.ok = TRUE /\ BookWhole(r.book)
  BY <1>2, <1>5 DEF Whole
<1>7. LogGood' /\ Rebuilt(log') = r
  BY <1>1, <1>3, <1>4, <1>6, Grows
<1>8. QED
  BY <1>1, <1>5, <1>7

LEMMA GrowsByRole ==
  ASSUME LogGood, NEW u, NEW p, log' = Append(log, [kind |-> "role", who |-> u, role |-> p])
  PROVE  LET s == Rebuilt(log) IN
         /\ LogGood'
         /\ Rebuilt(log') =
               [ledger |-> s.ledger, book |-> s.book, role |-> [s.role EXCEPT ![u] = p],
                traded |-> s.traded, ok |-> s.ok]
<1>1. PICK s : s = Rebuilt(log)
  OBVIOUS
<1>2. Whole(s) /\ s.ok = TRUE /\ BookWhole(s.book)
  BY <1>1 DEF LogGood, Logged
<1>3. PICK t : t = [kind |-> "role", who |-> u, role |-> p]
  OBVIOUS
<1>4. PICK r : r = Replay(s, t)
  OBVIOUS
<1>5. /\ Replays(s, t)
      /\ r = [ledger |-> s.ledger, book |-> s.book, role |-> [s.role EXCEPT ![u] = p],
              traded |-> s.traded, ok |-> s.ok]
  BY <1>2, <1>3, <1>4, RoleReplayed
<1>6. Whole(r) /\ r.ok = TRUE /\ BookWhole(r.book)
  BY <1>2, <1>5 DEF Whole
<1>7. LogGood' /\ Rebuilt(log') = r
  BY <1>1, <1>3, <1>4, <1>5, <1>6, Grows
<1>8. QED
  BY <1>1, <1>5, <1>7

LEMMA GrowsByEvent ==
  ASSUME LogGood, NEW ev, log' = Append(log, FundRecord(ev)), ev.op \in Events,
         Accepts(Rebuilt(log).book, ev), ev.op = "formed" => Listed(ev.moves)
  PROVE  LET s == Rebuilt(log) IN
         /\ LogGood'
         /\ Rebuilt(log') =
               [ledger |-> Settled(s, ev), book |-> Apply(s.book, ev), role |-> s.role,
                traded |-> s.traded, ok |-> s.ok]
<1>1. PICK s : s = Rebuilt(log)
  OBVIOUS
<1>2. Whole(s) /\ s.ok = TRUE /\ BookWhole(s.book)
  BY <1>1 DEF LogGood, Logged
<1>3. PICK r : r = Replay(s, FundRecord(ev))
  OBVIOUS
<1>4. /\ Replays(s, FundRecord(ev))
      /\ r = [ledger |-> Settled(s, ev), book |-> Apply(s.book, ev), role |-> s.role,
              traded |-> s.traded, ok |-> s.ok]
  BY <1>1, <1>2, <1>3, FundReplayed
<1>5. BookWhole(Apply(s.book, ev))
  BY <1>1, <1>2, ApplyWhole
<1>6. Whole(r) /\ r.ok = TRUE /\ BookWhole(r.book)
  BY <1>2, <1>4, <1>5 DEF Whole
<1>7. LogGood' /\ Rebuilt(log') = r
  BY <1>1, <1>3, <1>4, <1>6, Grows
<1>8. QED
  BY <1>1, <1>4, <1>7

(* Whose event may be under way meanwhile. *)
LEMMA NobodyApplies ==
  ASSUME Shapes, Alone, Matches, NEW c \in Call, HoldsFundMu(c), ~Applying(c)
  PROVE  /\ \A d \in Call : ~Applying(d)
         /\ Rebuilt(log).book = book /\ Rebuilt(log).ledger = ledger
<1>1. \A d \in Call : Applying(d) => HoldsFundMu(d)
  BY DEF Applying, HoldsFundMu, Acting
<1>2. \A d \in Call : ~Applying(d)
  BY <1>1 DEF Alone
<1>3. QED
  BY <1>2 DEF Matches, BookMatches, LedgerMatches

LEMMA TradersWait ==
  ASSUME Shapes, Apart, NEW c \in Call, pc[c] \in Acting, Looks(c)
  PROVE  \A d \in Call : Applying(d) =>
            pc[d] = "stored" /\ got[d].op \notin {"formed", "dissolve"}
<1> SUFFICES ASSUME NEW d \in Call, Applying(d)
             PROVE  pc[d] = "stored" /\ got[d].op \notin {"formed", "dissolve"}
  OBVIOUS
<1>1. pc[d] \in Acting
  BY DEF Applying, Acting
<1>2. ~Restructures(d)
  BY <1>1 DEF Apart
<1>3. pc[d] = "stored"
  BY <1>2 DEF Shapes, Shaped, Applying
<1>4. QED
  BY <1>2, <1>3, StoredOp

LEMMA LedgerSteady ==
  ASSUME Shapes, Apart, Matches, NEW c \in Call, pc[c] \in Acting, Looks(c)
  PROVE  Rebuilt(log).ledger = ledger
<1>1. \A d \in Call : Applying(d) => LedgerDue(d) = ledger
  BY TradersWait DEF LedgerDue
<1>2. QED
  BY <1>1 DEF Matches, LedgerMatches

MatchAfter == LogGood' /\ (~broken' => Matches')

LEMMA SameLog ==
  ASSUME LogGood, UNCHANGED log
  PROVE  LogGood' /\ Rebuilt(log') = Rebuilt(log)
<1>1. log' = log
  OBVIOUS
<1>2. Rebuilt(log') = Rebuilt(log)
  BY <1>1
<1>3. QED
  BY <1>1, <1>2 DEF LogGood, Logged

LEMMA QuietMatches ==
  ASSUME LogGood, ~broken => Matches, NEW c \in Call, Moved1(c), UNCHANGED <<state, disk>>,
         ~Applying(c), pc'[c] \notin {"stored", "moving", "clearing", "made"},
         pc[c] # "made"
  PROVE  MatchAfter
<1>1. /\ ledger' = ledger /\ book' = book /\ role' = role /\ traded' = traded
      /\ log' = log /\ broken' = broken
  BY DEF state, disk
<1>2. LogGood' /\ Rebuilt(log') = Rebuilt(log)
  BY <1>1, SameLog
<1>3. ~Applying(c)'
  BY DEF Applying
<1>4. ASSUME NEW d \in Call, d # c
      PROVE  /\ Applying(d)' <=> Applying(d)
             /\ BookDue(d)' = BookDue(d) /\ LedgerDue(d)' = LedgerDue(d)
             /\ pc'[d] = pc[d] /\ got'[d] = got[d]
  <2>1. pc'[d] = pc[d] /\ got'[d] = got[d]
    BY <1>4 DEF Moved1
  <2>2. QED
    BY <1>1, <2>1 DEF Applying, BookDue, LedgerDue
<1>5. ASSUME ~broken PROVE BookMatches' /\ LedgerMatches' /\ TradesMatch'
  <2>1. BookMatches /\ LedgerMatches /\ TradesMatch
    BY <1>5 DEF Matches
  <2>2. BookMatches'
    BY <1>1, <1>2, <1>3, <1>4, <2>1 DEF BookMatches
  <2>3. LedgerMatches'
    BY <1>1, <1>2, <1>3, <1>4, <2>1 DEF LedgerMatches
  <2>4. {got'[d].acct : d \in {e \in Call : pc'[e] = "made"}}
            = {got[d].acct : d \in {e \in Call : pc[e] = "made"}}
    BY <1>4
  <2>5. TradesMatch'
    BY <1>1, <1>2, <2>1, <2>4 DEF TradesMatch
  <2>6. QED
    BY <2>2, <2>3, <2>5
<1>6. QED
  BY <1>1, <1>2, <1>5 DEF MatchAfter, Matches

LEMMA TradeMatches ==
  ASSUME Shapes, Apart, LogGood, ~broken => Matches, NEW c \in Call, Trade(c)
  PROVE  MatchAfter
<1> DEFINE t == TradeOf(got[c].acct, Wants[c].buy, Wants[c].qty)
<1>0. /\ Moved1(c) /\ pc[c] = "asked" /\ Kind(c) = "trade" /\ ~Applying(c) /\ Looks(c)
      /\ pc[c] \in Acting /\ t.kind = "trade" /\ t.acct = got[c].acct
      /\ book' = book /\ role' = role /\ traded' = traded
  BY TradeShape DEF Trade, Applying, Looks, Acting, TradeOf
<1>1. Execute(c, t, "made", "over")
  BY DEF Trade
<1> HIDE DEF t
<1>2. CASE Leaves(c, "over") /\ UNCHANGED <<ledger, disk>>
  BY <1>0, <1>2, EndsShape, QuietMatches DEF state, disk
<1>3. CASE /\ t.acct \in DOMAIN ledger /\ Stored(t) /\ To(c, "made") /\ UNCHANGED got
           /\ ledger' = [ledger EXCEPT ![t.acct] = AfterTrade(@, t)]
  <2>1. ~broken /\ log' = Append(log, t) /\ broken' = broken /\ Matches
    BY <1>3 DEF Stored
  <2>2. Rebuilt(log).ledger = ledger
    BY <1>0, <2>1, LedgerSteady
  <2>3. PICK s : s = Rebuilt(log)
    OBVIOUS
  <2>4. /\ LogGood'
        /\ Rebuilt(log') =
               [ledger |-> [s.ledger EXCEPT ![t.acct] = AfterTrade(s.ledger[t.acct], t)],
                book |-> s.book, role |-> s.role, traded |-> s.traded \cup {t.acct},
                ok |-> s.ok]
    BY <1>0, <1>3, <2>1, <2>2, <2>3, GrowsByTrade
  <2>5. /\ Rebuilt(log').ledger = ledger' /\ Rebuilt(log').book = s.book
        /\ Rebuilt(log').role = s.role /\ Rebuilt(log').traded = s.traded \cup {t.acct}
    BY <1>3, <2>2, <2>3, <2>4
  <2>6. "made" \in Acting
    BY DEF Acting
  <2>7. pc'[c] = "made" /\ got'[c] = got[c]
    BY <1>3, <2>6, PutsAt
  <2>8. ASSUME NEW d \in Call
        PROVE  /\ Applying(d)' <=> Applying(d)
               /\ Applying(d) => LedgerDue(d)' = ledger' /\ BookDue(d)' = BookDue(d)
    <3>1. CASE d = c
      BY <1>0, <2>7, <3>1 DEF Applying
    <3>2. CASE d # c
      <4>1. pc'[d] = pc[d] /\ got'[d] = got[d]
        BY <1>0, <3>2 DEF Moved1
      <4>2. Applying(d) => pc[d] = "stored" /\ got[d].op \notin {"formed", "dissolve"}
        BY <1>0, TradersWait
      <4>3. QED
        BY <1>0, <4>1, <4>2 DEF Applying, LedgerDue, BookDue
    <3>3. QED
      BY <3>1, <3>2
  <2>9. BookMatches' /\ LedgerMatches'
    BY <1>0, <2>1, <2>3, <2>5, <2>8 DEF Matches, BookMatches, LedgerMatches
  <2>10. {got'[d].acct : d \in {e \in Call : pc'[e] = "made"}}
            = {got[d].acct : d \in {e \in Call : pc[e] = "made"}} \cup {t.acct}
    <3>1. \A d \in Call : got'[d] = got[d] /\ (d # c => pc'[d] = pc[d])
      BY <1>0, <2>7 DEF Moved1
    <3>2. pc'[c] = "made" /\ pc[c] # "made" /\ t.acct = got[c].acct
      BY <1>0, <2>7
    <3>3. QED
      BY <3>1, <3>2
  <2>11. TradesMatch'
    BY <1>0, <2>1, <2>3, <2>5, <2>10 DEF Matches, TradesMatch
  <2>12. QED
    BY <1>0, <2>1, <2>3, <2>4, <2>5, <2>9, <2>11 DEF MatchAfter, Matches
<1>4. CASE t.acct \in DOMAIN ledger /\ Failed(t)
  <2>1. CASE log' = log
    BY <1>4, <2>1, SameLog DEF MatchAfter, Failed
  <2>2. CASE ~broken /\ log' = Append(log, t)
    <3>1. Rebuilt(log).ledger = ledger
      BY <1>0, <2>2, LedgerSteady
    <3>2. LogGood'
      BY <1>0, <1>4, <2>2, <3>1, GrowsByTrade
    <3>3. QED
      BY <1>4, <3>2 DEF MatchAfter, Failed
  <2>3. QED
    BY <1>4, <2>1, <2>2 DEF Failed
<1>5. QED
  BY <1>1, <1>2, <1>3, <1>4 DEF Execute

(* A step of the one that has fundMu. *)
LEMMA HolderMatches ==
  ASSUME Shapes, Alone, LogGood', NEW c \in Call, HoldsFundMu(c), Moved1(c),
         pc'[c] # "made", NEW s, NEW r, s = Rebuilt(log), r = Rebuilt(log'), TradesMatch,
         \E more : r.traded = s.traded \cup more /\ traded' = traded \cup more,
         IF Applying(c)' THEN r.book = BookDue(c)' /\ r.ledger = LedgerDue(c)'
                         ELSE r.book = book' /\ r.ledger = ledger',
         r.role = role'
  PROVE  MatchAfter
<1>1. ASSUME NEW d \in Call, d # c PROVE ~Applying(d)'
  <2>1. pc'[d] = pc[d] /\ ~HoldsFundMu(d)
    BY <1>1 DEF Moved1, Alone
  <2>2. QED
    BY <2>1 DEF HoldsFundMu, Applying, Acting
<1>2. BookMatches' /\ LedgerMatches'
  BY <1>1 DEF BookMatches, LedgerMatches
<1>3. {got'[d].acct : d \in {e \in Call : pc'[e] = "made"}}
            = {got[d].acct : d \in {e \in Call : pc[e] = "made"}}
  <2>1. pc[c] # "made" /\ pc'[c] # "made"
    BY DEF HoldsFundMu, Acting
  <2>2. QED
    BY <2>1 DEF Moved1
<1>4. TradesMatch'
  <2>1. PICK more : r.traded = s.traded \cup more /\ traded' = traded \cup more
    OBVIOUS
  <2>2. s.traded = traded \cup {got[d].acct : d \in {e \in Call : pc[e] = "made"}}
    BY DEF TradesMatch
  <2>3. r.traded = traded' \cup {got'[d].acct : d \in {e \in Call : pc'[e] = "made"}}
    BY <1>3, <2>1, <2>2
  <2>4. QED
    BY <2>3 DEF TradesMatch
<1>5. QED
  BY <1>2, <1>4 DEF MatchAfter, Matches

LEMMA RecordMatches ==
  ASSUME Shapes, Apart, LogGood, ~broken => Matches, NEW c \in Call, Record(c)
  PROVE  MatchAfter
<1>1. /\ Moved1(c) /\ pc'[c] = "over" /\ pc[c] = "made" /\ traded' = traded \cup {got[c].acct}
      /\ ledger' = ledger /\ book' = book /\ role' = role /\ log' = log /\ broken' = broken
      /\ ~Applying(c) /\ ~Applying(c)'
  BY RecordShape DEF Record, disk, Applying
<1>2. LogGood' /\ Rebuilt(log') = Rebuilt(log)
  BY <1>1, SameLog
<1>3. ASSUME NEW d \in Call, d # c
      PROVE  /\ Applying(d)' <=> Applying(d)
             /\ BookDue(d)' = BookDue(d) /\ LedgerDue(d)' = LedgerDue(d)
             /\ pc'[d] = pc[d] /\ got'[d] = got[d]
  <2>1. pc'[d] = pc[d] /\ got'[d] = got[d]
    BY <1>1, <1>3 DEF Moved1
  <2>2. QED
    BY <1>1, <2>1 DEF Applying, BookDue, LedgerDue
<1>4. ASSUME ~broken PROVE BookMatches' /\ LedgerMatches' /\ TradesMatch'
  <2>1. BookMatches /\ LedgerMatches /\ TradesMatch
    BY <1>4 DEF Matches
  <2>2. BookMatches'
    BY <1>1, <1>2, <1>3, <2>1 DEF BookMatches
  <2>3. LedgerMatches'
    BY <1>1, <1>2, <1>3, <2>1 DEF LedgerMatches
  <2>4. {got[d].acct : d \in {e \in Call : pc[e] = "made"}}
            = {got'[d].acct : d \in {e \in Call : pc'[e] = "made"}} \cup {got[c].acct}
    <3>1. \A d \in Call : d # c => pc'[d] = pc[d] /\ got'[d] = got[d]
      BY <1>3
    <3>2. pc[c] = "made" /\ pc'[c] # "made"
      BY <1>1
    <3>3. QED
      BY <3>1, <3>2
  <2>5. TradesMatch'
    <3>1. Rebuilt(log).traded
             = traded \cup {got[d].acct : d \in {e \in Call : pc[e] = "made"}}
      BY <2>1 DEF TradesMatch
    <3>2. Rebuilt(log').traded
             = traded' \cup {got'[d].acct : d \in {e \in Call : pc'[e] = "made"}}
      BY <1>1, <1>2, <2>4, <3>1
    <3>3. QED
      BY <3>2 DEF TradesMatch
  <2>6. QED
    BY <2>2, <2>3, <2>5
<1>5. QED
  BY <1>1, <1>2, <1>4 DEF MatchAfter, Matches

LEMMA PlainMatches ==
  ASSUME Shapes, LogGood, ~broken => Matches, NEW c \in Call,
         Enter(c) \/ Plan(c) \/ ReadTeam(c) \/ ReadAll(c) \/ Raise(c) \/ RolesSet(c)
  PROVE  MatchAfter
<1>1. UNCHANGED <<state, disk>>
  BY DEF Enter, Plan, ReadTeam, ReadAll, Raise, RolesSet
<1>2. pc[c] \in {"idle", "asked", "reading", "raising", "roles"}
  BY DEF Enter, Plan, ReadTeam, ReadAll, Raise, RolesSet
<1>3. /\ Moved1(c)
      /\ pc'[c] \in {"asked", "over", "reading", "storing", "raising", "selling", "stuck"}
  <2>1. CASE Enter(c)
    BY <2>1, EnterShape
  <2>2. CASE Plan(c)
    BY <2>2, PlanShape
  <2>3. CASE ReadTeam(c) \/ ReadAll(c)
    BY <2>3, ReadShape
  <2>4. CASE Raise(c)
    BY <2>4, RaiseShape
  <2>5. CASE RolesSet(c)
    BY <2>5, ApplyShape
  <2>6. QED
    BY <2>1, <2>2, <2>3, <2>4, <2>5
<1>4. ~Applying(c)
  BY <1>2 DEF Applying
<1>5. QED
  BY <1>1, <1>2, <1>3, <1>4, QuietMatches

LEMMA SellMatches ==
  ASSUME Shapes, Alone, LogGood, ~broken => Matches, NEW c \in Call, Sell(c)
  PROVE  MatchAfter
<1> DEFINE t == TradeOf(got[c].fund, FALSE, got[c].sell)
<1>0. /\ Moved1(c) /\ pc[c] = "selling" /\ ~Applying(c) /\ HoldsFundMu(c)
      /\ t.kind = "trade" /\ t.acct = got[c].fund
      /\ book' = book /\ role' = role
      /\ traded' = IF pc'[c] = "storing" THEN traded \cup {t.acct} ELSE traded
  BY RaiseShape DEF Sell, Applying, HoldsFundMu, Acting, TradeOf
<1>1. Execute(c, t, "storing", "stuck")
  BY DEF Sell
<1> HIDE DEF t
<1>2. CASE Leaves(c, "stuck") /\ UNCHANGED <<ledger, disk>>
  <2>1. pc'[c] = "stuck" /\ traded' = traded
    BY <1>0, <1>2, EndsShape
  <2>2. QED
    BY <1>0, <1>2, <2>1, QuietMatches DEF state, disk
<1>3. CASE /\ t.acct \in DOMAIN ledger /\ Stored(t) /\ To(c, "storing") /\ UNCHANGED got
           /\ ledger' = [ledger EXCEPT ![t.acct] = AfterTrade(@, t)]
  <2>1. ~broken /\ log' = Append(log, t) /\ broken' = broken /\ Matches
    BY <1>3 DEF Stored
  <2>2. PICK s : s = Rebuilt(log)
    OBVIOUS
  <2>3. s.ledger = ledger /\ s.book = book /\ s.role = role /\ TradesMatch
    BY <1>0, <2>1, <2>2, NobodyApplies DEF Matches
  <2>4. /\ LogGood'
        /\ Rebuilt(log') =
               [ledger |-> [s.ledger EXCEPT ![t.acct] = AfterTrade(s.ledger[t.acct], t)],
                book |-> s.book, role |-> s.role, traded |-> s.traded \cup {t.acct},
                ok |-> s.ok]
    BY <1>0, <1>3, <2>1, <2>2, <2>3, GrowsByTrade
  <2>5. PICK r : r = Rebuilt(log')
    OBVIOUS
  <2>6. /\ r.ledger = ledger' /\ r.book = book' /\ r.role = role'
        /\ r.traded = s.traded \cup {t.acct}
    BY <1>0, <1>3, <2>3, <2>4, <2>5
  <2>7. "storing" \in Acting
    BY DEF Acting
  <2>8. pc'[c] = "storing"
    BY <1>3, <2>7, PutsAt
  <2>9. ~Applying(c)' /\ traded' = traded \cup {t.acct}
    BY <1>0, <2>8 DEF Applying
  <2>10. pc'[c] # "made"
    BY <2>8
  <2>11. QED
    BY <1>0, <2>2, <2>3, <2>4, <2>5, <2>6, <2>9, <2>10, HolderMatches
<1>4. CASE t.acct \in DOMAIN ledger /\ Failed(t)
  <2>1. CASE log' = log
    BY <1>4, <2>1, SameLog DEF MatchAfter, Failed
  <2>2. CASE ~broken /\ log' = Append(log, t)
    <3>1. Rebuilt(log).ledger = ledger
      BY <1>0, <2>2, NobodyApplies
    <3>2. LogGood'
      BY <1>0, <1>4, <2>2, <3>1, GrowsByTrade
    <3>3. QED
      BY <1>4, <3>2 DEF MatchAfter, Failed
  <2>3. QED
    BY <1>4, <2>1, <2>2 DEF Failed
<1>5. QED
  BY <1>1, <1>2, <1>3, <1>4 DEF Execute

LEMMA StoreMatches ==
  ASSUME Shapes, Alone, Ready, LogGood, ~broken => Matches, NEW c \in Call, Store(c)
  PROVE  MatchAfter
<1>1. PICK ev : ev = got[c]
  OBVIOUS
<1>2. /\ Moved1(c) /\ pc[c] = "storing" /\ ~Applying(c) /\ HoldsFundMu(c)
      /\ pc'[c] \in {"stored", "stuck", "over"} /\ pc'[c] = "stored" => got'[c] = got[c]
      /\ book' = book /\ role' = role /\ traded' = traded
  BY StoreShape DEF Store, Applying, HoldsFundMu, Acting
<1>3. /\ Accepts(book, ev) /\ ev.op \in Events /\ (ev.op = "formed" => Listed(ev.moves))
  <2>1. Restructures(c) <=> ev.op \in {"formed", "dissolve"}
    BY <1>1, <1>2, StoredOp
  <2>2. ev.op \in Events
    BY <1>1, <1>2, StoredOp
  <2>3. QED
    BY <1>1, <1>2, <2>1, <2>2 DEF Ready, ReadyAt
<1>4. CASE UNCHANGED <<ledger, disk>> /\ \E p \in {"stuck", "over"} : Leaves(c, p)
  <2>1. pc'[c] \in {"stuck", "over"}
    BY <1>4, EndsShape
  <2>2. QED
    BY <1>2, <1>4, <2>1, QuietMatches DEF state, disk
<1>5. ASSUME ~broken, log' = Append(log, FundRecord(ev))
      PROVE  /\ LogGood' /\ Matches
             /\ Rebuilt(log).book = book /\ Rebuilt(log).ledger = ledger
             /\ \E s : /\ s = Rebuilt(log)
                       /\ Rebuilt(log') =
                            [ledger |-> Settled(s, ev), book |-> Apply(s.book, ev),
                             role |-> s.role, traded |-> s.traded, ok |-> s.ok]
  <2>1. Matches
    BY <1>5
  <2>2. Rebuilt(log).book = book /\ Rebuilt(log).ledger = ledger
    BY <1>2, <2>1, NobodyApplies
  <2>3. QED
    BY <1>3, <1>5, <2>1, <2>2, GrowsByEvent
<1>6. CASE Stored(FundRecord(ev)) /\ ledger' = Moved(ev) /\ To(c, "stored") /\ UNCHANGED got
  <2>1. ~broken /\ log' = Append(log, FundRecord(ev)) /\ broken' = broken
    BY <1>6 DEF Stored
  <2>2. PICK s : /\ s = Rebuilt(log)
                 /\ Rebuilt(log') =
                            [ledger |-> Settled(s, ev), book |-> Apply(s.book, ev),
                             role |-> s.role, traded |-> s.traded, ok |-> s.ok]
    BY <1>5, <2>1
  <2>3. LogGood' /\ s.book = book /\ s.ledger = ledger /\ s.role = role /\ TradesMatch
    BY <1>5, <2>1, <2>2 DEF Matches
  <2>4. "stored" \in Acting
    BY DEF Acting
  <2>5. pc'[c] = "stored" /\ got'[c] = ev
    BY <1>1, <1>6, <2>4, PutsAt
  <2>6. PICK r : r = Rebuilt(log')
    OBVIOUS
  <2>7. /\ r.ledger = Settled(s, ev) /\ r.book = Apply(book, ev) /\ r.role = role'
        /\ r.traded = s.traded
    BY <1>2, <2>2, <2>3, <2>6
  <2>8. Applying(c)' /\ r.book = BookDue(c)'
    BY <1>2, <2>5, <2>7 DEF Applying, BookDue
  <2>9. r.ledger = LedgerDue(c)'
    <3>1. CASE ev.op = "formed"
      BY <1>2, <1>6, <2>3, <2>5, <2>7, <3>1 DEF LedgerDue, Settled, Moved
    <3>2. CASE ev.op = "dissolve"
      BY <1>2, <1>6, <2>3, <2>5, <2>7, <3>2 DEF LedgerDue, Settled, Moved
    <3>3. CASE ev.op \notin {"formed", "dissolve"}
      <4>1. LedgerDue(c)' = ledger'
        BY <2>5, <3>3 DEF LedgerDue
      <4>2. Settled(s, ev) = Moved(ev)
        BY <2>3, <3>3 DEF Settled, Moved
      <4>3. QED
        BY <1>6, <2>7, <4>1, <4>2
    <3>4. QED
      BY <3>1, <3>2, <3>3
  <2>10. \E more : r.traded = s.traded \cup more /\ traded' = traded \cup more
    <3>1. r.traded = s.traded \cup {} /\ traded' = traded \cup {}
      BY <1>2, <2>7
    <3>2. QED
      BY <3>1
  <2>11. pc'[c] # "made"
    BY <2>5
  <2>12. QED
    BY <1>2, <2>2, <2>3, <2>6, <2>7, <2>8, <2>9, <2>10, <2>11, HolderMatches
<1>7. CASE Failed(FundRecord(ev))
  <2>1. CASE log' = log
    BY <1>7, <2>1, SameLog DEF MatchAfter, Failed
  <2>2. CASE ~broken /\ log' = Append(log, FundRecord(ev))
    BY <1>5, <1>7, <2>2 DEF MatchAfter, Failed
  <2>3. QED
    BY <1>7, <2>1, <2>2 DEF Failed
<1>8. QED
  BY <1>1, <1>4, <1>6, <1>7 DEF Store

(* A step that leaves the log alone, of the one that applies an event. *)
LEMMA ApplierMatches ==
  ASSUME Shapes, Alone, LogGood, ~broken => Matches, NEW c \in Call, Applying(c),
         Moved1(c), pc'[c] # "made", UNCHANGED <<role, traded, disk>>,
         IF Applying(c)' THEN BookDue(c) = BookDue(c)' /\ LedgerDue(c) = LedgerDue(c)'
                         ELSE BookDue(c) = book' /\ LedgerDue(c) = ledger'
  PROVE  MatchAfter
<1>1. log' = log /\ broken' = broken /\ role' = role /\ traded' = traded
  BY DEF disk
<1>2. LogGood' /\ Rebuilt(log') = Rebuilt(log)
  BY <1>1, SameLog
<1>3. HoldsFundMu(c)
  BY DEF HoldsFundMu, Applying, Acting
<1>4. ASSUME ~broken PROVE MatchAfter
  <2>1. PICK s, r : s = Rebuilt(log) /\ r = Rebuilt(log')
    OBVIOUS
  <2>2. /\ s.book = BookDue(c) /\ s.ledger = LedgerDue(c) /\ s.role = role /\ TradesMatch
        /\ r = s
    BY <1>2, <1>4, <2>1 DEF Matches, BookMatches, LedgerMatches
  <2>3. r.traded = s.traded \cup {} /\ traded' = traded \cup {}
    BY <1>1, <2>2
  <2>4. \E more : r.traded = s.traded \cup more /\ traded' = traded \cup more
    BY <2>3
  <2>5. r.role = role'
    BY <1>1, <2>2
  <2>6. IF Applying(c)' THEN r.book = BookDue(c)' /\ r.ledger = LedgerDue(c)'
                         ELSE r.book = book' /\ r.ledger = ledger'
    BY <2>2
  <2>7. QED
    BY <1>2, <1>3, <2>1, <2>2, <2>4, <2>5, <2>6, HolderMatches
<1>5. QED
  BY <1>1, <1>2, <1>4 DEF MatchAfter

LEMMA ApplyMatches ==
  ASSUME Shapes, Alone, Ready, LogGood, ~broken => Matches, NEW c \in Call,
         \/ ApplyEvent(c) \/ OpenFunds(c) \/ StartBack(c) \/ MoveNext(c) \/ AllMoved(c)
         \/ RemoveFunds(c)
  PROVE  MatchAfter
<1>0. Applying(c) /\ UNCHANGED <<role, traded, disk>>
  BY DEF ApplyEvent, OpenFunds, StartBack, MoveNext, AllMoved, RemoveFunds, Applying,
     state
<1>1. CASE ApplyEvent(c)
  <2>1. /\ Moved1(c) /\ pc'[c] = "over" /\ pc[c] = "stored" /\ ledger' = ledger
        /\ got[c].op \notin {"formed", "dissolve"}
    BY <1>1, ApplyShape DEF ApplyEvent
  <2>2. book' = Apply(book, got[c])
    BY <1>1, <2>1 DEF ApplyEvent, Ready, ReadyAt
  <2>3. ~Applying(c)' /\ BookDue(c) = book' /\ LedgerDue(c) = ledger' /\ pc'[c] # "made"
    BY <2>1, <2>2 DEF Applying, BookDue, LedgerDue
  <2>4. QED
    BY <1>0, <2>1, <2>3, ApplierMatches
<1>2. CASE OpenFunds(c)
  <2>1. /\ Moved1(c) /\ pc'[c] = "moving" /\ pc[c] = "stored" /\ got[c].op = "formed"
        /\ got'[c].op = "formed" /\ got'[c].todo = got[c].moves
        /\ book' = Apply(book, got[c]) /\ ledger' = WithFunds(ledger, DOMAIN got[c].funds)
    BY <1>2, StartShape DEF OpenFunds
  <2>2. /\ Applying(c)' /\ BookDue(c) = BookDue(c)' /\ LedgerDue(c) = LedgerDue(c)'
        /\ pc'[c] # "made"
    BY <2>1 DEF Applying, BookDue, LedgerDue
  <2>3. QED
    BY <1>0, <2>1, <2>2, ApplierMatches
<1>3. CASE StartBack(c)
  <2>1. /\ Moved1(c) /\ pc'[c] = "moving" /\ pc[c] = "stored" /\ got[c].op = "dissolve"
        /\ got'[c].op = "dissolve" /\ got'[c].todo = got[c].moves
        /\ book' = book /\ ledger' = ledger
    BY <1>3, StartShape DEF StartBack, state
  <2>2. BookDue(c) = NewBook
    BY <2>1 DEF BookDue, Apply
  <2>3. /\ Applying(c)' /\ BookDue(c)' = NewBook /\ LedgerDue(c) = LedgerDue(c)'
        /\ pc'[c] # "made"
    BY <2>1 DEF Applying, BookDue, LedgerDue
  <2>4. QED
    BY <1>0, <2>1, <2>2, <2>3, ApplierMatches
<1>4. CASE MoveNext(c)
  <2>1. /\ Moved1(c) /\ pc'[c] = "moving" /\ pc[c] = "moving" /\ got'[c].op = got[c].op
        /\ got'[c].todo = Tail(got[c].todo) /\ got[c].todo # <<>>
        /\ book' = book /\ ledger' = AfterMoves(ledger, <<Head(got[c].todo)>>)
    BY <1>4, MoveShape DEF MoveNext
  <2>2. Listed(got[c].todo)
    BY <2>1 DEF Ready, ReadyAt
  <2>3. AfterMoves(ledger, got[c].todo) = AfterMoves(ledger', got'[c].todo)
    BY <2>1, <2>2, MoveFirst DEF Listed
  <2>4. got[c].op \in {"formed", "dissolve"}
    BY <2>1, KindsKnown DEF Shapes, Shaped, OpOf, Restructures
  <2>5. LedgerDue(c) = LedgerDue(c)'
    BY <2>1, <2>3, <2>4 DEF LedgerDue
  <2>6. /\ Applying(c)' /\ BookDue(c)' = BookDue(c) /\ LedgerDue(c) = LedgerDue(c)'
        /\ pc'[c] # "made"
    BY <2>1, <2>5 DEF Applying, BookDue
  <2>7. QED
    BY <1>0, <2>1, <2>6, ApplierMatches
<1>5. CASE AllMoved(c)
  <2>1. /\ Moved1(c) /\ pc[c] = "moving" /\ got[c].todo = <<>> /\ ledger' = ledger
        /\ got'[c].op = got[c].op
        /\ IF got[c].op = "formed" THEN pc'[c] = "roles" /\ book' = book
           ELSE pc'[c] = "clearing" /\ got'[c].todo = DOMAIN book.funds /\ book' = NewBook
    BY <1>5, MovedShape DEF AllMoved
  <2>2. AfterMoves(ledger, <<>>) = ledger
    BY NoMoves
  <2>3. CASE got[c].op = "formed"
    <3>1. ~Applying(c)' /\ BookDue(c) = book' /\ LedgerDue(c) = ledger' /\ pc'[c] # "made"
      BY <2>1, <2>2, <2>3 DEF Applying, BookDue, LedgerDue
    <3>2. QED
      BY <1>0, <2>1, <3>1, ApplierMatches
  <2>4. CASE got[c].op # "formed"
    <3>1. got[c].op = "dissolve"
      BY <2>1, <2>4, KindsKnown DEF Shapes, Shaped, OpOf, Restructures
    <3>2. BookDue(c) = NewBook /\ LedgerDue(c) = Removed(ledger, DOMAIN book.funds)
      BY <2>1, <2>2, <3>1 DEF BookDue, LedgerDue
    <3>3. /\ Applying(c)' /\ BookDue(c)' = NewBook
          /\ LedgerDue(c)' = Removed(ledger, DOMAIN book.funds) /\ pc'[c] # "made"
      BY <2>1, <2>4 DEF Applying, BookDue, LedgerDue
    <3>4. QED
      BY <1>0, <2>1, <3>2, <3>3, ApplierMatches
  <2>5. QED
    BY <2>3, <2>4
<1>6. CASE RemoveFunds(c)
  <2>1. /\ Moved1(c) /\ pc'[c] = "roles" /\ pc[c] = "clearing"
        /\ book' = book /\ ledger' = Removed(ledger, got[c].todo)
    BY <1>6, RemoveShape DEF RemoveFunds
  <2>2. ~Applying(c)' /\ BookDue(c) = book' /\ LedgerDue(c) = ledger' /\ pc'[c] # "made"
    BY <2>1 DEF Applying, BookDue, LedgerDue
  <2>3. QED
    BY <1>0, <2>1, <2>2, ApplierMatches
<1>7. QED
  BY <1>1, <1>2, <1>3, <1>4, <1>5, <1>6

LEMMA RoleMatches ==
  ASSUME Shapes, Alone, LogGood, ~broken => Matches, NEW c \in Call, SetRole(c)
  PROVE  MatchAfter
<1>1. PICK who, new :
         /\ \/ /\ Stored([kind |-> "role", who |-> who, role |-> new])
               /\ role' = [role EXCEPT ![who] = new]
            \/ Failed([kind |-> "role", who |-> who, role |-> new]) /\ UNCHANGED role
  BY DEF SetRole
<1>2. /\ Moved1(c) /\ pc'[c] = "roles" /\ pc[c] = "roles" /\ ~Applying(c) /\ ~Applying(c)'
      /\ HoldsFundMu(c) /\ ledger' = ledger /\ book' = book /\ traded' = traded
  BY RoleShape DEF SetRole, Applying, HoldsFundMu, Acting
<1>3. PICK rec : rec = [kind |-> "role", who |-> who, role |-> new]
  OBVIOUS
<1>4. ASSUME log' = Append(log, rec)
      PROVE  \E s : /\ s = Rebuilt(log) /\ LogGood'
                    /\ Rebuilt(log') =
                         [ledger |-> s.ledger, book |-> s.book,
                          role |-> [s.role EXCEPT ![who] = new],
                          traded |-> s.traded, ok |-> s.ok]
  BY <1>3, <1>4, GrowsByRole
<1>5. CASE Stored(rec) /\ role' = [role EXCEPT ![who] = new]
  <2>1. ~broken /\ log' = Append(log, rec) /\ Matches
    BY <1>5 DEF Stored
  <2>2. PICK s : /\ s = Rebuilt(log) /\ LogGood'
                 /\ Rebuilt(log') =
                         [ledger |-> s.ledger, book |-> s.book,
                          role |-> [s.role EXCEPT ![who] = new],
                          traded |-> s.traded, ok |-> s.ok]
    BY <1>4, <2>1
  <2>3. s.book = book /\ s.ledger = ledger /\ s.role = role /\ TradesMatch
    BY <1>2, <2>1, <2>2, NobodyApplies DEF Matches
  <2>4. PICK r : r = Rebuilt(log')
    OBVIOUS
  <2>5. r.ledger = ledger' /\ r.book = book' /\ r.role = role' /\ r.traded = s.traded
    <3>1. /\ r.ledger = s.ledger /\ r.book = s.book /\ r.traded = s.traded
          /\ r.role = [s.role EXCEPT ![who] = new]
      BY <2>2, <2>4
    <3>2. role' = [s.role EXCEPT ![who] = new]
      BY <1>5, <2>3
    <3>3. QED
      BY <1>2, <2>3, <3>1, <3>2
  <2>6. r.traded = s.traded \cup {} /\ traded' = traded \cup {}
    BY <1>2, <2>5
  <2>7. \E more : r.traded = s.traded \cup more /\ traded' = traded \cup more
    BY <2>6
  <2>8. pc'[c] # "made"
    BY <1>2
  <2>9. QED
    BY <1>2, <2>2, <2>3, <2>4, <2>5, <2>7, <2>8, HolderMatches
<1>6. CASE Failed(rec)
  <2>1. CASE log' = log
    BY <1>6, <2>1, SameLog DEF MatchAfter, Failed
  <2>2. CASE log' = Append(log, rec)
    BY <1>4, <1>6, <2>2 DEF MatchAfter, Failed
  <2>3. QED
    BY <1>6, <2>1, <2>2 DEF Failed
<1>7. QED
  BY <1>1, <1>3, <1>5, <1>6

LEMMA KillMatches ==
  ASSUME Shapes, LogGood, Kill
  PROVE  MatchAfter
<1>1. /\ log' = log /\ ledger' = Rebuilt(log).ledger /\ book' = Rebuilt(log).book
      /\ role' = Rebuilt(log).role /\ traded' = Rebuilt(log).traded
  BY DEF Kill, Becomes
<1>2. LogGood' /\ Rebuilt(log') = Rebuilt(log)
  BY <1>1, SameLog
<1>3. \A d \in Call : ~Applying(d)' /\ pc'[d] # "made"
  BY KillStops DEF Applying
<1>4. {got'[d].acct : d \in {e \in Call : pc'[e] = "made"}} = {}
  BY <1>3
<1>5. Matches'
  BY <1>1, <1>2, <1>3, <1>4 DEF Matches, BookMatches, LedgerMatches, TradesMatch
<1>6. QED
  BY <1>2, <1>5 DEF MatchAfter

LEMMA MatchesNext ==
  ASSUME Shapes, Alone, Apart, Ready, LogGood, ~broken => Matches, [Next]_vars
  PROVE  MatchAfter
<1>1. ASSUME NEW c \in Call, Enter(c) PROVE MatchAfter
  BY <1>1, PlainMatches
<1>2. ASSUME NEW c \in Call, CallStep(c) PROVE MatchAfter
  BY <1>2, TradeMatches, RecordMatches, PlainMatches, SellMatches, StoreMatches, ApplyMatches,
     RoleMatches DEF CallStep
<1>3. CASE Kill
  BY <1>3, KillMatches
<1>4. CASE UNCHANGED <<state, disk, pc, got>>
  <2>1. /\ ledger' = ledger /\ book' = book /\ role' = role /\ traded' = traded
        /\ log' = log /\ broken' = broken /\ pc' = pc /\ got' = got
    BY <1>4 DEF state, disk
  <2>2. LogGood' /\ Rebuilt(log') = Rebuilt(log)
    BY <2>1, SameLog
  <2>3. Matches => Matches'
    BY <2>1, <2>2 DEF Matches, BookMatches, LedgerMatches, TradesMatch, Applying, BookDue,
       LedgerDue
  <2>4. QED
    BY <2>1, <2>2, <2>3 DEF MatchAfter
<1>5. QED
  BY <1>1, <1>2, <1>3, <1>4, StepCases

-----------------------------------------------------------------------------
(* The invariant holds, and says what it is for.                           *)
LEMMA RestartInvHolds ==
  ASSUME ~Rush
  PROVE  /\ Init => RestartInv
         /\ RestartInv /\ [Next]_vars => RestartInv'
<1>1. ASSUME Init PROVE RestartInv
  <2>1. PICK past \in Pasts : /\ ledger = Rebuilt(past).ledger /\ book = Rebuilt(past).book
                              /\ role = Rebuilt(past).role /\ traded = Rebuilt(past).traded
                              /\ log = past
    BY <1>1 DEF Init
  <2>2. /\ Listed(past) /\ Rebuilt(past).ok = TRUE /\ Whole(Rebuilt(past))
        /\ BookOK(Rebuilt(past).book)
    BY PastAssumption DEF StateOK, Whole, Listed
  <2>3. BookWhole(Rebuilt(past).book)
    <3>1. PICK b : b = Rebuilt(past).book
      OBVIOUS
    <3>2. Listed(b.moves)
      BY <2>2, <3>1, SequencesOwn DEF BookOK, Listed
    <3>3. BookWhole(b)
      BY <2>2, <3>1, <3>2 DEF BookOK, BookWhole, FundOK, FundWhole
    <3>4. QED
      BY <3>1, <3>3
  <2>4. LogGood /\ BookWhole(book)
    BY <2>1, <2>2, <2>3 DEF LogGood, Logged
  <2>5. pc = [c \in Call |-> "idle"] /\ got = [c \in Call |-> Nothing]
    BY <1>1 DEF Init
  <2>6. Shapes
    BY <2>5 DEF Shapes, Shaped
  <2>7. Alone /\ Apart /\ Ready
    BY <2>5 DEF Alone, Apart, Ready, ReadyAt, HoldsFundMu, Acting
  <2>8. Matches
    <3>1. \A d \in Call : ~Applying(d) /\ pc[d] # "made"
      BY <2>5 DEF Applying
    <3>2. {got[d].acct : d \in {e \in Call : pc[e] = "made"}} = {}
      BY <3>1
    <3>3. QED
      BY <2>1, <3>1, <3>2 DEF Matches, BookMatches, LedgerMatches, TradesMatch
  <2>9. QED
    BY <2>4, <2>6, <2>7, <2>8 DEF RestartInv, LogGood
<1>2. ASSUME RestartInv, [Next]_vars PROVE RestartInv'
  <2>1. Shapes /\ Alone /\ Apart /\ Ready /\ LogGood /\ BookWhole(book) /\ (~broken => Matches)
    BY <1>2 DEF RestartInv, LogGood
  <2>2. Shapes' /\ Alone' /\ Apart'
    BY <1>2, <2>1, ShapesNext, AloneNext, ApartNext
  <2>3. BookWhole(book') /\ Ready'
    BY <1>2, <2>1, ReadyNext DEF LogGood
  <2>4. MatchAfter
    BY <1>2, <2>1, MatchesNext
  <2>5. QED
    BY <2>2, <2>3, <2>4 DEF RestartInv, MatchAfter, LogGood
<1>3. QED
  BY <1>1, <1>2

LEMMA RestartIs ==
  ASSUME RestartInv
  PROVE  RestartMatches
<1>1. PICK s : s = Rebuilt(log)
  OBVIOUS
<1>2. s.ok = TRUE /\ Whole(s)
  BY <1>1 DEF RestartInv, Logged
<1>3. ASSUME Idle, ~broken PROVE s = Live
  <2>1. \A d \in Call : ~Applying(d) /\ pc[d] # "made"
    BY <1>3 DEF Idle, Applying, Acting
  <2>2. {got[d].acct : d \in {e \in Call : pc[e] = "made"}} = {}
    BY <2>1
  <2>3. s.book = book /\ s.ledger = ledger /\ s.role = role /\ s.traded = traded
    BY <1>1, <1>3, <2>1, <2>2 DEF RestartInv, Matches, BookMatches, LedgerMatches, TradesMatch
  <2>4. QED
    BY <1>2, <2>3 DEF Whole, Live
<1>4. QED
  BY <1>1, <1>2, <1>3 DEF RestartMatches

(* A restart brings the funds back as they were: the log can always be     *)
(* replayed, and while nothing is under way what it gives is what is live: *)
(* accounts, book, roles and recent trades - if forming and dissolving are *)
(* kept apart from trades.                                                 *)
THEOREM FundsRestart ==
  ASSUME ~Rush
  PROVE  Spec => []RestartMatches
<1>1. Init => RestartInv
  BY RestartInvHolds
<1>2. RestartInv /\ [Next]_vars => RestartInv'
  BY RestartInvHolds
<1>3. RestartInv => RestartMatches
  BY RestartIs
<1>4. QED
  BY <1>1, <1>2, <1>3, PTL DEF Spec

-----------------------------------------------------------------------------
(* What the accounts and the book are, whenever they are looked at.        *)

(* The accounts, with no team in debt. *)
AcctsOK(l) ==
    /\ Team \subseteq DOMAIN l /\ DOMAIN l \subseteq Account /\ l \in [DOMAIN l -> Wallet]
    /\ \A t \in Team : l[t].cash >= 0

(* The book, in order: the last three are what the theorems are about. *)
BookFit(b) == BookOK(b) /\ UnitsIn(b) /\ MarksIn(b) /\ HighsIn(b)

(* The moves can be made one after the other, and no team pays more than   *)
(* it has.                                                                 *)
Payable(l, s) ==
    /\ s \in Seq(Move)
    /\ \A i \in DOMAIN s :
          s[i].from \in Team /\ s[i].cash > 0 => s[i].cash <= l[s[i].from].cash
    /\ \A i, j \in DOMAIN s :
          i # j /\ s[i].from \in Team /\ s[i].cash > 0 /\ s[j].cash > 0 => s[i].from # s[j].from

-----------------------------------------------------------------------------
(* What the calls have worked out.                                         *)

(* The units the teams of new funds get: no team gets them twice.          *)
SeedsFit(funds, seeds) ==
    /\ seeds \in Seq([fund : funds, team : Team, amount : Int, units : Nat])
    /\ \A i, j \in DOMAIN seeds : seeds[i].team = seeds[j].team => i = j

(* What a formed event is made of. *)
FormFit(l, g) ==
    /\ DOMAIN g.funds \subseteq FundId
    /\ g.funds \in [DOMAIN g.funds -> [account : FundId, members : Team \X Team, trader : Team]]
    /\ g.ranking \in Seq(Team \X Team)
    /\ g.moves \in Seq(Given) /\ Payable(l, g.moves)
    /\ SeedsFit(DOMAIN g.funds, g.seeds)

(* The teams that are still to be read have a fund, and nothing yet.       *)
ReadingFit(g) ==
    /\ g.todo \in Seq(Team) /\ \A i, j \in DOMAIN g.todo : g.todo[i] = g.todo[j] => i = j
    /\ \A i \in DOMAIN g.todo :
          /\ \E f \in DOMAIN g.funds : g.todo[i] \in ToSet(g.funds[f].members)
          /\ \A j \in DOMAIN g.moves : g.moves[j].from # g.todo[i]
          /\ \A j \in DOMAIN g.seeds : g.seeds[j].team # g.todo[i]

(* A checkpoint says of every fund what follows from its mark. *)
CheckFit(b, k) ==
    /\ DOMAIN k.funds = DOMAIN b.funds /\ CheckOK(k)
    /\ \A f \in DOMAIN b.funds :
          LET mark == b.funds[f].mark
          IN  /\ k.funds[f].markAfter =
                    IF Above(k.funds[f].nav, mark) THEN k.funds[f].nav ELSE mark
              /\ k.funds[f].perf > 0 => Above(k.funds[f].nav, mark)

(* What an event that is worked out says is what the book can take. *)
EventFit(b, ev) ==
    /\ ev.op \in {"alloc", "redeem"} =>
          ev.who \in Team /\ ev.units \in Nat /\ ev.amount \in Nat
    /\ ev.op = "redeem" => ev.units <= HoldingIn(b, ev.who, ev.fund).units
    /\ ev.op = "series" =>
          \A f \in DOMAIN b.funds \cap DOMAIN ev.navs : ev.navs[f] \in Rate /\ ev.aums[f] \in Int
    /\ ev.op = "checkpoint" => CheckFit(b, ev.check)
    /\ ev.op = "profile" => ev.fee \in Nat
    /\ ev.op = "trader" => ev.who \in Team

(* What a call has noted, by where it is. *)
Fits(c) ==
    /\ pc[c] \in {"asked", "made"} /\ Kind(c) = "trade" => got[c].acct \in Account
    /\ pc[c] \in {"raising", "selling", "storing", "stored"} /\ ~Restructures(c) =>
          EventFit(book, got[c])
    /\ pc[c] = "selling" => got[c].sell \in Nat
    /\ pc[c] \in {"reading", "storing", "stored"} /\ Kind(c) = "form" => FormFit(ledger, got[c])
    /\ pc[c] = "reading" => ReadingFit(got[c])
    /\ pc[c] \in {"storing", "stored"} /\ Kind(c) = "dissolve" =>
          got[c].moves \in Seq({m \in Move : m.from \in FundId})
    /\ pc[c] = "moving" => Payable(ledger, got[c].todo)
    /\ pc[c] = "clearing" => got[c].todo \subseteq FundId /\ DOMAIN book.funds = {}
    /\ pc[c] \in {"moving", "clearing", "roles"} => got[c].next \in Seq(Team)

(* The invariant: the books are in order, live and restarted. *)
StateFit(s) == StateOK(s) /\ InOrder(s)

FitInv ==
    /\ RestartInv /\ price \in Price
    /\ StateFit(Live) /\ StateFit(Rebuilt(log))
    /\ \A c \in Call : Fits(c)

-----------------------------------------------------------------------------
(* Fractions are in order. *)
LEMMA Scaled ==
  ASSUME NEW x \in Int, NEW y \in Int, NEW k \in Nat \ {0}
  PROVE  x > y <=> x * k > y * k
<1>1. k > 0 /\ k \in Int
  OBVIOUS
<1>2. x > y => (x - y) * k > 0
  BY <1>1
<1>3. ~(x > y) => (y - x) * k >= 0
  BY <1>1
<1>4. (x - y) * k = x * k - y * k /\ (y - x) * k = y * k - x * k
  BY <1>1
<1>5. x * k \in Int /\ y * k \in Int
  BY <1>1
<1>6. QED
  BY <1>2, <1>3, <1>4, <1>5

LEMMA AboveChain ==
  ASSUME NEW a \in Rate, NEW b \in Rate, NEW c \in Rate, Above(a, b), ~Above(c, b)
  PROVE  Above(a, c)
<1>1. PICK a1 \in Int, a2 \in Nat \ {0} : a1 = a.of /\ a2 = a.per
  BY DEF Rate
<1>2. PICK b1 \in Int, b2 \in Nat \ {0} : b1 = b.of /\ b2 = b.per
  BY DEF Rate
<1>3. PICK c1 \in Int, c2 \in Nat \ {0} : c1 = c.of /\ c2 = c.per
  BY DEF Rate
<1>4. a1 * b2 > b1 * a2 /\ ~(c1 * b2 > b1 * c2)
  BY <1>1, <1>2, <1>3 DEF Above
<1>5. /\ a1 * b2 \in Int /\ b1 * a2 \in Int /\ c1 * b2 \in Int /\ b1 * c2 \in Int
      /\ a1 * c2 \in Int /\ c1 * a2 \in Int
  OBVIOUS
<1>6. (a1 * b2) * c2 > (b1 * a2) * c2 /\ ~((c1 * b2) * a2 > (b1 * c2) * a2)
  BY <1>4, <1>5, Scaled
<1>7. /\ (a1 * b2) * c2 = (a1 * c2) * b2 /\ (b1 * a2) * c2 = (b1 * c2) * a2
      /\ (c1 * b2) * a2 = (c1 * a2) * b2
  OBVIOUS
<1>8. /\ (a1 * c2) * b2 \in Int /\ (b1 * c2) * a2 \in Int /\ (c1 * a2) * b2 \in Int
  OBVIOUS
<1>9. (a1 * c2) * b2 > (c1 * a2) * b2
  BY <1>6, <1>7, <1>8
<1>10. a1 * c2 > c1 * a2
  BY <1>5, <1>9, Scaled
<1>11. QED
  BY <1>1, <1>3, <1>10 DEF Above

LEMMA AboveApart ==
  ASSUME NEW a \in Rate, NEW b \in Rate, Above(a, b)
  PROVE  ~Above(b, a) /\ ~Above(a, a)
BY DEF Above, Rate

-----------------------------------------------------------------------------
(* One account. *)
LEMMA PositionFits ==
  ASSUME NEW a \in Wallet
  PROVE  Position(a, Sym) \in Lot
BY DEF Wallet, Lot, Position

LEMMA PlacedFits ==
  ASSUME NEW a \in Wallet, NEW p \in Lot
  PROVE  WithPosition(a, Sym, p) \in Wallet /\ WithPosition(a, Sym, p).cash = a.cash
<1>1. DOMAIN a.pos \cup {Sym} = {Sym}
  BY DEF Wallet
<1>2. PICK g : g = [x \in DOMAIN a.pos \cup {Sym} |-> IF x = Sym THEN p ELSE a.pos[x]]
  OBVIOUS
<1>3. g \in [{Sym} -> Lot]
  BY <1>1, <1>2
<1>4. WithPosition(a, Sym, p) = [a EXCEPT !.pos = g]
  BY <1>2 DEF WithPosition
<1>5. QED
  BY <1>3, <1>4 DEF Wallet

LEMMA WithoutFits ==
  ASSUME NEW p \in Lot, NEW n \in Nat
  PROVE  Without(p, n) \in Lot
<1>1. p.qty \in Nat /\ p.cost \in Int
  BY DEF Lot
<1>2. CASE p.qty - n <= 0
  BY <1>2 DEF Without, Lot
<1>3. CASE ~(p.qty - n <= 0)
  <2>1. p.qty \in Nat \ {0} /\ p.cost * n \in Int /\ p.qty - n \in Nat
    BY <1>1, <1>3
  <2>2. (p.cost * n) \div p.qty \in Int
    BY <2>1
  <2>3. p.cost - (p.cost * n) \div p.qty \in Int
    BY <1>1, <2>2
  <2>4. QED
    BY <1>3, <2>1, <2>3 DEF Without, Lot
<1>4. QED
  BY <1>2, <1>3

(* A trade that is allowed leaves no team in debt. *)
LEMMA TradeFits ==
  ASSUME NEW a \in Wallet, NEW t, t.sym = Sym, t.qty \in Nat, t.price \in Nat,
         t.buy \in BOOLEAN, TradeAllowed(a, t)
  PROVE  AfterTrade(a, t) \in Wallet /\ (a.cash >= 0 => AfterTrade(a, t).cash >= 0)
<1>1. PICK n : n = t.price * t.qty
  OBVIOUS
<1>2. n \in Nat
  BY <1>1
<1>3. PICK w : w = AfterCash(a, IF t.buy THEN -n ELSE n)
  OBVIOUS
<1>4. /\ w \in Wallet /\ w.pos = a.pos
      /\ w.cash = IF t.buy THEN a.cash - n ELSE a.cash + n
  BY <1>2, <1>3 DEF AfterCash, Wallet
<1>5. CASE t.buy
  <2>1. PICK p : p = With(Position(w, Sym), t.qty, t.price)
    OBVIOUS
  <2>2. p \in Lot
    <3>1. PICK q \in Lot : q = Position(w, Sym)
      BY <1>4, PositionFits
    <3>2. t.price * t.qty \in Int
      BY <1>1, <1>2
    <3>3. QED
      BY <2>1, <3>1, <3>2 DEF With, Lot
  <2>3. AfterTrade(a, t) = WithPosition(w, Sym, p)
    BY <1>1, <1>3, <1>5, <2>1 DEF AfterTrade, AfterGrant
  <2>4. a.cash >= n
    BY <1>1, <1>5 DEF TradeAllowed, Affords
  <2>5. w.cash >= 0
    BY <1>2, <1>4, <1>5, <2>4 DEF Wallet
  <2>6. QED
    BY <1>4, <2>2, <2>3, <2>5, PlacedFits
<1>6. CASE ~t.buy
  <2>1. PICK p : p = Without(Position(w, Sym), t.qty)
    OBVIOUS
  <2>2. p \in Lot
    BY <1>4, <2>1, PositionFits, WithoutFits
  <2>3. AfterTrade(a, t) = WithPosition(w, Sym, p)
    BY <1>1, <1>3, <1>6, <2>1 DEF AfterTrade, AfterRevoke
  <2>4. a.cash >= 0 => w.cash >= 0
    BY <1>2, <1>4, <1>6 DEF Wallet
  <2>5. QED
    BY <1>4, <2>2, <2>3, <2>4, PlacedFits
<1>7. QED
  BY <1>5, <1>6

-----------------------------------------------------------------------------
(* All accounts. *)
LEMMA AcctChanges ==
  ASSUME NEW l, AcctsOK(l), NEW a \in DOMAIN l, NEW w \in Wallet, a \in Team => w.cash >= 0
  PROVE  AcctsOK([l EXCEPT ![a] = w]) /\ DOMAIN [l EXCEPT ![a] = w] = DOMAIN l
BY DEF AcctsOK

LEMMA MoveCashIs ==
  ASSUME NEW l, l \in [DOMAIN l -> Wallet], NEW from, NEW to, NEW n \in Nat
  PROVE  MoveCash(l, from, to, n) =
            [a \in DOMAIN l |->
                [cash |-> l[a].cash - (IF a = from THEN n ELSE 0) + (IF a = to THEN n ELSE 0),
                 pos |-> l[a].pos]]
<1>1. PICK k : k = [l EXCEPT ![from].cash = @ - n]
  OBVIOUS
<1>2. \A a \in DOMAIN l : /\ l[a] = [cash |-> l[a].cash, pos |-> l[a].pos]
                          /\ l[a].cash \in Int
  BY DEF Wallet
<1>3. k = [a \in DOMAIN l |-> IF a = from THEN [l[a] EXCEPT !.cash = @ - n] ELSE l[a]]
  BY <1>1
<1>4. ASSUME NEW a \in DOMAIN l
      PROVE  k[a] = [cash |-> l[a].cash - (IF a = from THEN n ELSE 0), pos |-> l[a].pos]
  BY <1>2, <1>3
<1>5. MoveCash(l, from, to, n) =
         [a \in DOMAIN k |-> IF a = to THEN [k[a] EXCEPT !.cash = @ + n] ELSE k[a]]
  BY <1>1 DEF MoveCash
<1>6. ASSUME NEW a \in DOMAIN l
      PROVE  MoveCash(l, from, to, n)[a] =
                [cash |-> l[a].cash - (IF a = from THEN n ELSE 0) + (IF a = to THEN n ELSE 0),
                 pos |-> l[a].pos]
  <2>1. PICK x : x = l[a].cash - (IF a = from THEN n ELSE 0)
    OBVIOUS
  <2>2. k[a] = [cash |-> x, pos |-> l[a].pos]
    BY <1>4, <2>1
  <2>3. MoveCash(l, from, to, n)[a] = IF a = to THEN [k[a] EXCEPT !.cash = @ + n] ELSE k[a]
    BY <1>3, <1>5
  <2>4. PICK y : y = x + (IF a = to THEN n ELSE 0)
    OBVIOUS
  <2>5. x \in Int /\ l[a].cash \in Int
    BY <1>2, <2>1
  <2>6. MoveCash(l, from, to, n)[a] = [cash |-> y, pos |-> l[a].pos]
    <3>1. CASE a = to
      BY <2>2, <2>3, <2>4, <3>1
    <3>2. CASE a # to
      <4>1. y = x
        BY <2>4, <2>5, <3>2
      <4>2. QED
        BY <2>2, <2>3, <3>2, <4>1
    <3>3. QED
      BY <3>1, <3>2
  <2>7. QED
    BY <2>1, <2>4, <2>6
<1>7. QED
  BY <1>3, <1>5, <1>6

LEMMA CashFits ==
  ASSUME NEW l, AcctsOK(l), NEW from, NEW to, NEW n \in Nat,
         from \in Team => n <= l[from].cash
  PROVE  /\ AcctsOK(MoveCash(l, from, to, n)) /\ DOMAIN MoveCash(l, from, to, n) = DOMAIN l
         /\ \A t \in Team : t # from => MoveCash(l, from, to, n)[t].cash >= l[t].cash
<1>1. PICK k : k = MoveCash(l, from, to, n)
  OBVIOUS
<1>2. k = [a \in DOMAIN l |->
              [cash |-> l[a].cash - (IF a = from THEN n ELSE 0) + (IF a = to THEN n ELSE 0),
               pos |-> l[a].pos]]
  BY <1>1, MoveCashIs DEF AcctsOK
<1>3. DOMAIN k = DOMAIN l
  BY <1>2
<1>4. ASSUME NEW a \in DOMAIN l
      PROVE  /\ k[a] \in Wallet
             /\ k[a].cash = l[a].cash - (IF a = from THEN n ELSE 0) + (IF a = to THEN n ELSE 0)
             /\ l[a].cash \in Int
  <2>1. PICK x : x = l[a].cash - (IF a = from THEN n ELSE 0) + (IF a = to THEN n ELSE 0)
    OBVIOUS
  <2>2. l[a] \in Wallet
    BY DEF AcctsOK
  <2>3. l[a].cash \in Int /\ l[a].pos \in [{} -> Lot] \cup [{Sym} -> Lot]
    BY <2>2 DEF Wallet
  <2>4. x \in Int
    BY <2>1, <2>3
  <2>5. k[a] = [cash |-> x, pos |-> l[a].pos]
    BY <1>2, <2>1
  <2>6. QED
    BY <2>1, <2>3, <2>4, <2>5 DEF Wallet
<1>5. ASSUME NEW t \in Team
      PROVE  k[t].cash >= 0 /\ (t # from => k[t].cash >= l[t].cash)
  BY <1>4 DEF AcctsOK
<1>6. k = [a \in DOMAIN k |-> k[a]]
  BY <1>2
<1>7. AcctsOK(k)
  BY <1>3, <1>4, <1>5, <1>6 DEF AcctsOK
<1>8. QED
  BY <1>1, <1>3, <1>5, <1>7

LEMMA SharesFit ==
  ASSUME NEW l, AcctsOK(l), NEW from, NEW to, NEW n \in Nat, NEW cost \in Int
  PROVE  /\ AcctsOK(MoveShares(l, from, to, Sym, n, cost))
         /\ DOMAIN MoveShares(l, from, to, Sym, n, cost) = DOMAIN l
         /\ \A t \in Team : MoveShares(l, from, to, Sym, n, cost)[t].cash = l[t].cash
<1>1. PICK p : p = Position(l[from], Sym)
  OBVIOUS
<1>2. PICK left : left = IF p.qty - n <= 0 THEN [qty |-> 0, cost |-> 0]
                         ELSE [qty |-> p.qty - n, cost |-> p.cost - cost]
  OBVIOUS
<1>3. PICK dst : dst = Position(l[to], Sym)
  OBVIOUS
<1>4. PICK more : more = [qty |-> dst.qty + n, cost |-> dst.cost + cost]
  OBVIOUS
<1>5. PICK k : k = [l EXCEPT ![from] = IF Sym \in DOMAIN l[from].pos
                                       THEN WithPosition(@, Sym, left) ELSE @]
  OBVIOUS
<1>6. PICK m : m = MoveShares(l, from, to, Sym, n, cost)
  OBVIOUS
<1>7. m = [k EXCEPT ![to] = WithPosition(@, Sym, more)]
  BY <1>1, <1>2, <1>3, <1>4, <1>5, <1>6 DEF MoveShares
<1>8. ASSUME NEW a \in DOMAIN l PROVE l[a] \in Wallet
  BY DEF AcctsOK
<1>9. from \in DOMAIN l => left \in Lot
  <2> SUFFICES ASSUME from \in DOMAIN l PROVE left \in Lot
    OBVIOUS
  <2>1. p \in Lot
    BY <1>1, <1>8, PositionFits
  <2>2. p.qty \in Nat /\ p.cost \in Int
    BY <2>1 DEF Lot
  <2>3. p.qty - n \in Int /\ p.cost - cost \in Int
    BY <2>2
  <2>4. QED
    BY <1>2, <2>3 DEF Lot
<1>10. to \in DOMAIN l => more \in Lot
  <2> SUFFICES ASSUME to \in DOMAIN l PROVE more \in Lot
    OBVIOUS
  <2>1. dst \in Lot
    BY <1>3, <1>8, PositionFits
  <2>2. dst.qty + n \in Nat /\ dst.cost + cost \in Int
    BY <2>1 DEF Lot
  <2>3. QED
    BY <1>4, <2>2 DEF Lot
<1>11. DOMAIN k = DOMAIN l /\ DOMAIN m = DOMAIN l /\ m = [a \in DOMAIN m |-> m[a]]
  BY <1>5, <1>7
<1>12. ASSUME NEW a \in DOMAIN l PROVE k[a] \in Wallet /\ k[a].cash = l[a].cash
  <2>1. k[a] = IF a = from /\ Sym \in DOMAIN l[from].pos THEN WithPosition(l[a], Sym, left)
               ELSE l[a]
    BY <1>5
  <2>2. CASE a = from /\ Sym \in DOMAIN l[from].pos
    BY <1>8, <1>9, <2>1, <2>2, PlacedFits
  <2>3. CASE ~(a = from /\ Sym \in DOMAIN l[from].pos)
    BY <1>8, <2>1, <2>3
  <2>4. QED
    BY <2>2, <2>3
<1>13. ASSUME NEW a \in DOMAIN l PROVE m[a] \in Wallet /\ m[a].cash = l[a].cash
  <2>1. m[a] = IF a = to THEN WithPosition(k[a], Sym, more) ELSE k[a]
    BY <1>7, <1>11
  <2>2. CASE a = to
    BY <1>10, <1>12, <2>1, <2>2, PlacedFits
  <2>3. CASE a # to
    BY <1>12, <2>1, <2>3
  <2>4. QED
    BY <2>2, <2>3
<1>14. \A t \in Team : m[t].cash = l[t].cash
  BY <1>13 DEF AcctsOK
<1>15. AcctsOK(m)
  BY <1>11, <1>13, <1>14 DEF AcctsOK
<1>16. QED
  BY <1>6, <1>11, <1>14, <1>15

-----------------------------------------------------------------------------
(* Sums. *)

(* The same values under other names have the same sum. *)
Renamed(S, T, h, f, g) ==
    /\ IsFiniteSet(S) /\ h \in [S -> T] /\ f \in [S -> Int] /\ g \in [T -> Int]
    /\ \A x, y \in S : h[x] = h[y] => x = y
    /\ \A z \in T : \E x \in S : h[x] = z
    /\ \A x \in S : g[h[x]] = f[x]

LEMMA SumSame ==
  ASSUME NEW S, NEW T, NEW h, NEW f, NEW g, Renamed(S, T, h, f, g)
  PROVE  SumFunction(g) = SumFunction(f)
<1> USE DEF Renamed
<1> DEFINE In(d) == {h[x] : x \in d}
<1>1. IsFiniteSet(T)
  <2>1. h \in Surjection(S, T)
    BY DEF Surjection
  <2>2. QED
    BY <2>1, FS_Surjection
<1>2. PICK i \in [SUBSET S -> Int] : Summing(f, S, i) /\ SumFunction(f) = i[S]
  BY SumFunctionIs
<1>3. PICK j \in [SUBSET T -> Int] : Summing(g, T, j) /\ SumFunction(g) = j[T]
  BY <1>1, SumFunctionIs
<1>4. AnyOrder(f, S, i) /\ AnyOrder(g, T, j)
  <2>1. /\ \A x \in S : f[x] \in Int
        /\ \A x \in T : g[x] \in Int
        /\ \A d \in SUBSET S : i[d] \in Int
        /\ \A d \in SUBSET T : j[d] \in Int
    BY <1>2, <1>3
  <2>2. AnyOrder(f, S, i)
    BY <1>2, <2>1, AnyLast
  <2>3. AnyOrder(g, T, j)
    BY <1>1, <1>3, <2>1, AnyLast
  <2>4. QED
    BY <2>2, <2>3
<1> DEFINE K == {n \in Nat : \A d \in SUBSET S : Cardinality(d) <= n => i[d] = j[In(d)]}
<1>5. \A d \in SUBSET S : IsFiniteSet(d) /\ Cardinality(d) \in Nat /\ In(d) \in SUBSET T
  BY FS_Subset, FS_CardinalityType
<1>6. 0 \in K
  <2>1. ASSUME NEW d \in SUBSET S, Cardinality(d) <= 0 PROVE i[d] = j[In(d)]
    <3>1. d = {} /\ In(d) = {}
      BY <1>5, <2>1, NoneIsEmpty
    <3>2. i[{}] = 0 /\ j[{}] = 0
      BY <1>2, <1>3 DEF Summing
    <3>3. QED
      BY <3>1, <3>2
  <2>2. QED
    BY <2>1
<1>7. ASSUME NEW n \in Nat, n \in K PROVE n + 1 \in K
  <2>1. ASSUME NEW d \in SUBSET S, Cardinality(d) <= n + 1 PROVE i[d] = j[In(d)]
    <3>1. CASE d = {}
      <4>1. In(d) = {}
        BY <3>1
      <4>2. i[{}] = 0 /\ j[{}] = 0
        BY <1>2, <1>3 DEF Summing
      <4>3. QED
        BY <3>1, <4>1, <4>2
    <3>2. CASE d # {}
      <4>1. PICK y \in d : IsFiniteSet(d \ {y}) /\ Cardinality(d \ {y}) <= n
        BY <1>5, <2>1, <3>2, OneLess
      <4>2. i[d] = f[y] + i[d \ {y}]
        BY <1>4, <4>1 DEF AnyOrder
      <4>3. h[y] \in In(d) /\ In(d) \in SUBSET T
        BY <1>5, <4>1
      <4>4. j[In(d)] = g[h[y]] + j[In(d) \ {h[y]}]
        BY <1>4, <4>3 DEF AnyOrder
      <4>5. In(d) \ {h[y]} = In(d \ {y})
        BY <4>1
      <4>6. i[d \ {y}] = j[In(d \ {y})]
        BY <1>7, <4>1
      <4>7. g[h[y]] = f[y]
        BY <4>1
      <4>8. QED
        BY <4>2, <4>4, <4>5, <4>6, <4>7
    <3>3. QED
      BY <3>1, <3>2
  <2>2. QED
    BY <2>1
<1>8. Cardinality(S) \in Nat /\ Cardinality(S) <= Cardinality(S)
  BY FS_CardinalityType
<1>9. In(S) = T
  <2>1. \A z : z \in In(S) <=> z \in T
    OBVIOUS
  <2>2. QED
    BY <2>1
<1> HIDE DEF K
<1>10. Cardinality(S) \in K
  BY <1>6, <1>7, <1>8, Numbers
<1>11. i[S] = j[In(S)]
  BY <1>8, <1>10 DEF K
<1>12. QED
  BY <1>2, <1>3, <1>9, <1>11

(* A sum of what is not negative is at least each of it. *)
LEMMA SumCovers ==
  ASSUME NEW S, IsFiniteSet(S), NEW f \in [S -> Nat]
  PROVE  SumFunction(f) \in Nat /\ \A x \in S : f[x] <= SumFunction(f)
<1>1. \A x \in S : f[x] \in Nat /\ f[x] \in Int
  OBVIOUS
<1>2. PICK i \in [SUBSET S -> Int] : Summing(f, S, i) /\ SumFunction(f) = i[S]
  BY <1>1, SumFunctionIs
<1>3. AnyOrder(f, S, i)
  <2>1. \A d \in SUBSET S : i[d] \in Int
    BY <1>2
  <2>2. QED
    BY <1>1, <1>2, <2>1, AnyLast
<1>4. \A d \in SUBSET S : IsFiniteSet(d) /\ Cardinality(d) \in Nat
  BY FS_Subset, FS_CardinalityType
<1> DEFINE K == {n \in Nat : \A d \in SUBSET S : Cardinality(d) <= n => i[d] \in Nat}
<1>5. i[{}] = 0
  BY <1>2 DEF Summing
<1>6. 0 \in K
  <2>1. ASSUME NEW d \in SUBSET S, Cardinality(d) <= 0 PROVE i[d] \in Nat
    <3>1. d = {}
      BY <1>4, <2>1, NoneIsEmpty
    <3>2. QED
      BY <1>5, <3>1
  <2>2. QED
    BY <2>1
<1>7. ASSUME NEW n \in Nat, n \in K PROVE n + 1 \in K
  <2>1. ASSUME NEW d \in SUBSET S, Cardinality(d) <= n + 1 PROVE i[d] \in Nat
    <3>1. CASE d = {}
      BY <1>5, <3>1
    <3>2. CASE d # {}
      <4>1. PICK y \in d : IsFiniteSet(d \ {y}) /\ Cardinality(d \ {y}) <= n
        BY <1>4, <2>1, <3>2, OneLess
      <4>2. i[d] = f[y] + i[d \ {y}]
        BY <1>3, <4>1 DEF AnyOrder
      <4>3. i[d \ {y}] \in Nat
        BY <1>7, <4>1
      <4>4. f[y] \in Nat
        BY <1>1, <4>1
      <4>5. QED
        BY <4>2, <4>3, <4>4
    <3>3. QED
      BY <3>1, <3>2
  <2>2. QED
    BY <2>1
<1> HIDE DEF K
<1>8. \A n \in Nat : n \in K
  BY <1>6, <1>7, Numbers
<1>9. ASSUME NEW d \in SUBSET S PROVE i[d] \in Nat
  <2>1. Cardinality(d) \in K /\ Cardinality(d) \in Nat /\ Cardinality(d) <= Cardinality(d)
    BY <1>4, <1>8
  <2>2. QED
    BY <2>1 DEF K
<1>10. ASSUME NEW x \in S PROVE f[x] <= i[S]
  <2>1. i[S] = f[x] + i[S \ {x}]
    BY <1>3 DEF AnyOrder
  <2>2. i[S \ {x}] \in Nat /\ f[x] \in Nat
    BY <1>1, <1>9
  <2>3. QED
    BY <2>1, <2>2
<1>11. QED
  BY <1>2, <1>9, <1>10

-----------------------------------------------------------------------------
(* What accounts are worth. *)
LEMMA WorthIs ==
  ASSUME price \in Price, NEW a \in Wallet
  PROVE  Worth(a, Priced) \in Int /\ (a.cash >= 0 => Worth(a, Priced) \in Nat)
<1>1. PICK S, g : S = DOMAIN a.pos /\ g = [s \in DOMAIN a.pos |-> a.pos[s].qty * Priced[s]]
  OBVIOUS
<1>2. S \in {{}, {Sym}} /\ a.pos \in [S -> Lot] /\ a.cash \in Int
  BY <1>1 DEF Wallet
<1>3. IsFiniteSet(S)
  <2>1. CASE S = {}
    BY <2>1, FS_EmptySet
  <2>2. CASE S = {Sym}
    BY <2>2, FS_Singleton
  <2>3. QED
    BY <1>2, <2>1, <2>2
<1>4. price \in Nat
  BY FundAssumption
<1>5. ASSUME NEW s \in S PROVE g[s] \in Nat
  <2>1. s = Sym /\ a.pos[s].qty \in Nat
    BY <1>2 DEF Lot
  <2>2. Priced[s] = price
    BY <2>1 DEF Priced
  <2>3. PICK q \in Nat : q = a.pos[s].qty
    BY <2>1
  <2>4. g[s] = q * price
    BY <1>1, <2>2, <2>3
  <2>5. QED
    BY <1>4, <2>4
<1>6. g \in [S -> Nat]
  BY <1>1, <1>5
<1>7. SumFunction(g) \in Nat
  BY <1>3, <1>6, SumCovers
<1>8. Worth(a, Priced) = a.cash + SumFunction(g)
  BY <1>1 DEF Worth
<1>9. QED
  BY <1>2, <1>7, <1>8

(* A NAV is a fraction. *)
LEMMA NavRate ==
  ASSUME price \in Price, BookOK(book), AcctsOK(ledger), DOMAIN book.funds \subseteq DOMAIN ledger,
         NEW f \in DOMAIN book.funds
  PROVE  FundValue(f) \in Int /\ NavOf(f) \in Rate
<1>1. FundValue(f) \in Int
  BY WorthIs DEF AcctsOK, FundValue
<1>2. PICK u : u = book.funds[f].units
  OBVIOUS
<1>3. u \in Int
  BY <1>2 DEF BookOK, FundOK
<1>4. CASE u <= 0
  <2>1. NavOf(f) = LaunchNAV
    BY <1>2, <1>4 DEF NavOf
  <2>2. QED
    BY <1>1, <2>1 DEF LaunchNAV, Rate
<1>5. CASE ~(u <= 0)
  <2>1. u \in Nat \ {0}
    BY <1>3, <1>5
  <2>2. NavOf(f) = [of |-> FundValue(f), per |-> u]
    BY <1>2, <1>5 DEF NavOf
  <2>3. QED
    BY <1>1, <2>1, <2>2 DEF Rate
<1>6. QED
  BY <1>1, <1>4, <1>5

-----------------------------------------------------------------------------
(* Moves that can be made. *)
LEMMA MoveFits ==
  ASSUME NEW l, AcctsOK(l), NEW m \in Move,
         m.from \in Team /\ m.cash > 0 => m.cash <= l[m.from].cash
  PROVE  /\ AcctsOK(AfterMove(l, m)) /\ DOMAIN AfterMove(l, m) = DOMAIN l
         /\ \A t \in Team : t # m.from \/ m.cash = 0 => AfterMove(l, m)[t].cash >= l[t].cash
<1>1. m.cash \in Nat /\ m.qty \in Nat /\ m.cost \in Int
  BY DEF Move
<1>2. CASE m.cash > 0
  <2>1. AfterMove(l, m) = MoveCash(l, m.from, m.to, m.cash)
    BY <1>2 DEF AfterMove
  <2>2. m.from \in Team => m.cash <= l[m.from].cash
    BY <1>2
  <2>3. QED
    BY <1>1, <1>2, <2>1, <2>2, CashFits
<1>3. CASE ~(m.cash > 0)
  <2>1. AfterMove(l, m) = MoveShares(l, m.from, m.to, Sym, m.qty, m.cost)
    BY <1>3 DEF AfterMove
  <2>2. \A t \in Team : l[t].cash \in Int
    BY DEF AcctsOK, Wallet
  <2>3. QED
    BY <1>1, <2>1, <2>2, SharesFit
<1>4. QED
  BY <1>2, <1>3

LEMMA PayableStep ==
  ASSUME NEW l, AcctsOK(l), NEW s, Payable(l, s), s # <<>>
  PROVE  /\ AcctsOK(AfterMove(l, Head(s))) /\ DOMAIN AfterMove(l, Head(s)) = DOMAIN l
         /\ Payable(AfterMove(l, Head(s)), Tail(s))
<1>1. PICK k : k = AfterMove(l, Head(s))
  OBVIOUS
<1>2. PICK t : t = Tail(s)
  OBVIOUS
<1>3. /\ s \in Seq(Move) /\ t \in Seq(Move) /\ Head(s) = s[1] /\ 1 \in DOMAIN s /\ s[1] \in Move
      /\ \A i \in DOMAIN t : i + 1 \in DOMAIN s /\ t[i] = s[i + 1] /\ i + 1 # 1
      /\ \A i, j \in DOMAIN t : i # j => i + 1 # j + 1
  BY <1>2 DEF Payable
<1>4. /\ AcctsOK(k) /\ DOMAIN k = DOMAIN l
      /\ \A u \in Team : u # s[1].from \/ s[1].cash = 0 => k[u].cash >= l[u].cash
  <2>1. s[1].from \in Team /\ s[1].cash > 0 => s[1].cash <= l[s[1].from].cash
    BY <1>3 DEF Payable
  <2>2. QED
    BY <1>1, <1>3, <2>1, MoveFits
<1>5. ASSUME NEW i \in DOMAIN t, t[i].from \in Team, t[i].cash > 0
      PROVE  t[i].cash <= k[t[i].from].cash
  <2>1. i + 1 \in DOMAIN s /\ t[i] = s[i + 1] /\ i + 1 # 1
    BY <1>3
  <2>2. t[i].cash <= l[t[i].from].cash
    BY <1>5, <2>1 DEF Payable
  <2>3. s[1].cash > 0 => s[1].from # t[i].from
    BY <1>3, <1>5, <2>1 DEF Payable
  <2>4. s[1].cash \in Nat /\ t[i].cash \in Nat
    <3>1. s[1] \in Move /\ t[i] \in Move
      BY <1>3
    <3>2. QED
      BY <3>1 DEF Move
  <2>5. k[t[i].from].cash >= l[t[i].from].cash
    BY <1>4, <1>5, <2>3, <2>4
  <2>6. k[t[i].from].cash \in Int /\ l[t[i].from].cash \in Int
    BY <1>4, <1>5 DEF AcctsOK, Wallet
  <2>7. QED
    BY <2>2, <2>4, <2>5, <2>6
<1>6. ASSUME NEW i \in DOMAIN t, NEW j \in DOMAIN t, i # j,
             t[i].from \in Team, t[i].cash > 0, t[j].cash > 0
      PROVE  t[i].from # t[j].from
  BY <1>3, <1>6 DEF Payable
<1>7. Payable(k, t)
  BY <1>3, <1>5, <1>6 DEF Payable
<1>8. QED
  BY <1>1, <1>2, <1>4, <1>7

LEMMA PayableAll ==
  ASSUME NEW l, AcctsOK(l), NEW s, Payable(l, s)
  PROVE  AcctsOK(AfterMoves(l, s)) /\ DOMAIN AfterMoves(l, s) = DOMAIN l
<1> DEFINE Q(k, r) == AcctsOK(AfterMoves(k, r)) /\ DOMAIN AfterMoves(k, r) = DOMAIN k
           N == {n \in Nat : \A k, r : AcctsOK(k) /\ Payable(k, r) /\ Len(r) = n => Q(k, r)}
<1>1. 0 \in N
  <2>1. ASSUME NEW k, NEW r, AcctsOK(k), Payable(k, r), Len(r) = 0 PROVE Q(k, r)
    <3>1. r = <<>>
      BY <2>1 DEF Payable
    <3>2. AfterMoves(k, r) = k
      BY <3>1, NoMoves
    <3>3. QED
      BY <2>1, <3>2
  <2>2. QED
    BY <2>1
<1>2. ASSUME NEW n \in Nat, n \in N PROVE n + 1 \in N
  <2>1. ASSUME NEW k, NEW r, AcctsOK(k), Payable(k, r), Len(r) = n + 1 PROVE Q(k, r)
    <3>1. r \in Seq(Move) /\ r # <<>> /\ Len(Tail(r)) = n
      BY <2>1 DEF Payable
    <3>2. PICK m : m = AfterMove(k, Head(r))
      OBVIOUS
    <3>3. AcctsOK(m) /\ DOMAIN m = DOMAIN k /\ Payable(m, Tail(r))
      BY <2>1, <3>1, <3>2, PayableStep
    <3>4. Q(m, Tail(r))
      BY <1>2, <3>1, <3>3
    <3>5. AfterMoves(k, r) = AfterMoves(m, Tail(r))
      <4>1. AfterMoves(k, <<Head(r)>>) = m
        BY <3>2, MoveOne
      <4>2. AfterMoves(k, r) = AfterMoves(AfterMoves(k, <<Head(r)>>), Tail(r))
        BY <3>1, MoveFirst
      <4>3. QED
        BY <4>1, <4>2
    <3>6. QED
      BY <3>3, <3>4, <3>5
  <2>2. QED
    BY <2>1
<1>3. Len(s) \in Nat
  BY DEF Payable
<1> HIDE DEF N
<1>4. Len(s) \in N
  BY <1>1, <1>2, <1>3, Numbers
<1>5. QED
  BY <1>4 DEF N

-----------------------------------------------------------------------------
(* What an event leaves of a book in order.                                *)
Held == [units : Nat, paid : Int, back : Int, seed : BOOLEAN]

(* The units of a fund, by who holds them. *)
OwnedIn(held, f) == [k \in {h \in DOMAIN held : h[2] = f} |-> held[k].units]

UnitsAt(b, f) ==
    /\ b.funds[f].units = SumFunction(OwnedIn(b.held, f))
    /\ b.funds[f].units = b.funds[f].seeded + b.funds[f].minted - b.funds[f].redeemed

LEMMA UnitsAre ==
  ASSUME NEW b
  PROVE  UnitsIn(b) <=> \A f \in DOMAIN b.funds : UnitsAt(b, f)
BY DEF UnitsIn, UnitsAt, OwnedIn

LEMMA BookIsWhole ==
  ASSUME NEW b, BookOK(b)
  PROVE  BookWhole(b)
<1>1. Listed(b.moves)
  BY SequencesOwn DEF BookOK, Listed
<1>2. QED
  BY <1>1 DEF BookOK, BookWhole, FundOK, FundWhole

(* What of a fund is added up, and its mark. *)
SameFigures(g, h) ==
    /\ h.units = g.units /\ h.seeded = g.seeded /\ h.minted = g.minted
    /\ h.redeemed = g.redeemed /\ h.mark = g.mark

(* A book in which no units and no marks have changed. *)
LEMMA SameFits ==
  ASSUME NEW b, BookFit(b), NEW d, BookWhole(d), SameFunds(b, d),
         d.held = b.held, d.checks = b.checks,
         \A f \in DOMAIN b.funds : FundOK(d.funds[f]) /\ SameFigures(b.funds[f], d.funds[f])
  PROVE  BookFit(d)
<1>1. BookOK(d)
  BY DEF BookFit, BookOK, BookWhole, SameFunds
<1>2. UnitsIn(d)
  <2>1. ASSUME NEW f \in DOMAIN d.funds PROVE UnitsAt(d, f)
    <3>1. f \in DOMAIN b.funds /\ UnitsAt(b, f)
      BY UnitsAre DEF SameFunds, BookFit
    <3>2. QED
      BY <3>1 DEF UnitsAt, SameFigures
  <2>2. QED
    BY <2>1, UnitsAre
<1>3. MarksIn(d)
  BY DEF BookFit, BookOK, MarksIn, SameFigures
<1>4. HighsIn(d)
  BY DEF BookFit, HighsIn
<1>5. QED
  BY <1>1, <1>2, <1>3, <1>4 DEF BookFit

LEMMA OneFundFits ==
  ASSUME NEW b, BookFit(b), NEW f \in DOMAIN b.funds, NEW ev, ev.fund = f,
         ev.op \in {"profile", "trader", "fundDQ"}, EventFit(b, ev)
  PROVE  BookFit(Apply(b, ev))
<1>1. BookWhole(b) /\ BookWhole(Apply(b, ev)) /\ SameFunds(b, Apply(b, ev))
  BY BookIsWhole, OneFundKept DEF BookFit
<1>2. ASSUME NEW g, FundOK(g), SameFigures(b.funds[f], g), NEW d, d = Apply(b, ev),
             d = [b EXCEPT !.funds = [b.funds EXCEPT ![f] = g]]
      PROVE  BookFit(d)
  <2>1. d.funds = [b.funds EXCEPT ![f] = g] /\ d.held = b.held /\ d.checks = b.checks
    BY <1>1, <1>2 DEF BookWhole
  <2>2. ASSUME NEW x \in DOMAIN b.funds
        PROVE  FundOK(d.funds[x]) /\ SameFigures(b.funds[x], d.funds[x])
    BY <1>2, <2>1 DEF BookFit, BookOK, SameFigures
  <2>3. QED
    BY <1>1, <1>2, <2>1, <2>2, SameFits
<1>3. PICK g : g = b.funds[f]
  OBVIOUS
<1>4. FundOK(g)
  BY <1>3 DEF BookFit, BookOK
<1>5. CASE ev.op = "profile"
  <2>1. PICK h : h = [g EXCEPT !.fee = ev.fee]
    OBVIOUS
  <2>2. ev.fee \in Nat
    BY <1>5 DEF EventFit
  <2>3. FundOK(h) /\ SameFigures(g, h)
    BY <1>4, <2>1, <2>2 DEF FundOK, SameFigures
  <2>4. Apply(b, ev) = [b EXCEPT !.funds = [b.funds EXCEPT ![f] = h]]
    BY <1>3, <1>5, <2>1 DEF Apply
  <2>5. QED
    BY <1>2, <1>3, <2>3, <2>4
<1>6. CASE ev.op = "trader"
  <2>1. PICK h : h = [g EXCEPT !.trader = ev.who]
    OBVIOUS
  <2>2. ev.who \in Team
    BY <1>6 DEF EventFit
  <2>3. FundOK(h) /\ SameFigures(g, h)
    BY <1>4, <2>1, <2>2 DEF FundOK, SameFigures
  <2>4. Apply(b, ev) = [b EXCEPT !.funds = [b.funds EXCEPT ![f] = h]]
    BY <1>3, <1>6, <2>1 DEF Apply
  <2>5. QED
    BY <1>2, <1>3, <2>3, <2>4
<1>7. CASE ev.op = "fundDQ"
  <2>1. PICK h : h = [g EXCEPT !.active = FALSE]
    OBVIOUS
  <2>2. FundOK(h) /\ SameFigures(g, h)
    BY <1>4, <2>1 DEF FundOK, SameFigures
  <2>3. Apply(b, ev) = [b EXCEPT !.funds = [b.funds EXCEPT ![f] = h]]
    BY <1>3, <1>7, <2>1 DEF Apply
  <2>4. QED
    BY <1>2, <1>3, <2>2, <2>3
<1>8. QED
  BY <1>5, <1>6, <1>7

LEMMA SampledFits ==
  ASSUME NEW g, FundOK(g), NEW nav \in Rate, NEW aum \in Int
  PROVE  FundOK(SampledWith(g, nav, aum)) /\ SameFigures(g, SampledWith(g, nav, aum))
<1>1. PICK peak : peak = IF Above(nav, g.peak) THEN nav ELSE g.peak
  OBVIOUS
<1>2. PICK fall : fall = Deeper(g.fall, FallFrom(peak, nav))
  OBVIOUS
<1>3. PICK p : p = [g EXCEPT !.peak = peak, !.fall = fall]
  OBVIOUS
<1>4. Rated(g, nav) = p
  BY <1>1, <1>2, <1>3 DEF Rated
<1>5. peak \in Rate
  BY <1>1 DEF FundOK
<1>6. FundOK(p) /\ SameFigures(g, p) /\ p.aums \in Seq(Int)
  BY <1>3, <1>5 DEF FundOK, SameFigures
<1>7. PICK as : as = Append(p.aums, aum)
  OBVIOUS
<1>8. as \in Seq(Int)
  BY <1>6, <1>7
<1>9. PICK h : h = [p EXCEPT !.aums = as]
  OBVIOUS
<1>10. FundOK(h) /\ SameFigures(g, h)
  BY <1>6, <1>8, <1>9 DEF FundOK, SameFigures
<1>11. SampledWith(g, nav, aum) = h
  BY <1>4, <1>7, <1>9 DEF SampledWith
<1>12. QED
  BY <1>10, <1>11

LEMMA SampleFits ==
  ASSUME NEW b, BookFit(b), NEW ev, ev.op = "series", EventFit(b, ev)
  PROVE  BookFit(Apply(b, ev))
<1>1. PICK d : d = Apply(b, ev)
  OBVIOUS
<1>2. /\ BookWhole(d) /\ SameFunds(b, d) /\ d.held = b.held /\ d.checks = b.checks
      /\ \A f \in DOMAIN b.funds :
            d.funds[f] = IF f \in DOMAIN ev.navs
                         THEN SampledWith(b.funds[f], ev.navs[f], ev.aums[f])
                         ELSE b.funds[f]
  BY <1>1, BookIsWhole, SampleBook DEF BookFit
<1>3. ASSUME NEW f \in DOMAIN b.funds
      PROVE  FundOK(d.funds[f]) /\ SameFigures(b.funds[f], d.funds[f])
  <2>1. FundOK(b.funds[f])
    BY DEF BookFit, BookOK
  <2>2. CASE f \in DOMAIN ev.navs
    <3>1. ev.navs[f] \in Rate /\ ev.aums[f] \in Int
      BY <2>2 DEF EventFit
    <3>2. QED
      BY <1>2, <2>1, <2>2, <3>1, SampledFits
  <2>3. CASE f \notin DOMAIN ev.navs
    BY <1>2, <2>1, <2>3 DEF SameFigures
  <2>4. QED
    BY <2>2, <2>3
<1>4. QED
  BY <1>1, <1>2, <1>3, SameFits

LEMMA LogFits ==
  ASSUME NEW b, BookFit(b), NEW ev, ev.op = "log"
  PROVE  BookFit(Apply(b, ev))
<1>1. PICK d : d = Apply(b, ev)
  OBVIOUS
<1>2. /\ BookWhole(d) /\ SameFunds(b, d)
      /\ d.funds = b.funds /\ d.held = b.held /\ d.checks = b.checks
  BY <1>1, BookIsWhole, LogBook DEF BookFit
<1>3. \A f \in DOMAIN b.funds : FundOK(d.funds[f]) /\ SameFigures(b.funds[f], d.funds[f])
  BY <1>2 DEF BookFit, BookOK, SameFigures
<1>4. QED
  BY <1>1, <1>2, <1>3, SameFits

(* A checkpoint moves every mark up to the NAV, if that is above it.       *)
LEMMA MarkMoves ==
  ASSUME NEW mark \in Rate, NEW nav \in Rate, NEW after,
         after = (IF Above(nav, mark) THEN nav ELSE mark)
  PROVE  /\ after \in Rate /\ ~Above(nav, after)
         /\ \A n \in Rate :
               ~Above(n, mark) => ~Above(n, after) /\ (Above(nav, mark) => Above(nav, n))
<1>1. CASE Above(nav, mark)
  <2>1. after = nav /\ ~Above(nav, nav)
    BY <1>1, AboveApart
  <2>2. ASSUME NEW n \in Rate, ~Above(n, mark) PROVE Above(nav, n) /\ ~Above(n, nav)
    <3>1. Above(nav, n)
      BY <1>1, <2>2, AboveChain
    <3>2. QED
      BY <3>1, AboveApart
  <2>3. QED
    BY <2>1, <2>2
<1>2. CASE ~Above(nav, mark)
  BY <1>2
<1>3. QED
  BY <1>1, <1>2

LEMMA CheckedFits ==
  ASSUME NEW g, FundOK(g), NEW k, k.markAfter \in Rate
  PROVE  /\ FundOK(CheckedWith(g, k)) /\ CheckedWith(g, k).mark = k.markAfter
         /\ CheckedWith(g, k).units = g.units /\ CheckedWith(g, k).seeded = g.seeded
         /\ CheckedWith(g, k).minted = g.minted /\ CheckedWith(g, k).redeemed = g.redeemed
<1>1. PICK m, e : m = k.markAfter /\ e = <<>>
  OBVIOUS
<1>2. e \in Seq(Int)
  BY <1>1
<1>3. PICK h : h = [g EXCEPT !.mark = m, !.aums = e]
  OBVIOUS
<1>4. /\ FundOK(h) /\ h.mark = m /\ h.units = g.units /\ h.seeded = g.seeded
      /\ h.minted = g.minted /\ h.redeemed = g.redeemed
  BY <1>1, <1>2, <1>3 DEF FundOK
<1>5. CheckedWith(g, k) = h
  BY <1>1, <1>3 DEF CheckedWith
<1>6. QED
  BY <1>1, <1>4, <1>5

LEMMA CheckFits ==
  ASSUME NEW b, BookFit(b), NEW ev, ev.op = "checkpoint", EventFit(b, ev)
  PROVE  BookFit(Apply(b, ev))
<1>1. PICK d : d = Apply(b, ev)
  OBVIOUS
<1>2. PICK k : k = ev.check
  OBVIOUS
<1>3. CheckFit(b, k) /\ BookOK(b)
  BY <1>2 DEF EventFit, BookFit
<1>4. /\ BookWhole(d) /\ SameFunds(b, d) /\ d.held = b.held /\ d.checks = Append(b.checks, k)
      /\ \A f \in DOMAIN b.funds :
            d.funds[f] = IF f \in DOMAIN k.funds THEN CheckedWith(b.funds[f], k.funds[f])
                         ELSE b.funds[f]
  BY <1>1, <1>2, <1>3, BookIsWhole, CheckBook
<1>5. ASSUME NEW f \in DOMAIN b.funds
      PROVE  /\ f \in DOMAIN k.funds /\ FundOK(b.funds[f]) /\ b.funds[f].mark \in Rate
             /\ k.funds[f].nav \in Rate /\ k.funds[f].markAfter \in Rate
             /\ k.funds[f].markAfter =
                   IF Above(k.funds[f].nav, b.funds[f].mark) THEN k.funds[f].nav
                   ELSE b.funds[f].mark
  BY <1>3 DEF CheckFit, CheckOK, BookOK, FundOK
<1>6. ASSUME NEW f \in DOMAIN b.funds
      PROVE  /\ FundOK(d.funds[f]) /\ d.funds[f].mark = k.funds[f].markAfter
             /\ d.funds[f].units = b.funds[f].units /\ d.funds[f].seeded = b.funds[f].seeded
             /\ d.funds[f].minted = b.funds[f].minted
             /\ d.funds[f].redeemed = b.funds[f].redeemed
  <2>1. d.funds[f] = CheckedWith(b.funds[f], k.funds[f])
    BY <1>4, <1>5
  <2>2. QED
    BY <1>5, <2>1, CheckedFits
<1>7. /\ b.checks \in Seq(ToSet(b.checks)) /\ Len(b.checks) \in Nat
      /\ DOMAIN b.checks = 1 .. Len(b.checks) /\ DOMAIN d.checks = 1 .. Len(b.checks) + 1
      /\ \A i \in 1 .. Len(b.checks) : d.checks[i] = b.checks[i] /\ b.checks[i] \in ToSet(b.checks)
      /\ d.checks[Len(b.checks) + 1] = k
      /\ d.checks \in Seq(ToSet(d.checks))
      /\ \A x \in ToSet(d.checks) : x \in ToSet(b.checks) \/ x = k
  <2>1. /\ b.checks \in Seq(ToSet(b.checks)) /\ Len(b.checks) \in Nat
        /\ DOMAIN b.checks = 1 .. Len(b.checks)
    BY <1>3 DEF BookOK
  <2>2. b.checks \in Seq(ToSet(b.checks) \cup {k}) /\ k \in ToSet(b.checks) \cup {k}
    BY <2>1
  <2>3. d.checks \in Seq(ToSet(b.checks) \cup {k})
    BY <1>4, <2>2
  <2>4. d.checks \in Seq(ToSet(d.checks))
    BY <2>3, SequencesOwn
  <2>5. /\ DOMAIN d.checks = 1 .. Len(b.checks) + 1 /\ d.checks[Len(b.checks) + 1] = k
        /\ \A i \in 1 .. Len(b.checks) :
              d.checks[i] = b.checks[i] /\ b.checks[i] \in ToSet(b.checks)
    BY <1>4, <2>1
  <2>6. \A x \in ToSet(d.checks) : x \in ToSet(b.checks) \/ x = k
    BY <2>3 DEF ToSet
  <2>7. QED
    BY <2>1, <2>4, <2>5, <2>6
<1>8. DOMAIN d.funds = DOMAIN b.funds
  BY <1>4 DEF SameFunds
<1>9. BookOK(d)
  <2>1. \A x \in ToSet(d.checks) : CheckOK(x) /\ DOMAIN x.funds \subseteq DOMAIN d.funds
    BY <1>3, <1>7, <1>8 DEF CheckFit, BookOK
  <2>2. \A f \in DOMAIN d.funds : FundOK(d.funds[f])
    BY <1>6, <1>8
  <2>3. /\ d.formed = b.formed /\ d.moves = b.moves /\ d.held = b.held
        /\ d = [formed |-> d.formed, funds |-> d.funds, held |-> d.held, inflow |-> d.inflow,
                ranking |-> d.ranking, moves |-> d.moves, risks |-> d.risks,
                checks |-> d.checks, logs |-> d.logs]
        /\ d.funds = [f \in DOMAIN d.funds |-> d.funds[f]]
    BY <1>4 DEF SameFunds, BookWhole
  <2>4. d.checks \in Seq(ToSet(d.checks))
    BY <1>7
  <2>5. QED
    BY <1>3, <1>8, <2>1, <2>2, <2>3, <2>4 DEF BookOK
<1>10. UnitsIn(d)
  <2>1. ASSUME NEW f \in DOMAIN d.funds PROVE UnitsAt(d, f)
    <3>1. f \in DOMAIN b.funds /\ UnitsAt(b, f)
      BY <1>8, UnitsAre DEF BookFit
    <3>2. QED
      BY <1>4, <1>6, <3>1 DEF UnitsAt
  <2>2. QED
    BY <2>1, UnitsAre
<1>11. ASSUME NEW x \in ToSet(b.checks), NEW f \in DOMAIN x.funds
       PROVE  /\ f \in DOMAIN b.funds /\ x.funds[f].nav \in Rate
              /\ ~Above(x.funds[f].nav, b.funds[f].mark)
  BY <1>3 DEF BookOK, CheckOK, BookFit, MarksIn
<1>12. MarksIn(d)
  <2>1. ASSUME NEW x \in ToSet(d.checks), NEW f \in DOMAIN x.funds
        PROVE  ~Above(x.funds[f].nav, d.funds[f].mark)
    <3>1. CASE x = k
      <4>1. f \in DOMAIN b.funds
        BY <1>3, <3>1 DEF CheckFit
      <4>2. QED
        BY <1>5, <1>6, <3>1, <4>1, MarkMoves
    <3>2. CASE x \in ToSet(b.checks)
      <4>1. /\ f \in DOMAIN b.funds /\ x.funds[f].nav \in Rate
            /\ ~Above(x.funds[f].nav, b.funds[f].mark)
        BY <1>11, <3>2
      <4>2. QED
        BY <1>5, <1>6, <4>1, MarkMoves
    <3>3. QED
      BY <1>7, <3>1, <3>2
  <2>2. QED
    BY <2>1 DEF MarksIn
<1>13. HighsIn(d)
  <2>1. ASSUME NEW i \in DOMAIN d.checks, NEW j \in DOMAIN d.checks, i < j,
               NEW f \in DOMAIN d.checks[i].funds \cap DOMAIN d.checks[j].funds,
               d.checks[j].funds[f].perf > 0
        PROVE  Above(d.checks[j].funds[f].nav, d.checks[i].funds[f].nav)
    <3>1. i \in 1 .. Len(b.checks) /\ i \in DOMAIN b.checks /\ d.checks[i] = b.checks[i]
      BY <1>7, <2>1
    <3>2. CASE j = Len(b.checks) + 1
      <4>1. d.checks[j] = k /\ f \in DOMAIN k.funds /\ k.funds[f].perf > 0
        BY <1>7, <2>1, <3>2
      <4>2. b.checks[i] \in ToSet(b.checks) /\ f \in DOMAIN b.checks[i].funds
        BY <1>7, <2>1, <3>1
      <4>3. f \in DOMAIN b.funds /\ b.checks[i].funds[f].nav \in Rate
            /\ ~Above(b.checks[i].funds[f].nav, b.funds[f].mark)
        BY <1>11, <4>2
      <4>4. Above(k.funds[f].nav, b.funds[f].mark)
        BY <1>3, <4>1, <4>3 DEF CheckFit
      <4>5. Above(k.funds[f].nav, b.checks[i].funds[f].nav)
        BY <1>5, <4>3, <4>4, AboveChain
      <4>6. QED
        BY <3>1, <4>1, <4>5
    <3>3. CASE j # Len(b.checks) + 1
      <4>1. j \in DOMAIN b.checks /\ d.checks[j] = b.checks[j]
        BY <1>7, <3>3
      <4>2. QED
        BY <2>1, <3>1, <4>1 DEF BookFit, HighsIn
    <3>4. QED
      BY <3>2, <3>3
  <2>2. QED
    BY <2>1 DEF HighsIn
<1>14. QED
  BY <1>1, <1>9, <1>10, <1>12, <1>13 DEF BookFit

(* A book without funds. *)
LEMMA EmptyFits == BookFit(NewBook)
<1>1. PICK e : e = <<>>
  OBVIOUS
<1>2. /\ e = [x \in {} |-> e[x]] /\ DOMAIN e = {} /\ ToSet(e) = {} /\ e \in Seq({})
      /\ e \in Seq(Given) /\ e \in [DOMAIN e -> Held]
  BY <1>1 DEF ToSet
<1>3. PICK b : b = [formed |-> FALSE, funds |-> e, held |-> e, inflow |-> e,
                    ranking |-> e, moves |-> e, risks |-> e, checks |-> e, logs |-> e]
  OBVIOUS
<1>4. BookOK(b)
  BY <1>2, <1>3 DEF BookOK, Held
<1>5. UnitsIn(b) /\ MarksIn(b) /\ HighsIn(b)
  BY <1>2, <1>3 DEF UnitsIn, MarksIn, HighsIn
<1>6. NewBook = b
  BY <1>1, <1>3 DEF NewBook
<1>7. QED
  BY <1>4, <1>5, <1>6 DEF BookFit

(* There are finitely many funds, and finitely many holdings. *)
LEMMA HoldingsFinite ==
  ASSUME NEW D, D \subseteq Team \X FundId
  PROVE  IsFiniteSet(D)
<1>1. IsFiniteSet(FundId)
  <2>1. FundIds \in Seq(ToSet(FundIds)) /\ FundId = ToSet(FundIds)
    BY FundAssumption DEF FundId
  <2>2. PICK n \in Nat : DOMAIN FundIds = 1 .. n
    BY <2>1
  <2>3. IsFiniteSet(1 .. n)
    BY <2>2, FS_Interval
  <2>4. FundIds \in Surjection(1 .. n, FundId)
    BY <2>1, <2>2 DEF ToSet, Surjection
  <2>5. QED
    BY <2>3, <2>4, FS_Surjection
<1>2. IsFiniteSet(Team \X FundId)
  BY <1>1, FundAssumption, FS_Product
<1>3. QED
  BY <1>2, FS_Subset

LEMMA HoldingIs ==
  ASSUME NEW b, BookOK(b), NEW who, NEW f
  PROVE  HoldingIn(b, who, f) \in Held
BY DEF BookOK, HoldingIn, NoHolding, Held

LEMMA OwnedIs ==
  ASSUME NEW b, BookOK(b), NEW f
  PROVE  /\ OwnedIn(b.held, f) \in [{h \in DOMAIN b.held : h[2] = f} -> Nat]
         /\ IsFiniteSet({h \in DOMAIN b.held : h[2] = f})
<1>1. DOMAIN b.held \subseteq Team \X FundId /\ b.held \in [DOMAIN b.held -> Held]
  BY DEF BookOK, Held
<1>2. IsFiniteSet({h \in DOMAIN b.held : h[2] = f})
  <2>1. {h \in DOMAIN b.held : h[2] = f} \subseteq Team \X FundId
    BY <1>1
  <2>2. QED
    BY <2>1, HoldingsFinite
<1>3. \A k \in DOMAIN b.held : b.held[k].units \in Nat
  BY <1>1 DEF Held
<1>4. QED
  BY <1>2, <1>3 DEF OwnedIn

(* Somebody's holding becomes h. *)
OwnedMoves(b, f, who, h, held) ==
    /\ held \in [DOMAIN held -> Held] /\ DOMAIN held \subseteq Team \X DOMAIN b.funds
    /\ SumFunction(OwnedIn(b.held, f)) \in Nat
    /\ HoldingIn(b, who, f).units <= SumFunction(OwnedIn(b.held, f))
    /\ SumFunction(OwnedIn(held, f)) =
          SumFunction(OwnedIn(b.held, f)) + h.units - HoldingIn(b, who, f).units
    /\ \A x : x # f => OwnedIn(held, x) = OwnedIn(b.held, x)

LEMMA OwnedChanges ==
  ASSUME NEW b, BookOK(b), NEW f \in DOMAIN b.funds, NEW who \in Team, NEW h \in Held,
         NEW held, held = Put(b.held, <<who, f>>, h)
  PROVE  OwnedMoves(b, f, who, h, held)
<1>1. PICK k, D : k = <<who, f>> /\ D = DOMAIN b.held
  OBVIOUS
<1>2. /\ b.held \in [D -> Held] /\ D \subseteq Team \X DOMAIN b.funds
      /\ k[2] = f /\ k \in Team \X DOMAIN b.funds
  BY <1>1 DEF BookOK, Held
<1>3. /\ DOMAIN held = D \cup {k} /\ held = [x \in DOMAIN held |-> held[x]] /\ held[k] = h
      /\ \A x \in D : x # k => held[x] = b.held[x]
  BY <1>1 DEF Put
<1>4. held \in [DOMAIN held -> Held] /\ DOMAIN held \subseteq Team \X DOMAIN b.funds
  <2>1. \A x \in DOMAIN held : held[x] \in Held /\ x \in Team \X DOMAIN b.funds
    BY <1>2, <1>3
  <2>2. QED
    BY <1>3, <2>1
<1>5. PICK S, T : S = {x \in D : x[2] = f} /\ T = {x \in DOMAIN held : x[2] = f}
  OBVIOUS
<1>6. T = S \cup {k}
  <2>1. \A x : x \in T <=> x \in S \cup {k}
    BY <1>2, <1>3, <1>5
  <2>2. QED
    BY <2>1
<1>7. PICK g, e : g = OwnedIn(b.held, f) /\ e = OwnedIn(held, f)
  OBVIOUS
<1>8. g \in [S -> Nat] /\ IsFiniteSet(S)
  BY <1>1, <1>5, <1>7, OwnedIs
<1>9. e = [x \in T |-> held[x].units] /\ g = [x \in S |-> b.held[x].units]
  BY <1>1, <1>5, <1>7 DEF OwnedIn
<1>10. e \in [T -> Nat] /\ e[k] = h.units /\ h.units \in Nat
  <2>1. \A x \in T : held[x].units \in Nat
    BY <1>4, <1>5 DEF Held
  <2>2. k \in T
    BY <1>6
  <2>3. QED
    BY <1>3, <1>9, <2>1, <2>2 DEF Held
<1>11. \A x \in S : x # k => e[x] = g[x]
  BY <1>3, <1>5, <1>6, <1>9
<1>12. SumFunction(g) \in Nat /\ \A x \in S : g[x] <= SumFunction(g)
  BY <1>8, SumCovers
<1>13. SumMoves(g, e, S, k)
  <2>1. g \in [S -> Int] /\ e \in [T -> Int]
    BY <1>8, <1>10
  <2>2. QED
    BY <1>6, <1>8, <1>11, <2>1, SumChanges
<1>14. PICK u : u = HoldingIn(b, who, f).units
  OBVIOUS
<1>15. u <= SumFunction(g) /\ SumFunction(e) = SumFunction(g) + h.units - u
  <2>1. CASE k \in D
    <3>1. k \in S /\ u = g[k] /\ g[k] \in Nat
      BY <1>1, <1>2, <1>5, <1>8, <1>9, <1>14, <2>1 DEF HoldingIn
    <3>2. QED
      BY <1>10, <1>12, <1>13, <3>1 DEF SumMoves
  <2>2. CASE k \notin D
    <3>1. k \notin S /\ u = 0
      BY <1>1, <1>5, <1>14, <2>2 DEF HoldingIn, NoHolding
    <3>2. QED
      BY <1>10, <1>12, <1>13, <3>1 DEF SumMoves
  <2>3. QED
    BY <2>1, <2>2
<1>16. ASSUME NEW x, x # f PROVE OwnedIn(held, x) = OwnedIn(b.held, x)
  <2>1. {y \in DOMAIN held : y[2] = x} = {y \in D : y[2] = x}
    BY <1>2, <1>3, <1>16
  <2>2. \A y \in {z \in D : z[2] = x} : held[y] = b.held[y]
    BY <1>2, <1>3, <1>16
  <2>3. QED
    BY <1>1, <2>1, <2>2 DEF OwnedIn
<1>17. QED
  BY <1>4, <1>7, <1>12, <1>14, <1>15, <1>16 DEF OwnedMoves

(* A book in which one holding and its fund have changed together. *)
LEMMA HoldingFits ==
  ASSUME NEW b, BookFit(b), NEW f \in DOMAIN b.funds, NEW who \in Team, NEW h \in Held,
         NEW g, FundOK(g), g.mark = b.funds[f].mark,
         g.units = b.funds[f].units + h.units - HoldingIn(b, who, f).units,
         g.units = g.seeded + g.minted - g.redeemed,
         NEW d, BookWhole(d), SameFunds(b, d), d.funds = [b.funds EXCEPT ![f] = g],
         d.held = Put(b.held, <<who, f>>, h), d.checks = b.checks
  PROVE  BookFit(d)
<1>1. BookOK(b)
  BY DEF BookFit
<1>2. /\ d.held \in [DOMAIN d.held -> Held] /\ DOMAIN d.held \subseteq Team \X DOMAIN b.funds
      /\ SumFunction(OwnedIn(d.held, f)) =
            SumFunction(OwnedIn(b.held, f)) + h.units - HoldingIn(b, who, f).units
      /\ \A x : x # f => OwnedIn(d.held, x) = OwnedIn(b.held, x)
  <2>1. PICK hs : hs = Put(b.held, <<who, f>>, h)
    OBVIOUS
  <2>2. d.held = hs
    BY <2>1
  <2>3. OwnedMoves(b, f, who, h, hs)
    BY <1>1, <2>1, OwnedChanges
  <2>4. QED
    BY <2>2, <2>3 DEF OwnedMoves
<1>3. /\ DOMAIN d.funds = DOMAIN b.funds /\ d.funds[f] = g
      /\ \A x \in DOMAIN b.funds : x # f => d.funds[x] = b.funds[x]
      /\ \A x \in DOMAIN b.funds : d.funds[x].mark = b.funds[x].mark /\ FundOK(d.funds[x])
  BY <1>1 DEF BookOK
<1>4. BookOK(d)
  BY <1>1, <1>2, <1>3 DEF BookOK, BookWhole, SameFunds, Held
<1>5. UnitsIn(d)
  <2>1. ASSUME NEW x \in DOMAIN d.funds PROVE UnitsAt(d, x)
    <3>1. x \in DOMAIN b.funds /\ UnitsAt(b, x) /\ UnitsAt(b, f)
      BY <1>3, <2>1, UnitsAre DEF BookFit
    <3>2. CASE x = f
      BY <1>2, <1>3, <3>1, <3>2 DEF UnitsAt
    <3>3. CASE x # f
      BY <1>2, <1>3, <3>1, <3>3 DEF UnitsAt
    <3>4. QED
      BY <3>2, <3>3
  <2>2. QED
    BY <2>1, UnitsAre
<1>6. MarksIn(d)
  BY <1>1, <1>3 DEF BookFit, BookOK, MarksIn
<1>7. HighsIn(d)
  BY DEF BookFit, HighsIn
<1>8. QED
  BY <1>4, <1>5, <1>6, <1>7 DEF BookFit

LEMMA AllocFits ==
  ASSUME NEW b, BookFit(b), NEW ev, ev.op = "alloc", Accepts(b, ev), EventFit(b, ev)
  PROVE  BookFit(Apply(b, ev))
<1>1. PICK d, f, g, h : /\ d = Apply(b, ev) /\ f = ev.fund /\ g = b.funds[f]
                        /\ h = HoldingIn(b, ev.who, f)
  OBVIOUS
<1>2. f \in DOMAIN b.funds /\ BookOK(b) /\ BookWhole(b)
  BY <1>1, BookIsWhole DEF Accepts, BookFit
<1>3. ev.who \in Team /\ ev.units \in Nat /\ ev.amount \in Nat
  BY DEF EventFit
<1>4. PICK n : n = Minting(b.funds[f], ev.units)
  OBVIOUS
<1>5. PICK k : k = Buying(HoldingIn(b, ev.who, f), ev.units, ev.amount)
  OBVIOUS
<1>6. /\ BookWhole(d) /\ SameFunds(b, d) /\ d.funds = [b.funds EXCEPT ![f] = n]
      /\ d.held = Put(b.held, <<ev.who, f>>, k) /\ d.checks = b.checks
  <2>1. d.funds = [b.funds EXCEPT ![f] = n]
    <3>1. d.funds = Changed(b.funds, f, Minting(b.funds[f], ev.units))
      BY <1>1, <1>2, AllocBook
    <3>2. QED
      BY <1>4, <3>1 DEF Changed
  <2>2. d.held = Put(b.held, <<ev.who, f>>, k)
    BY <1>1, <1>2, <1>5, AllocBook
  <2>3. BookWhole(d) /\ SameFunds(b, d) /\ d.checks = b.checks
    BY <1>1, <1>2, AllocBook
  <2>4. QED
    BY <2>1, <2>2, <2>3
<1>7. FundOK(g) /\ UnitsAt(b, f)
  BY <1>1, <1>2, UnitsAre DEF BookFit, BookOK
<1>8. h \in Held
  BY <1>1, <1>2, HoldingIs
<1>9. k \in Held /\ k.units = h.units + ev.units
  <2>1. PICK x, y : x = h.units + ev.units /\ y = h.paid + ev.amount
    OBVIOUS
  <2>2. x \in Nat /\ y \in Int
    BY <1>3, <1>8, <2>1 DEF Held
  <2>3. k = [h EXCEPT !.units = x, !.paid = y]
    BY <1>1, <1>5, <2>1 DEF Buying
  <2>4. QED
    BY <1>8, <2>1, <2>2, <2>3 DEF Held
<1>10. /\ n = [g EXCEPT !.units = g.units + ev.units, !.minted = g.minted + ev.units]
       /\ g.units \in Int /\ g.minted \in Int /\ g.seeded \in Int /\ g.redeemed \in Int
  BY <1>1, <1>4, <1>7 DEF FundOK, Minting
<1>11. /\ FundOK(n) /\ n.mark = g.mark /\ n.units = g.units + ev.units
       /\ n.minted = g.minted + ev.units /\ n.seeded = g.seeded /\ n.redeemed = g.redeemed
  <2>1. PICK x, y : x = g.units + ev.units /\ y = g.minted + ev.units
    OBVIOUS
  <2>2. x \in Int /\ y \in Int
    BY <1>3, <1>10, <2>1
  <2>3. n = [g EXCEPT !.units = x, !.minted = y]
    BY <1>10, <2>1
  <2>4. QED
    BY <1>7, <2>1, <2>2, <2>3 DEF FundOK
<1>12. n.units = g.units + k.units - h.units /\ n.units = n.seeded + n.minted - n.redeemed
  <2>1. g.units = g.seeded + g.minted - g.redeemed /\ h.units \in Nat
    BY <1>1, <1>7, <1>8 DEF UnitsAt, Held
  <2>2. QED
    BY <1>3, <1>9, <1>10, <1>11, <2>1
<1>13. QED
  BY <1>1, <1>2, <1>3, <1>6, <1>9, <1>11, <1>12, HoldingFits

LEMMA RedeemFits ==
  ASSUME NEW b, BookFit(b), NEW ev, ev.op = "redeem", Accepts(b, ev), EventFit(b, ev)
  PROVE  BookFit(Apply(b, ev))
<1>1. PICK d, f, g, h : /\ d = Apply(b, ev) /\ f = ev.fund /\ g = b.funds[f]
                        /\ h = HoldingIn(b, ev.who, f)
  OBVIOUS
<1>2. f \in DOMAIN b.funds /\ BookOK(b) /\ BookWhole(b)
  BY <1>1, BookIsWhole DEF Accepts, BookFit
<1>3. ev.who \in Team /\ ev.units \in Nat /\ ev.amount \in Nat /\ ev.units <= h.units
  BY <1>1 DEF EventFit
<1>4. PICK n : n = Redeeming(b.funds[f], ev.units)
  OBVIOUS
<1>5. PICK k : k = Selling(HoldingIn(b, ev.who, f), ev.units, ev.amount)
  OBVIOUS
<1>6. /\ BookWhole(d) /\ SameFunds(b, d) /\ d.funds = [b.funds EXCEPT ![f] = n]
      /\ d.held = Put(b.held, <<ev.who, f>>, k) /\ d.checks = b.checks
  <2>1. d.funds = [b.funds EXCEPT ![f] = n]
    <3>1. d.funds = Changed(b.funds, f, Redeeming(b.funds[f], ev.units))
      BY <1>1, <1>2, RedeemBook
    <3>2. QED
      BY <1>4, <3>1 DEF Changed
  <2>2. d.held = Put(b.held, <<ev.who, f>>, k)
    BY <1>1, <1>2, <1>5, RedeemBook
  <2>3. BookWhole(d) /\ SameFunds(b, d) /\ d.checks = b.checks
    BY <1>1, <1>2, RedeemBook
  <2>4. QED
    BY <2>1, <2>2, <2>3
<1>7. FundOK(g) /\ UnitsAt(b, f)
  BY <1>1, <1>2, UnitsAre DEF BookFit, BookOK
<1>8. h \in Held /\ h.units \in Nat
  BY <1>1, <1>2, HoldingIs DEF Held
<1>9. h.units <= g.units /\ g.units \in Nat
  <2>1. SumFunction(OwnedIn(b.held, f)) \in Nat /\ h.units <= SumFunction(OwnedIn(b.held, f))
    BY <1>1, <1>2, <1>3, <1>8, OwnedChanges DEF OwnedMoves
  <2>2. QED
    BY <1>1, <1>7, <2>1 DEF UnitsAt
<1>10. Less(h.units, ev.units) = h.units - ev.units /\ Less(g.units, ev.units) = g.units - ev.units
  BY <1>3, <1>8, <1>9 DEF Less
<1>11. k \in Held /\ k.units = h.units - ev.units
  <2>1. PICK x, y : x = h.units - ev.units /\ y = h.back + ev.amount
    OBVIOUS
  <2>2. x \in Nat /\ y \in Int
    BY <1>3, <1>8, <2>1 DEF Held
  <2>3. k = [h EXCEPT !.units = x, !.back = y]
    BY <1>1, <1>5, <1>10, <2>1 DEF Selling
  <2>4. QED
    BY <1>8, <2>1, <2>2, <2>3 DEF Held
<1>12. /\ n = [g EXCEPT !.units = g.units - ev.units, !.redeemed = g.redeemed + ev.units]
       /\ g.units \in Int /\ g.minted \in Int /\ g.seeded \in Int /\ g.redeemed \in Int
  BY <1>1, <1>4, <1>7, <1>10 DEF FundOK, Redeeming
<1>13. /\ FundOK(n) /\ n.mark = g.mark /\ n.units = g.units - ev.units
       /\ n.minted = g.minted /\ n.seeded = g.seeded /\ n.redeemed = g.redeemed + ev.units
  <2>1. PICK x, y : x = g.units - ev.units /\ y = g.redeemed + ev.units
    OBVIOUS
  <2>2. x \in Int /\ y \in Int
    BY <1>3, <1>12, <2>1
  <2>3. n = [g EXCEPT !.units = x, !.redeemed = y]
    BY <1>12, <2>1
  <2>4. QED
    BY <1>7, <2>1, <2>2, <2>3 DEF FundOK
<1>14. n.units = g.units + k.units - h.units /\ n.units = n.seeded + n.minted - n.redeemed
  <2>1. g.units = g.seeded + g.minted - g.redeemed
    BY <1>1, <1>7 DEF UnitsAt
  <2>2. QED
    BY <1>3, <1>8, <1>11, <1>12, <1>13, <2>1
<1>15. QED
  BY <1>1, <1>2, <1>3, <1>6, <1>11, <1>13, <1>14, HoldingFits

(* New funds: every team that brought something holds its units. *)
LEMMA SeedIs ==
  ASSUME NEW funds, NEW seeds, SeedsFit(funds, seeds), NEW i \in DOMAIN seeds
  PROVE  /\ seeds[i] \in ToSet(seeds) /\ seeds[i].fund \in funds /\ seeds[i].team \in Team
         /\ seeds[i].amount \in Int /\ seeds[i].units \in Nat
         /\ SeedOf(seeds, <<seeds[i].team, seeds[i].fund>>) = seeds[i]
<1>1. PICK k, x : k = <<seeds[i].team, seeds[i].fund>> /\ x = SeedOf(seeds, k)
  OBVIOUS
<1>2. seeds[i] \in [fund : funds, team : Team, amount : Int, units : Nat]
  <2>1. PICK R : R = [fund : funds, team : Team, amount : Int, units : Nat]
    OBVIOUS
  <2>2. seeds \in Seq(R)
    BY <2>1 DEF SeedsFit
  <2>3. seeds[i] \in R
    BY <2>2
  <2>4. QED
    BY <2>1, <2>3
<1>3. seeds[i] \in ToSet(seeds)
  BY DEF ToSet
<1>4. x \in ToSet(seeds) /\ <<x.team, x.fund>> = k
  BY <1>1, <1>3 DEF SeedOf
<1>5. PICK j \in DOMAIN seeds : x = seeds[j]
  BY <1>4 DEF ToSet
<1>6. j = i
  BY <1>1, <1>4, <1>5 DEF SeedsFit
<1>7. QED
  BY <1>1, <1>2, <1>3, <1>5, <1>6

LEMMA SeedsHeld ==
  ASSUME NEW funds, NEW seeds, SeedsFit(funds, seeds)
  PROVE  LET held == HeldBy(seeds)
         IN  /\ held \in [DOMAIN held -> Held] /\ DOMAIN held \subseteq Team \X funds
             /\ \A f : SumFunction(OwnedIn(held, f)) = Brought(seeds, f)
             /\ \A f : Brought(seeds, f) \in Int
<1>0. PICK held : held = [k \in {<<s.team, s.fund>> : s \in ToSet(seeds)} |->
                    [units |-> SeedOf(seeds, k).units, paid |-> SeedOf(seeds, k).amount,
                     back |-> 0, seed |-> TRUE]]
  OBVIOUS
<1>1. \A k \in DOMAIN held : \E i \in DOMAIN seeds : k = <<seeds[i].team, seeds[i].fund>>
  BY <1>0 DEF ToSet
<1>2. ASSUME NEW i \in DOMAIN seeds
      PROVE  /\ <<seeds[i].team, seeds[i].fund>> \in DOMAIN held
             /\ held[<<seeds[i].team, seeds[i].fund>>].units = seeds[i].units
             /\ held[<<seeds[i].team, seeds[i].fund>>] \in Held
             /\ <<seeds[i].team, seeds[i].fund>> \in Team \X funds
  <2>1. /\ seeds[i] \in ToSet(seeds) /\ seeds[i].fund \in funds /\ seeds[i].team \in Team
        /\ seeds[i].amount \in Int /\ seeds[i].units \in Nat
        /\ SeedOf(seeds, <<seeds[i].team, seeds[i].fund>>) = seeds[i]
    BY SeedIs
  <2>2. <<seeds[i].team, seeds[i].fund>> \in DOMAIN held
    BY <1>0, <2>1
  <2>3. held[<<seeds[i].team, seeds[i].fund>>] =
           [units |-> seeds[i].units, paid |-> seeds[i].amount, back |-> 0, seed |-> TRUE]
    BY <1>0, <2>1, <2>2
  <2>4. QED
    BY <2>1, <2>2, <2>3 DEF Held
<1>3. held \in [DOMAIN held -> Held] /\ DOMAIN held \subseteq Team \X funds
  <2>1. held = [k \in DOMAIN held |-> held[k]]
    BY <1>0
  <2>2. \A k \in DOMAIN held : held[k] \in Held /\ k \in Team \X funds
    BY <1>1, <1>2
  <2>3. QED
    BY <2>1, <2>2
<1>4. ASSUME NEW f
      PROVE  SumFunction(OwnedIn(held, f)) = Brought(seeds, f) /\ Brought(seeds, f) \in Int
  <2>1. PICK S, T : /\ S = {n \in DOMAIN seeds : seeds[n].fund = f}
                    /\ T = {k \in DOMAIN held : k[2] = f}
    OBVIOUS
  <2>2. PICK b, o : b = [n \in S |-> seeds[n].units] /\ o = OwnedIn(held, f)
    OBVIOUS
  <2>3. PICK h : h = [n \in S |-> <<seeds[n].team, seeds[n].fund>>]
    OBVIOUS
  <2>4. IsFiniteSet(S)
    <3>1. PICK n \in Nat : DOMAIN seeds = 1 .. n
      BY DEF SeedsFit
    <3>2. IsFiniteSet(1 .. n)
      BY <3>1, FS_Interval
    <3>3. QED
      BY <2>1, <3>1, <3>2, FS_Subset
  <2>5. h \in [S -> T]
    <3>1. \A n \in S : <<seeds[n].team, seeds[n].fund>> \in T
      BY <1>2, <2>1
    <3>2. QED
      BY <2>3, <3>1
  <2>6. \A x, y \in S : h[x] = h[y] => x = y
    BY <2>1, <2>3 DEF SeedsFit
  <2>7. \A z \in T : \E x \in S : h[x] = z
    <3>1. ASSUME NEW z \in T PROVE \E x \in S : h[x] = z
      <4>1. PICK i \in DOMAIN seeds : z = <<seeds[i].team, seeds[i].fund>>
        BY <1>1, <2>1
      <4>2. i \in S
        BY <2>1, <4>1
      <4>3. QED
        BY <2>3, <4>1, <4>2
    <3>2. QED
      BY <3>1
  <2>8. b \in [S -> Int]
    <3>1. ASSUME NEW n \in S PROVE seeds[n].units \in Int
      <4>1. n \in DOMAIN seeds
        BY <2>1
      <4>2. seeds[n].units \in Nat
        BY <4>1, SeedIs
      <4>3. QED
        BY <4>2
    <3>2. QED
      BY <2>2, <3>1
  <2>9. o \in [T -> Int]
    <3>1. \A k \in T : held[k].units \in Int
      BY <1>3, <2>1 DEF Held
    <3>2. QED
      BY <2>1, <2>2, <3>1 DEF OwnedIn
  <2>10. \A x \in S : o[h[x]] = b[x]
    <3>1. ASSUME NEW x \in S PROVE o[h[x]] = b[x]
      <4>1. h[x] \in T /\ h[x] = <<seeds[x].team, seeds[x].fund>> /\ x \in DOMAIN seeds
        BY <2>1, <2>3, <2>5
      <4>2. o[h[x]] = held[h[x]].units
        BY <2>1, <2>2, <4>1 DEF OwnedIn
      <4>3. QED
        BY <1>2, <2>2, <4>1, <4>2
    <3>2. QED
      BY <3>1
  <2> HIDE <1>0
  <2>11. SumFunction(o) = SumFunction(b)
    <3>1. Renamed(S, T, h, b, o)
      BY <2>4, <2>5, <2>6, <2>7, <2>8, <2>9, <2>10 DEF Renamed
    <3>2. QED
      BY <3>1, SumSame
  <2>12. SumFunction(b) \in Int
    BY <2>4, <2>8, SumType
  <2>13. Brought(seeds, f) = SumFunction(b)
    BY <2>1, <2>2 DEF Brought
  <2>14. QED
    BY <2>2, <2>11, <2>12, <2>13
<1>5. held = HeldBy(seeds)
  BY <1>0 DEF HeldBy
<1>6. QED
  BY <1>3, <1>4, <1>5

LEMMA LaunchedFits ==
  ASSUME NEW f, f \in [account : FundId, members : Team \X Team, trader : Team], NEW n \in Int
  PROVE  LET g == Seeded(f, n)
         IN  FundOK(g) /\ g.units = n /\ g.seeded = n /\ g.minted = 0 /\ g.redeemed = 0
<1>1. PICK g : g = Launched(f)
  OBVIOUS
<1>2. PICK e : e = <<>>
  OBVIOUS
<1>3. e \in Seq(Int)
  BY <1>2
<1>4. g = [account |-> f.account, members |-> f.members, trader |-> f.trader,
           fee |-> 0, units |-> 0, seeded |-> 0, minted |-> 0, redeemed |-> 0,
           active |-> TRUE, mark |-> LaunchNAV, peak |-> LaunchNAV,
           fall |-> [of |-> 0, per |-> 1], aums |-> e]
  BY <1>1, <1>2 DEF Launched
<1>5. LaunchNAV \in Rate
  BY DEF LaunchNAV, Rate
<1>6. FundOK(g) /\ g.minted = 0 /\ g.redeemed = 0
  BY <1>3, <1>4, <1>5 DEF FundOK
<1>7. PICK h : h = [g EXCEPT !.units = n, !.seeded = n]
  OBVIOUS
<1>8. FundOK(h) /\ h.units = n /\ h.seeded = n /\ h.minted = 0 /\ h.redeemed = 0
  BY <1>6, <1>7 DEF FundOK
<1>9. Seeded(f, n) = h
  BY <1>1, <1>7 DEF Seeded
<1>10. QED
  BY <1>8, <1>9

LEMMA FormFits ==
  ASSUME NEW b, BookFit(b), NEW ev, ev.op = "formed", Accepts(b, ev), NEW l, FormFit(l, ev)
  PROVE  BookFit(Apply(b, ev)) /\ DOMAIN Apply(b, ev).funds = DOMAIN ev.funds
<1>1. PICK d : d = Apply(b, ev)
  OBVIOUS
<1>2. BookOK(b) /\ BookWhole(b) /\ DOMAIN b.funds = {}
  BY BookIsWhole DEF BookFit, BookOK, Accepts
<1>3. Listed(ev.moves)
  BY SequencesOwn DEF FormFit, Listed
<1>4. /\ BookWhole(d) /\ DOMAIN d.funds = DOMAIN ev.funds
      /\ \A f \in DOMAIN ev.funds : d.funds[f] = Seeded(ev.funds[f], Brought(ev.seeds, f))
      /\ d.held = HeldBy(ev.seeds)
      /\ d.checks = b.checks /\ d.moves = ev.moves /\ d.formed = TRUE
  <2>1. LET e == Apply(b, ev)
        IN  /\ BookWhole(e)
            /\ DOMAIN e.funds = DOMAIN ev.funds
            /\ \A f \in DOMAIN ev.funds :
                  e.funds[f] = Seeded(ev.funds[f], Brought(ev.seeds, f))
            /\ e.held = HeldBy(ev.seeds)
            /\ e.checks = b.checks /\ e.moves = ev.moves /\ e.formed = TRUE
    BY <1>2, <1>3, FormBook, Zenon
  <2>2. QED
    BY <1>1, <2>1
<1>5. SeedsFit(DOMAIN ev.funds, ev.seeds)
  BY DEF FormFit
<1>6. /\ d.held \in [DOMAIN d.held -> Held] /\ DOMAIN d.held \subseteq Team \X DOMAIN ev.funds
      /\ \A f : SumFunction(OwnedIn(d.held, f)) = Brought(ev.seeds, f)
      /\ \A f : Brought(ev.seeds, f) \in Int
  BY <1>4, <1>5, SeedsHeld
<1>7. ASSUME NEW f \in DOMAIN ev.funds PROVE FundOK(d.funds[f]) /\ UnitsAt(d, f)
  <2>1. PICK n, g : n = Brought(ev.seeds, f) /\ g = ev.funds[f]
    OBVIOUS
  <2>2. n \in Int /\ n = SumFunction(OwnedIn(d.held, f))
    BY <1>6, <2>1
  <2>3. g \in [account : FundId, members : Team \X Team, trader : Team]
    BY <2>1 DEF FormFit
  <2>4. d.funds[f] = Seeded(g, n)
    BY <1>4, <2>1
  <2>5. /\ FundOK(d.funds[f]) /\ d.funds[f].units = n /\ d.funds[f].seeded = n
        /\ d.funds[f].minted = 0 /\ d.funds[f].redeemed = 0
    BY <2>2, <2>3, <2>4, LaunchedFits
  <2>6. QED
    BY <2>2, <2>5 DEF UnitsAt
<1>8. UnitsIn(d)
  BY <1>4, <1>7, UnitsAre
<1>9. \A x \in ToSet(b.checks) : CheckOK(x) /\ DOMAIN x.funds = {}
  BY <1>2 DEF BookOK
<1>10. BookOK(d)
  <2>1. /\ d.moves \in Seq(Given) /\ DOMAIN d.funds \subseteq FundId /\ d.formed = TRUE
    BY <1>4 DEF FormFit
  <2>2. \A f \in DOMAIN d.funds : FundOK(d.funds[f])
    BY <1>4, <1>7
  <2>3. /\ d.held \in [DOMAIN d.held -> Held] /\ DOMAIN d.held \subseteq Team \X DOMAIN d.funds
    BY <1>4, <1>6
  <2>4. /\ d.checks \in Seq(ToSet(d.checks))
        /\ \A x \in ToSet(d.checks) : CheckOK(x) /\ DOMAIN x.funds \subseteq DOMAIN d.funds
    BY <1>2, <1>4, <1>9 DEF BookOK
  <2>5. QED
    BY <1>4, <2>1, <2>2, <2>3, <2>4 DEF BookOK, BookWhole, Held
<1>11. MarksIn(d)
  BY <1>4, <1>9 DEF MarksIn
<1>12. HighsIn(d)
  BY <1>4 DEF BookFit, HighsIn
<1>13. QED
  BY <1>1, <1>4, <1>8, <1>10, <1>11, <1>12 DEF BookFit

(* What has been worked out for an event keeps the book in order. *)
ReadyFor(b, l, ev) ==
    /\ Accepts(b, ev) /\ ev.op \in Events
    /\ ev.op \notin {"formed", "dissolve"} => EventFit(b, ev)
    /\ ev.op = "formed" => FormFit(l, ev)
    /\ ev.op = "dissolve" => ev.moves \in Seq({m \in Move : m.from \in FundId})

LEMMA ApplyFits ==
  ASSUME NEW b, BookFit(b), NEW l, NEW ev, ReadyFor(b, l, ev)
  PROVE  BookFit(Apply(b, ev))
<1>1. CASE ev.op = "formed"
  BY <1>1, FormFits DEF ReadyFor
<1>2. CASE ev.op = "dissolve"
  BY <1>2, EmptyFits DEF Apply
<1>3. CASE ev.op \in {"profile", "trader", "fundDQ"}
  <2>1. ev.fund \in DOMAIN b.funds
    BY <1>3 DEF Accepts, ReadyFor
  <2>2. QED
    BY <1>3, <2>1, OneFundFits DEF ReadyFor
<1>4. CASE ev.op = "alloc"
  BY <1>4, AllocFits DEF ReadyFor
<1>5. CASE ev.op = "redeem"
  BY <1>5, RedeemFits DEF ReadyFor
<1>6. CASE ev.op = "series"
  BY <1>6, SampleFits DEF ReadyFor
<1>7. CASE ev.op = "checkpoint"
  BY <1>7, CheckFits DEF ReadyFor
<1>8. CASE ev.op = "log"
  BY <1>8, LogFits
<1>9. QED
  BY <1>1, <1>2, <1>3, <1>4, <1>5, <1>6, <1>7, <1>8 DEF Events, ReadyFor

-----------------------------------------------------------------------------
(* What an event leaves of the accounts. *)
LEMMA FundsApart == \A f \in FundId : f \notin Team
BY FundAssumption DEF FundId

LEMMA OpenedFits ==
  ASSUME NEW n \in Nat
  PROVE  Opened(n) \in Wallet /\ Opened(n).cash = n
<1>1. PICK e : e = <<>>
  OBVIOUS
<1>2. e \in [{} -> Lot]
  BY <1>1
<1>3. Opened(n) = [cash |-> n, pos |-> e]
  BY <1>1 DEF Opened
<1>4. QED
  BY <1>2, <1>3 DEF Wallet

(* More money in the teams' accounts lets them pay as before. *)
LEMMA StillPayable ==
  ASSUME NEW l, NEW k, AcctsOK(l), AcctsOK(k), \A t \in Team : k[t].cash >= l[t].cash,
         NEW s, Payable(l, s)
  PROVE  Payable(k, s)
<1>1. ASSUME NEW i \in DOMAIN s, s[i].from \in Team, s[i].cash > 0
      PROVE  s[i].cash <= k[s[i].from].cash
  <2>1. s[i].cash \in Nat
    <3>1. s[i] \in Move
      BY DEF Payable
    <3>2. QED
      BY <3>1 DEF Move
  <2>2. k[s[i].from].cash \in Int /\ l[s[i].from].cash \in Int
    BY <1>1 DEF AcctsOK, Wallet
  <2>3. s[i].cash <= l[s[i].from].cash
    BY <1>1 DEF Payable
  <2>4. k[s[i].from].cash >= l[s[i].from].cash
    BY <1>1
  <2>5. QED
    BY <2>1, <2>2, <2>3, <2>4
<1>2. QED
  BY <1>1 DEF Payable

LEMMA OpenFits ==
  ASSUME NEW l, AcctsOK(l), NEW ids, ids \subseteq FundId
  PROVE  /\ AcctsOK(WithFunds(l, ids)) /\ DOMAIN WithFunds(l, ids) = DOMAIN l \cup ids
         /\ \A t \in Team : WithFunds(l, ids)[t].cash >= l[t].cash
<1>1. PICK k : k = WithFunds(l, ids)
  OBVIOUS
<1>2. k = [x \in ids \cup DOMAIN l |-> IF x \in ids THEN Opened(0) ELSE l[x]]
  BY <1>1 DEF WithFunds, Over
<1>3. Opened(0) \in Wallet
  BY OpenedFits
<1>4. \A t \in Team : t \in DOMAIN k /\ k[t] = l[t]
  BY <1>2, FundsApart DEF AcctsOK
<1>5. \A x \in DOMAIN k : k[x] \in Wallet
  BY <1>2, <1>3 DEF AcctsOK
<1>6. DOMAIN k = DOMAIN l \cup ids /\ DOMAIN k \subseteq Account
  BY <1>2 DEF AcctsOK, Account
<1>7. k = [x \in DOMAIN k |-> k[x]]
  BY <1>2
<1>8. \A t \in Team : k[t].cash >= 0 /\ k[t].cash >= l[t].cash
  BY <1>4 DEF AcctsOK, Wallet
<1>9. AcctsOK(k)
  BY <1>4, <1>5, <1>6, <1>7, <1>8 DEF AcctsOK
<1>10. QED
  BY <1>1, <1>6, <1>8, <1>9

LEMMA ClosedFits ==
  ASSUME NEW l, AcctsOK(l), NEW ids, ids \subseteq FundId
  PROVE  AcctsOK(Removed(l, ids)) /\ DOMAIN Removed(l, ids) = DOMAIN l \ ids
<1>1. PICK k : k = [a \in DOMAIN l \ ids |-> l[a]]
  OBVIOUS
<1>2. \A t \in Team : t \notin ids
  BY FundsApart
<1>3. AcctsOK(k) /\ DOMAIN k = DOMAIN l \ ids
  BY <1>1, <1>2 DEF AcctsOK
<1>4. QED
  BY <1>1, <1>3 DEF Removed

LEMMA BackPayable ==
  ASSUME NEW l, NEW s, s \in Seq({m \in Move : m.from \in FundId})
  PROVE  Payable(l, s)
<1>1. PICK R : R = {m \in Move : m.from \in FundId}
  OBVIOUS
<1>2. s \in Seq(R) /\ R \subseteq Move
  BY <1>1
<1>3. s \in Seq(Move) /\ \A i \in DOMAIN s : s[i] \in R
  BY <1>2
<1>4. \A i \in DOMAIN s : s[i].from \notin Team
  BY <1>1, <1>3, FundsApart
<1>5. QED
  BY <1>3, <1>4 DEF Payable

(* Both the accounts and the book, as the replay of an event leaves them. *)
Sound(l, b) == AcctsOK(l) /\ BookFit(b) /\ DOMAIN b.funds \subseteq DOMAIN l

LEMMA AffordsIs ==
  ASSUME NEW l, AcctsOK(l), NEW a \in DOMAIN l, NEW n \in Nat
  PROVE  Affords(l[a], n) <=> n <= l[a].cash
<1>1. l[a].cash \in Int
  BY DEF AcctsOK, Wallet
<1>2. QED
  BY <1>1 DEF Affords

LEMMA SettledFits ==
  ASSUME NEW s, Sound(s.ledger, s.book), NEW ev, ReadyFor(s.book, s.ledger, ev),
         ev.op = "alloc" => Affords(s.ledger[ev.who], ev.amount),
         ev.op = "redeem" => Affords(s.ledger[ev.fund], ev.amount)
  PROVE  Sound(Settled(s, ev), Apply(s.book, ev))
<1>1. PICK l, b : l = s.ledger /\ b = s.book
  OBVIOUS
<1>2. AcctsOK(l) /\ BookFit(b) /\ DOMAIN b.funds \subseteq DOMAIN l /\ BookWhole(b)
  BY <1>1, BookIsWhole DEF Sound, BookFit
<1>3. ReadyFor(b, l, ev) /\ BookFit(Apply(b, ev))
  BY <1>1, <1>2, ApplyFits
<1>4. CASE ev.op = "formed"
  <2>1. PICK k : k = WithFunds(l, DOMAIN ev.funds)
    OBVIOUS
  <2>2. FormFit(l, ev)
    BY <1>3, <1>4 DEF ReadyFor
  <2>3. AcctsOK(k) /\ DOMAIN k = DOMAIN l \cup DOMAIN ev.funds /\ Payable(k, ev.moves)
    <3>1. DOMAIN ev.funds \subseteq FundId /\ Payable(l, ev.moves)
      BY <2>2 DEF FormFit
    <3>2. /\ AcctsOK(k) /\ DOMAIN k = DOMAIN l \cup DOMAIN ev.funds
          /\ \A t \in Team : k[t].cash >= l[t].cash
      BY <1>2, <2>1, <3>1, OpenFits
    <3>3. QED
      BY <1>2, <3>1, <3>2, StillPayable
  <2>4. Settled(s, ev) = AfterMoves(k, ev.moves)
    BY <1>1, <1>4, <2>1 DEF Settled
  <2>5. AcctsOK(Settled(s, ev)) /\ DOMAIN Settled(s, ev) = DOMAIN l \cup DOMAIN ev.funds
    BY <2>3, <2>4, PayableAll
  <2>6. DOMAIN Apply(b, ev).funds = DOMAIN ev.funds
    BY <1>2, <1>3, <1>4, <2>2, FormFits DEF ReadyFor
  <2>7. QED
    BY <1>1, <1>3, <2>5, <2>6 DEF Sound
<1>5. CASE ev.op = "dissolve"
  <2>1. Payable(l, ev.moves)
    BY <1>3, <1>5, BackPayable DEF ReadyFor
  <2>2. PICK k : k = AfterMoves(l, ev.moves)
    OBVIOUS
  <2>3. AcctsOK(k)
    BY <1>2, <2>1, <2>2, PayableAll
  <2>4. PICK ids : ids = DOMAIN b.funds
    OBVIOUS
  <2>5. Settled(s, ev) = Removed(k, ids)
    BY <1>1, <1>5, <2>2, <2>4 DEF Settled
  <2>6. AcctsOK(Settled(s, ev))
    <3>1. ids \subseteq FundId
      BY <1>2, <2>4 DEF BookFit, BookOK
    <3>2. AcctsOK(Removed(k, ids))
      BY <2>3, <3>1, ClosedFits
    <3>3. QED
      BY <2>5, <3>2
  <2>7. DOMAIN Apply(b, ev).funds = {}
    BY <1>5, EmptyBook DEF Apply
  <2>8. QED
    BY <1>1, <1>3, <2>6, <2>7 DEF Sound
<1>6. ASSUME ev.op \notin {"formed", "dissolve"}
      PROVE  DOMAIN Apply(b, ev).funds = DOMAIN b.funds
  <2>1. SameFunds(b, Apply(b, ev))
    BY <1>2, <1>3, <1>6, ApplyWhole DEF ReadyFor
  <2>2. QED
    BY <2>1 DEF SameFunds
<1>7. CASE ev.op \in {"alloc", "redeem"}
  <2>1. /\ ev.who \in Team /\ ev.amount \in Nat /\ ev.fund \in DOMAIN b.funds
    BY <1>3, <1>7 DEF ReadyFor, EventFit, Accepts
  <2>2. ev.who \in DOMAIN l /\ ev.fund \in DOMAIN l
    BY <1>2, <2>1 DEF AcctsOK
  <2>3. PICK from, to : /\ Settled(s, ev) = MoveCash(l, from, to, ev.amount)
                        /\ ev.amount <= l[from].cash
    <3>1. CASE ev.op = "alloc"
      <4>1. Settled(s, ev) = MoveCash(l, ev.who, ev.fund, ev.amount)
        BY <1>1, <3>1 DEF Settled
      <4>2. ev.amount <= l[ev.who].cash
        BY <1>1, <1>2, <2>1, <2>2, <3>1, AffordsIs
      <4>3. QED
        BY <4>1, <4>2
    <3>2. CASE ev.op = "redeem"
      <4>1. Settled(s, ev) = MoveCash(l, ev.fund, ev.who, ev.amount)
        BY <1>1, <3>2 DEF Settled
      <4>2. ev.amount <= l[ev.fund].cash
        BY <1>1, <1>2, <2>1, <2>2, <3>2, AffordsIs
      <4>3. QED
        BY <4>1, <4>2
    <3>3. QED
      BY <1>7, <3>1, <3>2
  <2>4. AcctsOK(Settled(s, ev)) /\ DOMAIN Settled(s, ev) = DOMAIN l
    BY <1>2, <2>1, <2>3, CashFits
  <2>5. QED
    BY <1>1, <1>2, <1>3, <1>6, <1>7, <2>4 DEF Sound
<1>8. CASE ev.op \notin {"formed", "dissolve", "alloc", "redeem"}
  <2>1. Settled(s, ev) = l
    BY <1>1, <1>8 DEF Settled
  <2>2. QED
    BY <1>1, <1>2, <1>3, <1>6, <1>8, <2>1 DEF Sound
<1>9. QED
  BY <1>4, <1>5, <1>7, <1>8

-----------------------------------------------------------------------------
(* What a record of the log leaves of the state. *)
LEMMA StateFitIs ==
  ASSUME NEW s
  PROVE  StateFit(s) <=> /\ Whole(s) /\ Sound(s.ledger, s.book)
                         /\ s.role \in [Team -> {"investor", "manager"}]
                         /\ s.traded \subseteq Account /\ s.ok \in BOOLEAN
BY DEF StateFit, StateOK, InOrder, Whole, Sound, AcctsOK, BookFit

TradeRecord(t) ==
    /\ t.kind = "trade" /\ t.sym = Sym /\ t.qty \in Nat /\ t.price \in Nat
    /\ t.buy \in BOOLEAN

LEMMA AcctTraded ==
  ASSUME NEW l, AcctsOK(l), NEW t, TradeRecord(t), t.acct \in DOMAIN l,
         TradeAllowed(l[t.acct], t)
  PROVE  LET k == [l EXCEPT ![t.acct] = AfterTrade(l[t.acct], t)]
         IN  AcctsOK(k) /\ DOMAIN k = DOMAIN l
<1>1. PICK a, w : a = l[t.acct] /\ w = AfterTrade(a, t)
  OBVIOUS
<1>2. a \in Wallet /\ (t.acct \in Team => a.cash >= 0)
  BY <1>1 DEF AcctsOK
<1>3. w \in Wallet /\ (a.cash >= 0 => w.cash >= 0)
  BY <1>1, <1>2, TradeFits DEF TradeRecord
<1>4. PICK x : x = t.acct
  OBVIOUS
<1>5. AcctsOK([l EXCEPT ![x] = w]) /\ DOMAIN [l EXCEPT ![x] = w] = DOMAIN l
  BY <1>2, <1>3, <1>4, AcctChanges
<1>6. QED
  BY <1>1, <1>4, <1>5

LEMMA TradeLogged ==
  ASSUME LogGood, StateFit(Rebuilt(log)), NEW t, TradeRecord(t),
         t.acct \in DOMAIN Rebuilt(log).ledger,
         TradeAllowed(Rebuilt(log).ledger[t.acct], t), log' = Append(log, t)
  PROVE  StateFit(Rebuilt(log'))
<1>1. PICK s, r : s = Rebuilt(log) /\ r = Rebuilt(log')
  OBVIOUS
<1>2. PICK k : k = [s.ledger EXCEPT ![t.acct] = AfterTrade(s.ledger[t.acct], t)]
  OBVIOUS
<1>3. r = [ledger |-> k, book |-> s.book, role |-> s.role, traded |-> s.traded \cup {t.acct},
           ok |-> s.ok]
  BY <1>1, <1>2, GrowsByTrade DEF TradeRecord
<1>4. /\ AcctsOK(s.ledger) /\ BookFit(s.book) /\ DOMAIN s.book.funds \subseteq DOMAIN s.ledger
      /\ s.role \in [Team -> {"investor", "manager"}]
      /\ s.traded \subseteq Account /\ s.ok \in BOOLEAN
  BY <1>1, StateFitIs DEF Sound
<1>5. AcctsOK(k) /\ DOMAIN k = DOMAIN s.ledger
  BY <1>1, <1>2, <1>4, AcctTraded
<1>6. t.acct \in Account
  BY <1>1, <1>4 DEF AcctsOK
<1>7. StateFit(r)
  BY <1>3, <1>4, <1>5, <1>6, StateFitIs DEF Whole, Sound
<1>8. QED
  BY <1>1, <1>7

LEMMA RoleLogged ==
  ASSUME LogGood, StateFit(Rebuilt(log)), NEW u \in Team, NEW p \in {"investor", "manager"},
         log' = Append(log, [kind |-> "role", who |-> u, role |-> p])
  PROVE  StateFit(Rebuilt(log'))
<1>1. PICK s, r : s = Rebuilt(log) /\ r = Rebuilt(log')
  OBVIOUS
<1>2. PICK k : k = [s.role EXCEPT ![u] = p]
  OBVIOUS
<1>3. r = [ledger |-> s.ledger, book |-> s.book, role |-> k, traded |-> s.traded, ok |-> s.ok]
  BY <1>1, <1>2, GrowsByRole
<1>4. /\ AcctsOK(s.ledger) /\ BookFit(s.book) /\ DOMAIN s.book.funds \subseteq DOMAIN s.ledger
      /\ s.role \in [Team -> {"investor", "manager"}]
      /\ s.traded \subseteq Account /\ s.ok \in BOOLEAN
  BY <1>1, StateFitIs DEF Sound
<1>5. k \in [Team -> {"investor", "manager"}]
  BY <1>2, <1>4
<1>6. StateFit(r)
  BY <1>3, <1>4, <1>5, StateFitIs DEF Whole, Sound
<1>7. QED
  BY <1>1, <1>6

LEMMA EventLogged ==
  ASSUME LogGood, StateFit(Rebuilt(log)), NEW ev,
         ReadyFor(Rebuilt(log).book, Rebuilt(log).ledger, ev),
         ev.op = "alloc" => Affords(Rebuilt(log).ledger[ev.who], ev.amount),
         ev.op = "redeem" => Affords(Rebuilt(log).ledger[ev.fund], ev.amount),
         log' = Append(log, FundRecord(ev))
  PROVE  StateFit(Rebuilt(log'))
<1>1. PICK s, r : s = Rebuilt(log) /\ r = Rebuilt(log')
  OBVIOUS
<1>2. /\ Sound(s.ledger, s.book)
      /\ s.role \in [Team -> {"investor", "manager"}]
      /\ s.traded \subseteq Account /\ s.ok \in BOOLEAN
  BY <1>1, StateFitIs
<1>3. PICK l, b : l = Settled(s, ev) /\ b = Apply(s.book, ev)
  OBVIOUS
<1>4. Sound(l, b)
  BY <1>1, <1>2, <1>3, SettledFits
<1>5. ev.op = "formed" => Listed(ev.moves)
  BY SequencesOwn DEF ReadyFor, FormFit, Listed
<1>6. Accepts(s.book, ev) /\ ev.op \in Events
  BY <1>1 DEF ReadyFor
<1>7. r = [ledger |-> l, book |-> b, role |-> s.role, traded |-> s.traded, ok |-> s.ok]
  BY <1>1, <1>3, <1>5, <1>6, GrowsByEvent
<1>8. StateFit(r)
  BY <1>2, <1>4, <1>7, StateFitIs DEF Whole
<1>9. QED
  BY <1>1, <1>8

LEMMA StillLogged ==
  ASSUME StateFit(Rebuilt(log)), log' = log
  PROVE  StateFit(Rebuilt(log'))
OBVIOUS

-----------------------------------------------------------------------------
(* What the other calls have worked out stays true. *)
LEMMA ElseFits ==
  ASSUME Shapes, NEW c \in Call, Moved1(c), \A d \in Call : Fits(d),
         \/ book' = book /\ ledger' = ledger
         \/ book' = book /\ Apart /\ pc[c] \in Acting /\ Looks(c)
         \/ \A d \in Call \ {c} : ~HoldsFundMu(d)
  PROVE  \A d \in Call \ {c} : Fits(d)'
<1> SUFFICES ASSUME NEW d \in Call \ {c} PROVE Fits(d)'
  OBVIOUS
<1>1. pc'[d] = pc[d] /\ got'[d] = got[d] /\ Fits(d)
  BY DEF Moved1
<1>2. CASE book' = book /\ ledger' = ledger
  BY <1>1, <1>2 DEF Fits
<1>3. CASE book' = book /\ Apart /\ pc[c] \in Acting /\ Looks(c)
  <2>1. pc[d] \in Acting => ~Restructures(d)
    BY <1>3 DEF Apart
  <2>2. pc[d] \in {"reading", "moving", "clearing", "roles"} => Restructures(d)
    BY DEF Shapes, Shaped, Restructures
  <2>3. pc[d] \notin {"reading", "moving", "clearing", "roles"}
    BY <2>1, <2>2 DEF Acting
  <2>4. pc[d] \in {"storing", "stored"} => Kind(d) \notin {"form", "dissolve"}
    BY <2>1 DEF Acting, Restructures
  <2>5. QED
    BY <1>1, <1>3, <2>3, <2>4 DEF Fits
<1>4. CASE ~HoldsFundMu(d)
  <2>1. pc[d] \notin {"raising", "selling", "storing", "stored", "reading", "moving",
                      "clearing", "roles"}
    BY <1>4 DEF HoldsFundMu, Acting
  <2>2. QED
    BY <1>1, <2>1 DEF Fits
<1>5. QED
  BY <1>2, <1>3, <1>4

(* A call that is over has nothing worked out. *)
LEMMA NothingFits ==
  ASSUME NEW c \in Call, pc'[c] \in {"idle", "over", "stuck"}
  PROVE  Fits(c)'
BY DEF Fits

-----------------------------------------------------------------------------
(* Steps of the calls. *)
FitAfter == StateFit(Live)' /\ StateFit(Rebuilt(log))' /\ \A c \in Call : Fits(c)'

LEMMA LiveIs ==
  ASSUME StateFit(Live)
  PROVE  /\ Sound(ledger, book) /\ role \in [Team -> {"investor", "manager"}]
         /\ traded \subseteq Account
BY StateFitIs DEF Live

LEMMA LiveAfter ==
  ASSUME Sound(ledger', book'), role' \in [Team -> {"investor", "manager"}],
         traded' \subseteq Account
  PROVE  StateFit(Live)'
<1>1. PICK s : s = Live'
  OBVIOUS
<1>2. s = [ledger |-> ledger', book |-> book', role |-> role', traded |-> traded', ok |-> TRUE]
  BY <1>1 DEF Live
<1>3. StateFit(s)
  BY <1>2, StateFitIs DEF Whole
<1>4. QED
  BY <1>1, <1>3

LEMMA Facts ==
  ASSUME FitInv
  PROVE  /\ Shapes /\ Alone /\ Apart /\ Ready /\ LogGood /\ (~broken => Matches)
         /\ Sound(ledger, book) /\ role \in [Team -> {"investor", "manager"}]
         /\ traded \subseteq Account /\ StateFit(Rebuilt(log))
         /\ AcctsOK(ledger) /\ BookFit(book) /\ BookOK(book) /\ BookWhole(book)
         /\ DOMAIN book.funds \subseteq DOMAIN ledger /\ DOMAIN book.funds \subseteq FundId
         /\ price \in Price /\ \A c \in Call : Fits(c)
<1>1. /\ Sound(ledger, book) /\ role \in [Team -> {"investor", "manager"}]
      /\ traded \subseteq Account
  BY LiveIs DEF FitInv
<1>2. DOMAIN book.funds \subseteq FundId /\ BookOK(book)
  BY <1>1 DEF Sound, BookFit, BookOK
<1>3. QED
  BY <1>1, <1>2 DEF FitInv, RestartInv, LogGood, Sound, BookFit

LEMMA ExecuteFits ==
  ASSUME FitInv, NEW c \in Call, NEW t, TradeRecord(t), NEW made, NEW refused,
         Execute(c, t, made, refused), ~broken => Rebuilt(log).ledger = ledger
  PROVE  /\ AcctsOK(ledger') /\ DOMAIN ledger' = DOMAIN ledger
         /\ StateFit(Rebuilt(log'))
<1>1. AcctsOK(ledger) /\ LogGood /\ StateFit(Rebuilt(log))
  BY Facts
<1>2. CASE UNCHANGED <<ledger, disk>>
  BY <1>1, <1>2, StillLogged DEF disk
<1>3. CASE /\ t.acct \in DOMAIN ledger /\ TradeAllowed(ledger[t.acct], t)
           /\ Stored(t) /\ ledger' = [ledger EXCEPT ![t.acct] = AfterTrade(@, t)]
  <2>1. AcctsOK(ledger') /\ DOMAIN ledger' = DOMAIN ledger
    BY <1>1, <1>3, AcctTraded
  <2>2. ~broken /\ log' = Append(log, t)
    BY <1>3 DEF Stored
  <2>3. QED
    BY <1>1, <1>3, <2>1, <2>2, TradeLogged
<1>4. CASE /\ t.acct \in DOMAIN ledger /\ TradeAllowed(ledger[t.acct], t)
           /\ Failed(t) /\ UNCHANGED ledger
  <2>1. CASE log' = log
    BY <1>1, <1>4, <2>1, StillLogged
  <2>2. CASE ~broken /\ log' = Append(log, t)
    BY <1>1, <1>4, <2>2, TradeLogged
  <2>3. QED
    BY <1>4, <2>1, <2>2 DEF Failed
<1>5. QED
  BY <1>2, <1>3, <1>4 DEF Execute

LEMMA TradeStep ==
  ASSUME FitInv, NEW c \in Call, Trade(c)
  PROVE  FitAfter
<1>1. PICK t : t = TradeOf(got[c].acct, Wants[c].buy, Wants[c].qty)
  OBVIOUS
<1>2. /\ Execute(c, t, "made", "over") /\ pc[c] = "asked" /\ Kind(c) = "trade"
      /\ book' = book /\ role' = role /\ traded' = traded
  BY <1>1 DEF Trade
<1>3. TradeRecord(t)
  <2>1. Wants[c].qty \in Nat /\ Wants[c].buy \in BOOLEAN
    <3>1. Wants[c] \in Request /\ Wants[c].kind = "trade"
      BY <1>2, FundAssumption DEF Kind
    <3>2. QED
      BY <3>1 DEF Request
  <2>2. price \in Nat
    BY Facts, FundAssumption
  <2>3. QED
    BY <1>1, <2>1, <2>2 DEF TradeOf, TradeRecord
<1>4. ~broken => Rebuilt(log).ledger = ledger
  <2>1. pc[c] \in Acting /\ Looks(c)
    BY <1>2 DEF Acting, Looks
  <2>2. QED
    BY <2>1, Facts, LedgerSteady
<1>5. AcctsOK(ledger') /\ DOMAIN ledger' = DOMAIN ledger /\ StateFit(Rebuilt(log'))
  BY <1>2, <1>3, <1>4, ExecuteFits
<1>6. StateFit(Live)'
  BY <1>2, <1>5, Facts, LiveAfter DEF Sound
<1>7. /\ Moved1(c) /\ pc'[c] \in {"made", "over"} /\ (pc'[c] = "made" => got'[c] = got[c])
  BY <1>2, Facts, ExecuteMoves DEF Acting
<1>8. Fits(c)'
  <2>1. Fits(c)
    BY Facts
  <2>2. CASE pc'[c] = "made"
    BY <1>2, <1>7, <2>1, <2>2 DEF Fits
  <2>3. CASE pc'[c] = "over"
    BY <2>3, NothingFits
  <2>4. QED
    BY <1>7, <2>2, <2>3
<1>9. \A d \in Call \ {c} : Fits(d)'
  <2>1. pc[c] \in Acting /\ Looks(c)
    BY <1>2 DEF Acting, Looks
  <2>2. QED
    BY <1>2, <1>7, <2>1, Facts, ElseFits
<1>10. QED
  BY <1>5, <1>6, <1>8, <1>9 DEF FitAfter

LEMMA QuietStep ==
  ASSUME FitInv, NEW c \in Call, Moved1(c), UNCHANGED <<state, disk>>, Fits(c)'
  PROVE  FitAfter
<1>1. /\ ledger' = ledger /\ book' = book /\ role' = role /\ traded' = traded /\ log' = log
  BY DEF state, disk
<1>2. StateFit(Live)'
  BY <1>1, Facts, LiveAfter
<1>3. StateFit(Rebuilt(log'))
  BY <1>1, Facts, StillLogged
<1>4. \A d \in Call \ {c} : Fits(d)'
  BY <1>1, Facts, ElseFits
<1>5. QED
  BY <1>2, <1>3, <1>4 DEF FitAfter

LEMMA HolderStep ==
  ASSUME FitInv, NEW c \in Call, HoldsFundMu(c), Moved1(c), Sound(ledger', book'),
         role' \in [Team -> {"investor", "manager"}], traded' \subseteq Account,
         StateFit(Rebuilt(log')), Fits(c)'
  PROVE  FitAfter
<1>1. StateFit(Live)'
  BY LiveAfter
<1>2. \A d \in Call \ {c} : ~HoldsFundMu(d)
  BY Facts DEF Alone
<1>3. \A d \in Call \ {c} : Fits(d)'
  BY <1>2, Facts, ElseFits
<1>4. QED
  BY <1>1, <1>3 DEF FitAfter

LEMMA RecordStep ==
  ASSUME FitInv, NEW c \in Call, Record(c)
  PROVE  FitAfter
<1>1. /\ pc[c] = "made" /\ traded' = traded \cup {got[c].acct}
      /\ ledger' = ledger /\ book' = book /\ role' = role /\ log' = log
  BY DEF Record, disk
<1>2. Moved1(c) /\ pc'[c] = "over"
  BY Facts, RecordShape
<1>3. got[c].acct \in Account
  <2>1. Fits(c) /\ Kind(c) = "trade"
    BY <1>1, Facts DEF Shapes, Shaped
  <2>2. QED
    BY <1>1, <2>1 DEF Fits
<1>4. StateFit(Live)'
  BY <1>1, <1>3, Facts, LiveAfter
<1>5. StateFit(Rebuilt(log'))
  BY <1>1, Facts, StillLogged
<1>6. Fits(c)'
  BY <1>2, NothingFits
<1>7. \A d \in Call \ {c} : Fits(d)'
  BY <1>1, <1>2, Facts, ElseFits
<1>8. QED
  BY <1>4, <1>5, <1>6, <1>7 DEF FitAfter

LEMMA RolesSetStep ==
  ASSUME FitInv, NEW c \in Call, RolesSet(c)
  PROVE  FitAfter
<1>1. Moved1(c) /\ pc'[c] = "over" /\ UNCHANGED <<state, disk>>
  BY Facts, ApplyShape DEF RolesSet
<1>2. Fits(c)'
  BY <1>1, NothingFits
<1>3. QED
  BY <1>1, <1>2, QuietStep

LEMMA StoredFits ==
  ASSUME FitInv, NEW c \in Call, pc[c] \in {"storing", "stored"}
  PROVE  ReadyFor(book, ledger, got[c])
<1>1. PICK ev : ev = got[c]
  OBVIOUS
<1>2. /\ ev.op \in Events /\ (Restructures(c) <=> ev.op \in {"formed", "dissolve"})
      /\ ev.op = OpOf(c)
  BY <1>1, Facts, StoredOp DEF Shapes, Shaped
<1>3. Accepts(book, ev)
  BY <1>1, Facts DEF Ready, ReadyAt
<1>4. Fits(c)
  BY Facts
<1>5. ev.op \notin {"formed", "dissolve"} => EventFit(book, ev)
  BY <1>1, <1>2, <1>4 DEF Fits
<1>6. ev.op = "formed" => Kind(c) = "form"
  BY <1>2, KindsKnown DEF OpOf
<1>7. ev.op = "dissolve" => Kind(c) = "dissolve"
  BY <1>2, KindsKnown DEF OpOf
<1>8. ev.op = "formed" => FormFit(ledger, ev)
  BY <1>1, <1>4, <1>6 DEF Fits
<1>9. ev.op = "dissolve" => ev.moves \in Seq({m \in Move : m.from \in FundId})
  BY <1>1, <1>4, <1>7 DEF Fits
<1>10. QED
  BY <1>1, <1>2, <1>3, <1>5, <1>8, <1>9 DEF ReadyFor

LEMMA StoreStep ==
  ASSUME FitInv, NEW c \in Call, Store(c)
  PROVE  FitAfter
<1>1. PICK ev : ev = got[c]
  OBVIOUS
<1>2. /\ Moved1(c) /\ pc[c] = "storing" /\ HoldsFundMu(c) /\ ~Applying(c)
      /\ pc'[c] \in {"stored", "stuck", "over"} /\ (pc'[c] = "stored" => got'[c] = got[c])
      /\ book' = book /\ role' = role /\ traded' = traded
  BY Facts, StoreShape DEF Store, Applying, HoldsFundMu, Acting
<1>3. ReadyFor(book, ledger, ev) /\ ev.op = OpOf(c)
  BY <1>1, <1>2, Facts, StoredFits DEF Shapes, Shaped
<1>4. Covered(ev) => /\ ev.op = "alloc" => Affords(ledger[ev.who], ev.amount)
                     /\ ev.op = "redeem" => Affords(ledger[ev.fund], ev.amount)
  BY DEF Covered
<1>5. StateFit(Rebuilt(log'))
  <2>1. CASE log' = log
    BY <2>1, Facts, StillLogged
  <2>2. CASE Covered(ev) /\ ~broken /\ log' = Append(log, FundRecord(ev))
    <3>1. Rebuilt(log).book = book /\ Rebuilt(log).ledger = ledger
      BY <1>2, <2>2, Facts, NobodyApplies
    <3>2. QED
      BY <1>3, <1>4, <2>2, <3>1, Facts, EventLogged
  <2>3. QED
    BY <1>1, <2>1, <2>2 DEF Store, Stored, Failed, disk
<1>6. ledger' = ledger \/ (Covered(ev) /\ ledger' = Moved(ev))
  BY <1>1 DEF Store
<1>7. Covered(ev) => Sound(Moved(ev), book)
  <2>1. SUFFICES ASSUME Covered(ev) PROVE Sound(Moved(ev), book)
    OBVIOUS
  <2>2. CASE ev.op \in {"alloc", "redeem"}
    <3>1. PICK s : s = Live
      OBVIOUS
    <3>2. s.ledger = ledger /\ s.book = book
      BY <3>1 DEF Live
    <3>3. Sound(Settled(s, ev), Apply(book, ev))
      BY <1>3, <1>4, <2>1, <3>2, Facts, SettledFits
    <3>4. Settled(s, ev) = Moved(ev)
      BY <2>2, <3>2 DEF Settled, Moved
    <3>5. SameFunds(book, Apply(book, ev))
      BY <1>3, <2>2, Facts, ApplyWhole DEF ReadyFor
    <3>6. QED
      BY <3>3, <3>4, <3>5, Facts DEF Sound, SameFunds
  <2>3. CASE ev.op \notin {"alloc", "redeem"}
    BY <2>3, Facts DEF Moved
  <2>4. QED
    BY <2>2, <2>3
<1>8. Sound(ledger', book')
  BY <1>2, <1>6, <1>7, Facts
<1>9. Fits(c)'
  <2>1. CASE pc'[c] = "stored"
    <3>1. got'[c] = ev /\ Fits(c)
      BY <1>1, <1>2, <2>1, Facts
    <3>2. Kind(c) = "form" => ledger' = ledger
      <4>1. Kind(c) = "form" => ev.op = "formed"
        BY <1>3 DEF OpOf
      <4>2. ev.op = "formed" => Moved(ev) = ledger
        BY DEF Moved
      <4>3. QED
        BY <1>6, <4>1, <4>2
    <3>3. QED
      BY <1>1, <1>2, <2>1, <3>1, <3>2 DEF Fits
  <2>2. CASE pc'[c] \in {"stuck", "over"}
    BY <2>2, NothingFits
  <2>3. QED
    BY <1>2, <2>1, <2>2
<1>10. QED
  BY <1>2, <1>5, <1>8, <1>9, Facts, HolderStep

LEMMA SellStep ==
  ASSUME FitInv, NEW c \in Call, Sell(c)
  PROVE  FitAfter
<1>1. PICK t : t = TradeOf(got[c].fund, FALSE, got[c].sell)
  OBVIOUS
<1>2. /\ pc[c] = "selling" /\ Execute(c, t, "storing", "stuck")
      /\ traded' = (IF pc'[c] = "storing" THEN traded \cup {got[c].fund} ELSE traded)
      /\ book' = book /\ role' = role /\ HoldsFundMu(c) /\ ~Applying(c)
  BY <1>1 DEF Sell, HoldsFundMu, Acting, Applying
<1>3. /\ Fits(c) /\ Kind(c) = "redeem" /\ RedeemNote(got[c]) /\ Accepts(book, got[c])
  BY <1>2, Facts DEF Shapes, Shaped, Ready, ReadyAt
<1>4. TradeRecord(t)
  <2>1. got[c].sell \in Nat
    BY <1>2, <1>3 DEF Fits
  <2>2. price \in Nat
    BY Facts, FundAssumption
  <2>3. QED
    BY <1>1, <2>1, <2>2 DEF TradeOf, TradeRecord
<1>5. ~broken => Rebuilt(log).ledger = ledger
  BY <1>2, Facts, NobodyApplies
<1>6. AcctsOK(ledger') /\ DOMAIN ledger' = DOMAIN ledger /\ StateFit(Rebuilt(log'))
  BY <1>2, <1>4, <1>5, ExecuteFits
<1>7. got[c].fund \in Account
  <2>1. got[c].fund \in DOMAIN book.funds
    BY <1>3 DEF Accepts, RedeemNote
  <2>2. QED
    BY <2>1, Facts DEF Account
<1>8. Sound(ledger', book') /\ traded' \subseteq Account
  BY <1>2, <1>6, <1>7, Facts DEF Sound
<1>9. /\ Moved1(c) /\ pc'[c] \in {"storing", "stuck", "over"}
      /\ (pc'[c] = "storing" => got'[c] = got[c])
  BY <1>2, Facts, ExecuteMoves DEF Acting
<1>10. Fits(c)'
  <2>1. CASE pc'[c] = "storing"
    <3>1. got'[c] = got[c]
      BY <1>9, <2>1
    <3>2. QED
      BY <1>2, <1>3, <2>1, <3>1 DEF Fits, Restructures
  <2>2. CASE pc'[c] \in {"stuck", "over"}
    BY <2>2, NothingFits
  <2>3. QED
    BY <1>9, <2>1, <2>2
<1>11. QED
  BY <1>2, <1>6, <1>8, <1>9, <1>10, Facts, HolderStep

LEMMA ReadAllStep ==
  ASSUME FitInv, NEW c \in Call, ReadAll(c)
  PROVE  FitAfter
<1>1. /\ pc[c] = "reading" /\ To(c, "storing") /\ UNCHANGED <<state, disk>>
      /\ got' = got /\ ledger' = ledger /\ book' = book
  BY DEF ReadAll, state
<1>2. Moved1(c) /\ pc'[c] = "storing"
  BY <1>1, Facts, ReadShape, PutsAt DEF Acting
<1>3. Fits(c) /\ Kind(c) = "form"
  BY <1>1, Facts DEF Shapes, Shaped
<1>4. Fits(c)'
  BY <1>1, <1>2, <1>3 DEF Fits, Restructures
<1>5. QED
  BY <1>1, <1>2, <1>4, QuietStep

LEMMA ApplyEventStep ==
  ASSUME FitInv, NEW c \in Call, ApplyEvent(c)
  PROVE  FitAfter
<1>1. PICK ev : ev = got[c]
  OBVIOUS
<1>2. /\ pc[c] = "stored" /\ ev.op \notin {"formed", "dissolve"} /\ HoldsFundMu(c)
      /\ book' = (IF Accepts(book, ev) THEN Apply(book, ev) ELSE book)
      /\ ledger' = ledger /\ role' = role /\ traded' = traded /\ log' = log
  BY <1>1 DEF ApplyEvent, HoldsFundMu, Acting, disk
<1>3. Moved1(c) /\ pc'[c] = "over"
  BY Facts, ApplyShape
<1>4. ReadyFor(book, ledger, ev)
  BY <1>1, <1>2, StoredFits
<1>5. book' = Apply(book, ev)
  BY <1>2, <1>4 DEF ReadyFor
<1>6. BookFit(book')
  BY <1>4, <1>5, Facts, ApplyFits
<1>7. DOMAIN book'.funds = DOMAIN book.funds
  <2>1. SameFunds(book, Apply(book, ev))
    BY <1>2, <1>4, Facts, ApplyWhole DEF ReadyFor
  <2>2. QED
    BY <1>5, <2>1 DEF SameFunds
<1>8. Sound(ledger', book')
  BY <1>2, <1>6, <1>7, Facts DEF Sound
<1>9. StateFit(Rebuilt(log'))
  BY <1>2, Facts, StillLogged
<1>10. Fits(c)'
  BY <1>3, NothingFits
<1>11. QED
  BY <1>2, <1>3, <1>8, <1>9, <1>10, Facts, HolderStep

LEMMA TeamsAre ==
  ASSUME NEW p \in Seq(Team \X Team)
  PROVE  /\ TeamsOf(p) \in Seq(Team) /\ DOMAIN TeamsOf(p) = 1 .. 2 * Len(p)
         /\ \A n \in 1 .. 2 * Len(p) :
               /\ (n + 1) \div 2 \in 1 .. Len(p)
               /\ TeamsOf(p)[n] \in ToSet(p[(n + 1) \div 2])
<1>1. PICK k \in Nat : k = Len(p) /\ DOMAIN p = 1 .. k
  OBVIOUS
<1>2. PICK t : t = TeamsOf(p)
  OBVIOUS
<1>3. t = [n \in 1 .. 2 * k |-> p[(n + 1) \div 2][IF n % 2 = 1 THEN 1 ELSE 2]]
  BY <1>1, <1>2 DEF TeamsOf
<1>4. ASSUME NEW n \in 1 .. 2 * k
      PROVE  /\ (n + 1) \div 2 \in 1 .. k /\ t[n] \in Team
             /\ t[n] \in ToSet(p[(n + 1) \div 2])
  <2>1. PICK i : i = (n + 1) \div 2
    OBVIOUS
  <2>2. i \in 1 .. k
    BY <2>1
  <2>3. p[i] \in Team \X Team
    BY <1>1, <2>2
  <2>4. PICK x \in Team, y \in Team : p[i] = <<x, y>>
    BY <2>3
  <2>5. t[n] = x \/ t[n] = y
    BY <1>3, <2>1, <2>4
  <2>6. x \in ToSet(p[i]) /\ y \in ToSet(p[i])
    BY <2>4 DEF ToSet
  <2>7. QED
    BY <2>1, <2>2, <2>4, <2>5, <2>6
<1>5. t \in [1 .. 2 * k -> Team] /\ 2 * k \in Nat
  BY <1>3, <1>4
<1>6. t \in Seq(Team)
  BY <1>5
<1>7. QED
  BY <1>1, <1>2, <1>4, <1>5, <1>6

(* A finite set in some order. *)
LEMMA SetInSeq ==
  ASSUME NEW S, IsFiniteSet(S)
  PROVE  SetToSeq(S) \in Seq(S)
<1> DEFINE n == Cardinality(S)
<1>1. n \in Nat /\ ExistsBijection(1 .. n, S)
  BY FS_CardinalityType
<1>2. \E f \in [1 .. n -> S] : IsInjective(f)
  BY <1>1 DEF ExistsBijection, Bijection, Injection
<1>3. SetToSeq(S) \in [1 .. n -> S]
  BY <1>2 DEF SetToSeq
<1>4. QED
  BY <1>1, <1>3

LEMMA OpenStep ==
  ASSUME FitInv, NEW c \in Call, OpenFunds(c)
  PROVE  FitAfter
<1>1. PICK ev : ev = got[c]
  OBVIOUS
<1>2. PICK g : g = [todo |-> ev.moves, op |-> "formed", next |-> TeamsOf(ev.ranking)]
  OBVIOUS
<1>3. /\ pc[c] = "stored" /\ ev.op = "formed" /\ HoldsFundMu(c)
      /\ book' = Apply(book, ev) /\ ledger' = WithFunds(ledger, DOMAIN ev.funds)
      /\ Note(c, g) /\ To(c, "moving")
      /\ role' = role /\ traded' = traded /\ log' = log
  BY <1>1, <1>2 DEF OpenFunds, HoldsFundMu, Acting, disk
<1>4. Moved1(c) /\ pc'[c] = "moving" /\ got'[c] = g
  BY <1>3, Facts, StartShape, PutsAt DEF Acting
<1>5. FormFit(ledger, ev) /\ Accepts(book, ev)
  BY <1>1, <1>3, StoredFits DEF ReadyFor
<1>6. BookFit(book') /\ DOMAIN book'.funds = DOMAIN ev.funds
  BY <1>3, <1>5, Facts, FormFits
<1>7. /\ AcctsOK(ledger') /\ DOMAIN ledger' = DOMAIN ledger \cup DOMAIN ev.funds
      /\ \A t \in Team : ledger'[t].cash >= ledger[t].cash
  <2>1. PICK ids : ids = DOMAIN ev.funds /\ ids \subseteq FundId
    BY <1>5 DEF FormFit
  <2>2. ledger' = WithFunds(ledger, ids) /\ AcctsOK(ledger)
    BY <1>3, <2>1, Facts
  <2>3. QED
    BY <2>1, <2>2, OpenFits
<1>8. Payable(ledger', ev.moves)
  <2>1. Payable(ledger, ev.moves) /\ AcctsOK(ledger)
    BY <1>5, Facts DEF FormFit
  <2>2. QED
    BY <1>7, <2>1, StillPayable
<1>9. TeamsOf(ev.ranking) \in Seq(Team)
  BY <1>5, TeamsAre DEF FormFit
<1>10. Sound(ledger', book')
  BY <1>6, <1>7 DEF Sound
<1>11. StateFit(Rebuilt(log'))
  BY <1>3, Facts, StillLogged
<1>12. g.todo = ev.moves /\ g.next = TeamsOf(ev.ranking)
  BY <1>2
<1>13. Fits(c)'
  BY <1>4, <1>8, <1>9, <1>12 DEF Fits
<1>14. QED
  BY <1>3, <1>4, <1>10, <1>11, <1>13, Facts, HolderStep

LEMMA BackStep ==
  ASSUME FitInv, NEW c \in Call, StartBack(c)
  PROVE  FitAfter
<1>1. PICK ev, S : ev = got[c] /\ S = UNION {ToSet(book.funds[f].members) : f \in DOMAIN book.funds}
  OBVIOUS
<1>2. PICK g : g = [todo |-> ev.moves, op |-> "dissolve", next |-> SetToSeq(S)]
  OBVIOUS
<1>3. /\ pc[c] = "stored" /\ ev.op = "dissolve" /\ Note(c, g) /\ To(c, "moving")
      /\ UNCHANGED <<state, disk>> /\ ledger' = ledger
  BY <1>1, <1>2 DEF StartBack, state
<1>4. Moved1(c) /\ pc'[c] = "moving" /\ got'[c] = g
  BY <1>3, Facts, StartShape, PutsAt DEF Acting
<1>5. ev.moves \in Seq({m \in Move : m.from \in FundId})
  BY <1>1, <1>3, StoredFits DEF ReadyFor
<1>6. Payable(ledger, ev.moves)
  BY <1>5, BackPayable
<1>7. S \subseteq Team
  <2>1. ASSUME NEW f \in DOMAIN book.funds PROVE ToSet(book.funds[f].members) \subseteq Team
    <3>1. book.funds[f].members \in Team \X Team
      BY Facts DEF BookOK, FundOK
    <3>2. QED
      BY <3>1 DEF ToSet
  <2>2. QED
    BY <1>1, <2>1
<1>8. IsFiniteSet(S)
  BY <1>7, FundAssumption, FS_Subset
<1>9. SetToSeq(S) \in Seq(Team)
  <2>1. SetToSeq(S) \in Seq(S)
    BY <1>8, SetInSeq
  <2>2. QED
    BY <1>7, <2>1
<1>10. g.todo = ev.moves /\ g.next = SetToSeq(S)
  BY <1>2
<1>11. Fits(c)'
  BY <1>3, <1>4, <1>6, <1>9, <1>10 DEF Fits
<1>12. QED
  BY <1>3, <1>4, <1>11, QuietStep

LEMMA MoveStep ==
  ASSUME FitInv, NEW c \in Call, MoveNext(c)
  PROVE  FitAfter
<1>1. PICK g, h : g = got[c] /\ h = [g EXCEPT !.todo = Tail(@)]
  OBVIOUS
<1>2. /\ pc[c] = "moving" /\ g.todo # <<>> /\ HoldsFundMu(c)
      /\ ledger' = AfterMoves(ledger, <<Head(g.todo)>>) /\ Note(c, h)
      /\ book' = book /\ role' = role /\ traded' = traded /\ log' = log /\ pc' = pc
  BY <1>1 DEF MoveNext, HoldsFundMu, Acting, disk
<1>3. Moved1(c) /\ pc'[c] = "moving" /\ got'[c] = h
  BY <1>2, Facts, MoveShape, PutsAt DEF Acting
<1>4. Fits(c) /\ MovesNote(g)
  BY <1>1, <1>2, Facts DEF Shapes, Shaped
<1>5. h.todo = Tail(g.todo) /\ h.next = g.next
  BY <1>1, <1>4 DEF MovesNote
<1>6. Payable(ledger, g.todo) /\ g.next \in Seq(Team)
  BY <1>1, <1>2, <1>4 DEF Fits
<1>7. ledger' = AfterMove(ledger, Head(g.todo))
  BY <1>2, MoveOne
<1>8. /\ AcctsOK(ledger') /\ DOMAIN ledger' = DOMAIN ledger
      /\ Payable(ledger', Tail(g.todo))
  BY <1>2, <1>6, <1>7, Facts, PayableStep
<1>9. Sound(ledger', book')
  BY <1>2, <1>8, Facts DEF Sound
<1>10. StateFit(Rebuilt(log'))
  BY <1>2, Facts, StillLogged
<1>11. Fits(c)'
  BY <1>3, <1>5, <1>6, <1>8 DEF Fits
<1>12. QED
  BY <1>2, <1>3, <1>9, <1>10, <1>11, Facts, HolderStep

LEMMA AllMovedStep ==
  ASSUME FitInv, NEW c \in Call, AllMoved(c)
  PROVE  FitAfter
<1>1. PICK g : g = got[c]
  OBVIOUS
<1>2. /\ pc[c] = "moving" /\ HoldsFundMu(c)
      /\ ledger' = ledger /\ role' = role /\ traded' = traded /\ log' = log
  BY DEF AllMoved, HoldsFundMu, Acting, disk
<1>3. /\ Fits(c) /\ MovesNote(g) /\ g.next \in Seq(Team) /\ Moved1(c)
  <2>1. Fits(c) /\ MovesNote(g) /\ Moved1(c)
    BY <1>1, <1>2, Facts, MovedShape DEF Shapes, Shaped
  <2>2. QED
    BY <1>1, <1>2, <2>1 DEF Fits
<1>4. StateFit(Rebuilt(log'))
  BY <1>2, Facts, StillLogged
<1>5. CASE g.op = "formed"
  <2>1. To(c, "roles") /\ book' = book /\ got' = got
    BY <1>1, <1>5 DEF AllMoved
  <2>2. pc'[c] = "roles" /\ got'[c] = g
    BY <1>1, <2>1, Facts, PutsAt DEF Acting
  <2>3. Fits(c)'
    BY <1>3, <2>2 DEF Fits
  <2>4. Sound(ledger', book')
    BY <1>2, <2>1, Facts
  <2>5. QED
    BY <1>2, <1>3, <1>4, <2>3, <2>4, Facts, HolderStep
<1>6. CASE g.op # "formed"
  <2>1. PICK h : h = [g EXCEPT !.todo = DOMAIN book.funds]
    OBVIOUS
  <2>2. To(c, "clearing") /\ book' = NewBook /\ Note(c, h)
    BY <1>1, <1>6, <2>1 DEF AllMoved
  <2>3. pc'[c] = "clearing" /\ got'[c] = h
    BY <2>2, Facts, PutsAt DEF Acting
  <2>4. h.todo = DOMAIN book.funds /\ h.next = g.next
    BY <1>3, <2>1 DEF MovesNote
  <2>5. DOMAIN book'.funds = {} /\ BookFit(book')
    BY <2>2, EmptyBook, EmptyFits
  <2>6. Fits(c)'
    BY <1>3, <2>3, <2>4, <2>5, Facts DEF Fits
  <2>7. Sound(ledger', book')
    BY <1>2, <2>5, Facts DEF Sound
  <2>8. QED
    BY <1>2, <1>3, <1>4, <2>6, <2>7, Facts, HolderStep
<1>7. QED
  BY <1>5, <1>6

LEMMA RemoveStep ==
  ASSUME FitInv, NEW c \in Call, RemoveFunds(c)
  PROVE  FitAfter
<1>1. PICK g, ids : g = got[c] /\ ids = g.todo
  OBVIOUS
<1>2. /\ pc[c] = "clearing" /\ HoldsFundMu(c) /\ ledger' = Removed(ledger, ids)
      /\ To(c, "roles") /\ book' = book /\ role' = role /\ traded' = traded
      /\ log' = log /\ got' = got
  BY <1>1 DEF RemoveFunds, HoldsFundMu, Acting, disk
<1>3. Moved1(c) /\ pc'[c] = "roles" /\ got'[c] = g
  BY <1>1, <1>2, Facts, RemoveShape
<1>4. ids \subseteq FundId /\ DOMAIN book.funds = {} /\ g.next \in Seq(Team)
  <2>1. Fits(c)
    BY Facts
  <2>2. QED
    BY <1>1, <1>2, <2>1 DEF Fits
<1>5. AcctsOK(ledger')
  BY <1>2, <1>4, Facts, ClosedFits
<1>6. Sound(ledger', book')
  BY <1>2, <1>4, <1>5, Facts DEF Sound
<1>7. StateFit(Rebuilt(log'))
  BY <1>2, Facts, StillLogged
<1>8. Fits(c)'
  BY <1>3, <1>4 DEF Fits
<1>9. QED
  BY <1>2, <1>3, <1>6, <1>7, <1>8, Facts, HolderStep

LEMMA RoleStep ==
  ASSUME FitInv, NEW c \in Call, SetRole(c)
  PROVE  FitAfter
<1>1. PICK g, who, new : /\ g = got[c] /\ who = Head(g.next)
                         /\ new = (IF g.op = "formed" THEN "manager" ELSE "investor")
  OBVIOUS
<1>2. PICK rec, h : /\ rec = [kind |-> "role", who |-> who, role |-> new]
                    /\ h = [g EXCEPT !.next = Tail(@)]
  OBVIOUS
<1>3. /\ pc[c] = "roles" /\ g.next # <<>> /\ HoldsFundMu(c) /\ Note(c, h) /\ pc' = pc
      /\ \/ Stored(rec) /\ role' = [role EXCEPT ![who] = new]
         \/ Failed(rec) /\ role' = role
      /\ ledger' = ledger /\ book' = book /\ traded' = traded
  BY <1>1, <1>2 DEF SetRole, HoldsFundMu, Acting
<1>4. Moved1(c) /\ pc'[c] = "roles" /\ got'[c] = h
  BY <1>3, Facts, RoleShape, PutsAt DEF Acting
<1>5. g.next \in Seq(Team) /\ MovesNote(g)
  <2>1. Fits(c) /\ MovesNote(g)
    BY <1>1, <1>3, Facts DEF Shapes, Shaped
  <2>2. QED
    BY <1>1, <1>3, <2>1 DEF Fits
<1>6. who \in Team /\ new \in {"investor", "manager"} /\ Tail(g.next) \in Seq(Team)
  BY <1>1, <1>3, <1>5
<1>7. h.next = Tail(g.next)
  BY <1>2, <1>5 DEF MovesNote
<1>8. role' \in [Team -> {"investor", "manager"}]
  BY <1>3, <1>6, Facts
<1>9. StateFit(Rebuilt(log'))
  <2>1. CASE log' = log
    BY <2>1, Facts, StillLogged
  <2>2. CASE log' = Append(log, rec)
    BY <1>2, <1>6, <2>2, Facts, RoleLogged
  <2>3. QED
    BY <1>3, <2>1, <2>2 DEF Stored, Failed
<1>10. Fits(c)'
  BY <1>4, <1>6, <1>7 DEF Fits
<1>11. Sound(ledger', book')
  BY <1>3, Facts
<1>12. QED
  BY <1>3, <1>4, <1>8, <1>9, <1>10, <1>11, Facts, HolderStep

LEMMA KillStep ==
  ASSUME FitInv, Kill
  PROVE  FitAfter
<1>1. PICK s : s = Rebuilt(log)
  OBVIOUS
<1>2. /\ ledger' = s.ledger /\ book' = s.book /\ role' = s.role /\ traded' = s.traded
      /\ log' = log
  BY <1>1 DEF Kill, Becomes
<1>3. StateFit(s)
  BY <1>1, Facts
<1>4. /\ Sound(s.ledger, s.book) /\ s.role \in [Team -> {"investor", "manager"}]
      /\ s.traded \subseteq Account
  BY <1>3, StateFitIs
<1>5. StateFit(Live)'
  BY <1>2, <1>4, LiveAfter
<1>6. StateFit(Rebuilt(log'))
  BY <1>2, Facts, StillLogged
<1>7. \A c \in Call : Fits(c)'
  <2>1. \A c \in Call : pc'[c] \in {"idle", "over", "stuck"}
    BY Facts, KillStops
  <2>2. QED
    BY <2>1, NothingFits
<1>8. QED
  BY <1>5, <1>6, <1>7 DEF FitAfter

LEMMA EnterStep ==
  ASSUME FitInv, NEW c \in Call, Enter(c)
  PROVE  FitAfter
<1>1. Moved1(c) /\ pc'[c] = "asked" /\ UNCHANGED <<state, disk>>
  BY Facts, EnterShape DEF Enter
<1>2. PICK n \in Admitted(Wants[c]) : Note(c, n)
  BY DEF Enter
<1>3. got'[c] = n
  BY <1>2, Facts, PutsAt DEF Acting
<1>4. Kind(c) = "trade" => n.acct \in Account
  <2>1. SUFFICES ASSUME Kind(c) = "trade" PROVE n.acct \in Account
    OBVIOUS
  <2>2. PICK w : w = Wants[c]
    OBVIOUS
  <2>3. w.kind = "trade" /\ w.who \in Team
    <3>1. w \in Request /\ w.kind = "trade"
      BY <2>1, <2>2, FundAssumption DEF Kind
    <3>2. QED
      BY <3>1 DEF Request
  <2>4. PICK a \in TradesWith(w) : n = [acct |-> a]
    BY <1>2, <2>2, <2>3 DEF Admitted
  <2>5. FundOfMember(book, w.who) \subseteq FundId
    BY Facts DEF FundOfMember
  <2>6. a \in Account
    BY <2>3, <2>4, <2>5 DEF TradesWith, Account
  <2>7. QED
    BY <2>4, <2>6
<1>5. Fits(c)'
  BY <1>1, <1>3, <1>4 DEF Fits
<1>6. QED
  BY <1>1, <1>5, QuietStep

LEMMA Shared ==
  ASSUME NEW n \in Nat, NEW d \in Nat \ {0}
  PROVE  n \div d \in Nat
OBVIOUS

LEMMA SliceFits ==
  ASSUME NEW p \in Nat \ {0}, NEW short \in Nat, NEW held \in Nat \ {0}
  PROVE  Slice(p, short, held) \in Nat
<1>1. PICK x, y : x = p * short * 1001 /\ y = held * 1000
  OBVIOUS
<1>2. x \in Nat /\ y \in Nat \ {0}
  <2>1. p * short \in Nat
    OBVIOUS
  <2>2. QED
    BY <1>1, <2>1
<1>3. PICK n : n = x \div y + 1
  OBVIOUS
<1>4. n \in Nat
  BY <1>2, <1>3, Shared
<1>5. Slice(p, short, held) = IF n > p THEN p ELSE n
  BY <1>1, <1>3 DEF Slice
<1>6. QED
  BY <1>4, <1>5

LEMMA RaiseStep ==
  ASSUME FitInv, NEW c \in Call, Raise(c)
  PROVE  FitAfter
<1>1. PICK g, a, p, short : /\ g = got[c] /\ a = ledger[g.fund] /\ p = Position(a, Sym).qty
                            /\ short = g.amount - a.cash
  OBVIOUS
<1>2. /\ pc[c] = "raising" /\ UNCHANGED <<state, disk>> /\ book' = book
      /\ IF short <= 0 THEN To(c, "storing") /\ got' = got
         ELSE IF p = 0 THEN Leaves(c, "stuck")
         ELSE To(c, "selling") /\ Note(c, [g EXCEPT !.sell = Slice(p, short, p * price)])
  BY <1>1 DEF Raise, state
<1>3. /\ Fits(c) /\ Kind(c) = "redeem" /\ RedeemNote(g) /\ Accepts(book, g) /\ Moved1(c)
  BY <1>1, <1>2, Facts, RaiseShape DEF Shapes, Shaped, Ready, ReadyAt
<1>4. EventFit(book, g) /\ g.op = "redeem" /\ g.fund \in DOMAIN book.funds
  BY <1>1, <1>2, <1>3 DEF Fits, Restructures, RedeemNote, Accepts
<1>5. Fits(c)'
  <2>1. CASE short <= 0
    <3>1. pc'[c] = "storing" /\ got'[c] = g
      BY <1>1, <1>2, <2>1, Facts, PutsAt DEF Acting
    <3>2. QED
      BY <1>2, <1>3, <1>4, <3>1 DEF Fits, Restructures
  <2>2. CASE ~(short <= 0) /\ p = 0
    <3>1. pc'[c] = "stuck"
      BY <1>2, <2>2, Facts, EndsShape
    <3>2. QED
      BY <3>1, NothingFits
  <2>3. CASE ~(short <= 0) /\ p # 0
    <3>1. PICK n : n = Slice(p, short, p * price)
      OBVIOUS
    <3>2. PICK h : h = [g EXCEPT !.sell = n]
      OBVIOUS
    <3>3. To(c, "selling") /\ Note(c, h)
      BY <1>2, <2>3, <3>1, <3>2
    <3>4. pc'[c] = "selling" /\ got'[c] = h
      BY <3>3, Facts, PutsAt DEF Acting
    <3>5. n \in Nat
      <4>1. a \in Wallet
        BY <1>1, <1>4, Facts DEF AcctsOK
      <4>2. p \in Nat \ {0} /\ a.cash \in Int
        BY <1>1, <2>3, <4>1, PositionFits DEF Lot, Wallet
      <4>3. g.amount \in Nat
        BY <1>4 DEF EventFit
      <4>4. short \in Nat
        BY <1>1, <2>3, <4>2, <4>3
      <4>5. price \in Nat \ {0}
        BY Facts, FundAssumption
      <4>6. p * price \in Nat \ {0}
        BY <4>2, <4>5
      <4>7. QED
        BY <3>1, <4>2, <4>4, <4>6, SliceFits
    <3>6. /\ h.op = g.op /\ h.who = g.who /\ h.units = g.units /\ h.amount = g.amount
          /\ h.fund = g.fund /\ h.sell = n
      BY <1>3, <3>2 DEF RedeemNote
    <3>7. EventFit(book, h)
      BY <1>4, <3>6 DEF EventFit
    <3>8. QED
      BY <1>2, <1>3, <3>4, <3>5, <3>6, <3>7 DEF Fits, Restructures
  <2>4. QED
    BY <2>1, <2>2, <2>3
<1>6. QED
  BY <1>2, <1>3, <1>5, QuietStep

(* A team's portfolio joins what is read. *)
LEMMA PayableMore ==
  ASSUME NEW l, NEW s, Payable(l, s), NEW m \in Move,
         m.from \in Team /\ m.cash > 0 =>
            /\ m.cash <= l[m.from].cash
            /\ \A i \in DOMAIN s : s[i].from # m.from
  PROVE  Payable(l, Append(s, m))
<1>1. PICK r, n : r = Append(s, m) /\ n = Len(s)
  OBVIOUS
<1>2. s \in Seq(Move) /\ n \in Nat
  BY <1>1 DEF Payable
<1>3. /\ r \in Seq(Move) /\ DOMAIN r = DOMAIN s \cup {n + 1} /\ r[n + 1] = m
      /\ \A i \in DOMAIN s : r[i] = s[i] /\ i # n + 1
  BY <1>1, <1>2
<1>4. ASSUME NEW i \in DOMAIN r, r[i].from \in Team, r[i].cash > 0
      PROVE  r[i].cash <= l[r[i].from].cash
  BY <1>3, <1>4 DEF Payable
<1>5. ASSUME NEW i \in DOMAIN r, NEW j \in DOMAIN r, i # j,
             r[i].from \in Team, r[i].cash > 0, r[j].cash > 0
      PROVE  r[i].from # r[j].from
  <2>1. CASE i \in DOMAIN s /\ j \in DOMAIN s
    BY <1>3, <1>5, <2>1 DEF Payable
  <2>2. CASE i = n + 1 /\ j \in DOMAIN s
    BY <1>3, <1>5, <2>2
  <2>3. CASE j = n + 1 /\ i \in DOMAIN s
    BY <1>3, <1>5, <2>3
  <2>4. QED
    BY <1>3, <1>5, <2>1, <2>2, <2>3
<1>6. Payable(l, r)
  BY <1>3, <1>4, <1>5 DEF Payable
<1>7. QED
  BY <1>1, <1>6

(* s, and m too unless it is of nothing. *)
And(s, n, m) == s \o (IF n > 0 THEN <<m>> ELSE <<>>)

LEMMA Followed ==
  ASSUME NEW R, NEW s \in Seq(R), NEW n \in Nat, NEW m \in R
  PROVE  And(s, n, m) \in Seq(R) /\ (And(s, n, m) = s \/ And(s, n, m) = Append(s, m))
<1>1. CASE n > 0
  <2>1. And(s, n, m) = s \o <<m>>
    BY <1>1 DEF And
  <2>2. And(s, n, m) = Append(s, m)
    BY <2>1
  <2>3. QED
    BY <2>2
<1>2. CASE ~(n > 0)
  <2>1. And(s, n, m) = s \o <<>>
    BY <1>2 DEF And
  <2>2. And(s, n, m) = s
    BY <2>1
  <2>3. QED
    BY <2>2
<1>3. QED
  BY <1>1, <1>2

LEMMA SeedsMore ==
  ASSUME NEW funds, NEW s, SeedsFit(funds, s),
         NEW x \in [fund : funds, team : Team, amount : Int, units : Nat],
         \A i \in DOMAIN s : s[i].team # x.team
  PROVE  /\ SeedsFit(funds, Append(s, x))
         /\ \A i \in DOMAIN Append(s, x) :
               Append(s, x)[i] = x \/ (i \in DOMAIN s /\ Append(s, x)[i] = s[i])
<1>1. PICK R : R = [fund : funds, team : Team, amount : Int, units : Nat]
  OBVIOUS
<1>2. PICK r, n : r = Append(s, x) /\ n = Len(s)
  OBVIOUS
<1>3. s \in Seq(R) /\ n \in Nat /\ x \in R
  BY <1>1, <1>2 DEF SeedsFit
<1>4. /\ r \in Seq(R) /\ DOMAIN r = DOMAIN s \cup {n + 1} /\ r[n + 1] = x
      /\ \A i \in DOMAIN s : r[i] = s[i]
  BY <1>2, <1>3
<1>5. ASSUME NEW i \in DOMAIN r, NEW j \in DOMAIN r, r[i].team = r[j].team PROVE i = j
  BY <1>4, <1>5 DEF SeedsFit
<1>6. SeedsFit(funds, r)
  BY <1>1, <1>4, <1>5 DEF SeedsFit
<1>7. QED
  BY <1>2, <1>4, <1>6

LEMMA ReadStep ==
  ASSUME FitInv, NEW c \in Call, ReadTeam(c)
  PROVE  FitAfter
<1>1. PICK g, t, f, a, p :
         /\ g = got[c] /\ t = Head(g.todo) /\ a = ledger[t] /\ p = Position(a, Sym)
         /\ f = CHOOSE x \in DOMAIN g.funds : t \in ToSet(g.funds[x].members)
  OBVIOUS
<1>2. PICK m1, m2, seed, worth :
         /\ m1 = [from |-> t, to |-> f, cash |-> a.cash, qty |-> 0, cost |-> 0]
         /\ m2 = [from |-> t, to |-> f, cash |-> 0, qty |-> p.qty, cost |-> p.cost]
         /\ worth = Worth(a, Priced)
         /\ seed = [fund |-> f, team |-> t, amount |-> worth, units |-> worth]
  OBVIOUS
<1>3. PICK cash, shares : /\ cash = (IF a.cash > 0 THEN <<m1>> ELSE <<>>)
                          /\ shares = (IF p.qty > 0 THEN <<m2>> ELSE <<>>)
  OBVIOUS
<1>4. PICK todo, moved, seeds :
         /\ todo = Tail(g.todo) /\ moved = g.moves \o cash \o shares
         /\ seeds = (IF cash \o shares = <<>> THEN g.seeds ELSE Append(g.seeds, seed))
  OBVIOUS
<1>5. PICK h : h = [g EXCEPT !.todo = todo, !.moves = moved, !.seeds = seeds]
  OBVIOUS
<1>6. pc[c] = "reading" /\ g.todo # <<>> /\ UNCHANGED <<state, disk>> /\ pc' = pc
  BY <1>1 DEF ReadTeam
<1>7. Note(c, h)
  <2> DEFINE a0 == ledger[Head(got[c].todo)]
             p0 == Position(a0, Sym)
             f0 == CHOOSE x \in DOMAIN got[c].funds :
                      Head(got[c].todo) \in ToSet(got[c].funds[x].members)
             cash0 == IF a0.cash > 0
                      THEN << [from |-> Head(got[c].todo), to |-> f0, cash |-> a0.cash,
                               qty |-> 0, cost |-> 0] >>
                      ELSE <<>>
             shares0 == IF p0.qty > 0
                        THEN << [from |-> Head(got[c].todo), to |-> f0, cash |-> 0,
                                 qty |-> p0.qty, cost |-> p0.cost] >>
                        ELSE <<>>
             seed0 == [fund |-> f0, team |-> Head(got[c].todo), amount |-> Worth(a0, Priced),
                       units |-> Worth(a0, Priced)]
  <2>1. Note(c, [got[c] EXCEPT !.todo = Tail(@), !.moves = @ \o cash0 \o shares0,
                       !.seeds = IF cash0 \o shares0 = <<>> THEN @ ELSE Append(@, seed0)])
    BY DEF ReadTeam
  <2>2. a0 = a /\ p0 = p /\ f0 = f
    BY <1>1
  <2>3. cash0 = cash
    BY <1>1, <1>2, <1>3, <2>2
  <2>4. shares0 = shares
    BY <1>1, <1>2, <1>3, <2>2
  <2>5. seed0 = seed
    BY <1>1, <1>2, <2>2
  <2> HIDE DEF cash0, shares0, seed0
  <2>6. Note(c, [g EXCEPT !.todo = Tail(@), !.moves = @ \o cash \o shares,
                       !.seeds = IF cash \o shares = <<>> THEN @ ELSE Append(@, seed)])
    BY <1>1, <2>1, <2>3, <2>4, <2>5
  <2>7. h = [g EXCEPT !.todo = Tail(@), !.moves = @ \o cash \o shares,
                       !.seeds = IF cash \o shares = <<>> THEN @ ELSE Append(@, seed)]
    BY <1>4, <1>5
  <2>8. QED
    BY <2>6, <2>7
<1>8. Moved1(c) /\ pc'[c] = "reading" /\ got'[c] = h /\ ledger' = ledger
  BY <1>6, <1>7, Facts, ReadShape, PutsAt DEF Acting, state
<1>9. Fits(c) /\ Kind(c) = "form" /\ FormNote(g)
  BY <1>1, <1>6, Facts DEF Shapes, Shaped
<1>10. FormFit(ledger, g) /\ ReadingFit(g)
  BY <1>1, <1>6, <1>9 DEF Fits
<1>11. /\ g.todo \in Seq(Team) /\ todo \in Seq(Team) /\ t \in Team /\ t = g.todo[1]
       /\ 1 \in DOMAIN g.todo
       /\ \A i \in DOMAIN todo : i + 1 \in DOMAIN g.todo /\ todo[i] = g.todo[i + 1] /\ i + 1 # 1
       /\ \A i, j \in DOMAIN todo : i + 1 = j + 1 => i = j
  <2>1. g.todo \in Seq(Team)
    BY <1>10 DEF ReadingFit
  <2>2. QED
    BY <1>1, <1>4, <1>6, <2>1
<1>12. /\ f \in DOMAIN g.funds /\ f \in FundId
       /\ \A j \in DOMAIN g.moves : g.moves[j].from # t
       /\ \A j \in DOMAIN g.seeds : g.seeds[j].team # t
  <2>1. /\ \E x \in DOMAIN g.funds : t \in ToSet(g.funds[x].members)
        /\ \A j \in DOMAIN g.moves : g.moves[j].from # t
        /\ \A j \in DOMAIN g.seeds : g.seeds[j].team # t
    BY <1>10, <1>11 DEF ReadingFit
  <2>2. f \in DOMAIN g.funds
    BY <1>1, <2>1
  <2>3. QED
    BY <1>10, <2>1, <2>2 DEF FormFit
<1>13. a \in Wallet /\ a.cash \in Nat /\ p \in Lot /\ worth \in Nat
  <2>1. a \in Wallet /\ a.cash >= 0
    BY <1>1, <1>11, Facts DEF AcctsOK
  <2>2. a.cash \in Int
    BY <2>1 DEF Wallet
  <2>3. worth \in Nat
    BY <1>2, <2>1, Facts, WorthIs
  <2>4. QED
    BY <1>1, <2>1, <2>2, <2>3, PositionFits
<1>14. m1 \in Given /\ m2 \in Given /\ m1.from = t /\ m2.from = t /\ m1.cash = a.cash /\ m2.cash = 0
  BY <1>2, <1>11, <1>12, <1>13 DEF Given, Move, Account, Lot
<1>15. PICK n1 \in Nat, n2 \in Nat : n1 = a.cash /\ n2 = p.qty
  BY <1>13 DEF Lot
<1>16. PICK s1 : s1 = And(g.moves, n1, m1)
  OBVIOUS
<1>17. moved = And(s1, n2, m2)
  BY <1>3, <1>4, <1>15, <1>16 DEF And
<1>18. s1 \in Seq(Given) /\ (s1 = g.moves \/ s1 = Append(g.moves, m1))
  <2>1. PICK q \in Seq(Given) : q = g.moves
    BY <1>10 DEF FormFit
  <2>2. And(q, n1, m1) \in Seq(Given)
    BY <1>14, Followed
  <2>3. And(q, n1, m1) = q \/ And(q, n1, m1) = Append(q, m1)
    BY <1>14, Followed
  <2>4. QED
    BY <1>16, <2>1, <2>2, <2>3
<1>19. moved \in Seq(Given) /\ (moved = s1 \/ moved = Append(s1, m2))
  <2>1. And(s1, n2, m2) \in Seq(Given)
    BY <1>14, <1>18, Followed
  <2>2. And(s1, n2, m2) = s1 \/ And(s1, n2, m2) = Append(s1, m2)
    BY <1>14, <1>18, Followed
  <2>3. QED
    BY <1>17, <2>1, <2>2
<1>20. \A i \in DOMAIN moved : moved[i].from = t \/ \E j \in DOMAIN g.moves : moved[i] = g.moves[j]
  <2>1. g.moves \in Seq(Given)
    BY <1>10 DEF FormFit
  <2>2. \A i \in DOMAIN s1 : s1[i] = m1 \/ \E j \in DOMAIN g.moves : s1[i] = g.moves[j]
    BY <1>14, <1>18, <2>1
  <2>3. \A i \in DOMAIN moved : moved[i] = m2 \/ \E j \in DOMAIN s1 : moved[i] = s1[j]
    BY <1>14, <1>18, <1>19
  <2>4. QED
    BY <1>14, <2>2, <2>3
<1>21. Payable(ledger, moved)
  <2>1. m1 \in Move /\ m2 \in Move
    BY <1>14 DEF Given
  <2>2. Payable(ledger, g.moves)
    BY <1>10 DEF FormFit
  <2>3. Payable(ledger, s1)
    <3>1. m1.cash <= ledger[m1.from].cash
      BY <1>1, <1>13, <1>14
    <3>2. \A i \in DOMAIN g.moves : g.moves[i].from # m1.from
      BY <1>12, <1>14
    <3>3. Payable(ledger, Append(g.moves, m1))
      BY <2>1, <2>2, <3>1, <3>2, PayableMore
    <3>4. QED
      BY <1>18, <2>2, <3>3
  <2>4. Payable(ledger, Append(s1, m2))
    <3>1. ~(m2.cash > 0)
      BY <1>14
    <3>2. QED
      BY <2>1, <2>3, <3>1, PayableMore
  <2>5. QED
    BY <1>19, <2>3, <2>4
<1>22. /\ SeedsFit(DOMAIN g.funds, seeds)
       /\ \A i \in DOMAIN seeds :
             seeds[i].team = t \/ \E j \in DOMAIN g.seeds : seeds[i] = g.seeds[j]
  <2>1. PICK ids : ids = DOMAIN g.funds
    OBVIOUS
  <2>2. SeedsFit(ids, g.seeds) /\ f \in ids
    BY <1>10, <1>12, <2>1 DEF FormFit
  <2>3. seed \in [fund : ids, team : Team, amount : Int, units : Nat] /\ seed.team = t
    BY <1>2, <1>11, <1>13, <2>2
  <2>4. CASE seeds = g.seeds
    BY <2>1, <2>2, <2>4
  <2>5. CASE seeds = Append(g.seeds, seed)
    <3>1. \A i \in DOMAIN g.seeds : g.seeds[i].team # seed.team
      BY <1>12, <2>3
    <3>2. /\ SeedsFit(ids, Append(g.seeds, seed))
          /\ \A i \in DOMAIN Append(g.seeds, seed) :
                \/ Append(g.seeds, seed)[i] = seed
                \/ i \in DOMAIN g.seeds /\ Append(g.seeds, seed)[i] = g.seeds[i]
      BY <2>2, <2>3, <3>1, SeedsMore
    <3>3. QED
      BY <2>1, <2>3, <2>5, <3>2
  <2>6. QED
    BY <1>4, <2>4, <2>5
<1>23. /\ h.op = g.op /\ h.funds = g.funds /\ h.ranking = g.ranking
       /\ h.todo = todo /\ h.moves = moved /\ h.seeds = seeds
  BY <1>5, <1>9 DEF FormNote
<1>24. FormFit(ledger, h)
  BY <1>10, <1>19, <1>21, <1>22, <1>23 DEF FormFit
<1>25. ReadingFit(h)
  <2>1. \A i, j \in DOMAIN todo : todo[i] = todo[j] => i = j
    BY <1>10, <1>11 DEF ReadingFit
  <2>2. ASSUME NEW i \in DOMAIN todo
        PROVE  /\ todo[i] # t
               /\ \E x \in DOMAIN g.funds : todo[i] \in ToSet(g.funds[x].members)
               /\ \A j \in DOMAIN g.moves : g.moves[j].from # todo[i]
               /\ \A j \in DOMAIN g.seeds : g.seeds[j].team # todo[i]
    <3>1. i + 1 \in DOMAIN g.todo /\ todo[i] = g.todo[i + 1] /\ i + 1 # 1
      BY <1>11
    <3>2. QED
      BY <1>10, <1>11, <3>1 DEF ReadingFit
  <2>3. ASSUME NEW i \in DOMAIN todo
        PROVE  /\ \A j \in DOMAIN moved : moved[j].from # todo[i]
               /\ \A j \in DOMAIN seeds : seeds[j].team # todo[i]
    BY <1>20, <1>22, <2>2
  <2>4. QED
    BY <1>11, <1>23, <2>1, <2>2, <2>3 DEF ReadingFit
<1>26. Fits(c)'
  BY <1>8, <1>9, <1>24, <1>25 DEF Fits
<1>27. QED
  BY <1>6, <1>8, <1>26, QuietStep

(* Pairs of teams, and the funds they form. *)
FormedOf(f, m) == [account |-> f, members |-> m, trader |-> m[1]]

LEMMA FormedFits ==
  ASSUME NEW f \in FundId, NEW m \in Team \X Team
  PROVE  /\ FormedOf(f, m) \in [account : FundId, members : Team \X Team, trader : Team]
         /\ FormedOf(f, m).members = m
<1>1. m[1] \in Team
  OBVIOUS
<1>2. QED
  BY <1>1 DEF FormedOf

LEMMA FundsFit ==
  ASSUME NEW p, Paired(p)
  PROVE  LET fs == FundsOf(p)
         IN  /\ DOMAIN fs \subseteq FundId
             /\ fs \in [DOMAIN fs -> [account : FundId, members : Team \X Team, trader : Team]]
             /\ \A i \in 1 .. Len(p) : \E f \in DOMAIN fs : fs[f].members = p[i]
<1>1. PICK k \in Nat : k = Len(p) /\ DOMAIN p = 1 .. k /\ p \in Seq(Team \X Team)
  BY DEF Paired
<1>2. PICK n \in Nat : n = Len(FundIds) /\ DOMAIN FundIds = 1 .. n
  BY FundAssumption
<1>3. k <= n /\ \A i \in 1 .. k : i \in DOMAIN FundIds /\ p[i] \in Team \X Team
  BY <1>1, <1>2 DEF Paired
<1>4. \A i, j \in DOMAIN FundIds : FundIds[i] = FundIds[j] => i = j
  BY FundAssumption DEF IsInjective
<1>5. \A i \in 1 .. k : FundIds[i] \in FundId
  BY <1>3 DEF FundId, ToSet
<1>6. PICK fs : fs = FundsOf(p)
  OBVIOUS
<1>7. DOMAIN fs = {FundIds[i] : i \in 1 .. k}
  BY <1>1, <1>6 DEF FundsOf
<1>8. \A i \in 1 .. k : FundIds[i] \in DOMAIN fs /\ fs[FundIds[i]] = FormedOf(FundIds[i], p[i])
  <2>1. SUFFICES ASSUME NEW i \in 1 .. k
                 PROVE  FundIds[i] \in DOMAIN fs /\ fs[FundIds[i]] = FormedOf(FundIds[i], p[i])
    OBVIOUS
  <2>2. PICK f : f = FundIds[i]
    OBVIOUS
  <2>3. f \in DOMAIN fs
    BY <1>7, <2>2
  <2>4. PICK j : j = CHOOSE m \in DOMAIN p : FundIds[m] = f
    OBVIOUS
  <2>5. j \in 1 .. k /\ FundIds[j] = f
    BY <1>1, <2>2, <2>4
  <2>6. j = i
    BY <1>3, <1>4, <2>2, <2>5
  <2>7. fs[f] = [account |-> f, members |-> p[j], trader |-> p[j][1]]
    BY <1>1, <1>6, <2>3, <2>4 DEF FundsOf
  <2>8. fs[f] = FormedOf(f, p[j])
    BY <2>7 DEF FormedOf
  <2>9. QED
    BY <2>2, <2>3, <2>6, <2>8
<1>9. ASSUME NEW f \in DOMAIN fs
      PROVE  fs[f] \in [account : FundId, members : Team \X Team, trader : Team]
  <2>1. PICK i \in 1 .. k : f = FundIds[i]
    BY <1>7
  <2>2. fs[f] = FormedOf(f, p[i]) /\ f \in FundId /\ p[i] \in Team \X Team
    BY <1>3, <1>5, <1>8, <2>1
  <2>3. QED
    BY <2>2, FormedFits
<1>10. fs = [f \in DOMAIN fs |-> fs[f]]
  BY <1>6 DEF FundsOf
<1>11. DOMAIN fs \subseteq FundId
  BY <1>5, <1>7
<1>12. fs \in [DOMAIN fs -> [account : FundId, members : Team \X Team, trader : Team]]
  BY <1>9, <1>10
<1>13. \A i \in 1 .. k : \E f \in DOMAIN fs : fs[f].members = p[i]
  <2>1. SUFFICES ASSUME NEW i \in 1 .. k PROVE \E f \in DOMAIN fs : fs[f].members = p[i]
    OBVIOUS
  <2>2. PICK f : f = FundIds[i]
    OBVIOUS
  <2>3. f \in DOMAIN fs /\ fs[f] = FormedOf(f, p[i]) /\ f \in FundId /\ p[i] \in Team \X Team
    BY <1>3, <1>5, <1>8, <2>2
  <2>4. fs[f].members = p[i]
    BY <2>3, FormedFits
  <2>5. QED
    BY <2>3, <2>4
<1>14. QED
  BY <1>1, <1>6, <1>11, <1>12, <1>13

LEMMA NoMovesPayable ==
  ASSUME NEW l
  PROVE  Payable(l, <<>>) /\ <<>> \in Seq(Given)
BY DEF Payable

LEMMA NoSeedsFit ==
  ASSUME NEW funds
  PROVE  SeedsFit(funds, <<>>)
<1>1. PICK R : R = [fund : funds, team : Team, amount : Int, units : Nat]
  OBVIOUS
<1>2. <<>> \in Seq(R)
  OBVIOUS
<1>3. QED
  BY <1>1, <1>2 DEF SeedsFit

LEMMA FormPlanned ==
  ASSUME FitInv, NEW c \in Call, pc[c] = "asked", Moved1(c), PlanForm(c)
  PROVE  Fits(c)'
<1>1. Kind(c) = "form"
  BY DEF PlanForm
<1>2. PICK p : p = IF Wants[c].pairs = <<>> THEN Pairs ELSE Wants[c].pairs
  OBVIOUS
<1>3. CASE Ends(c)
  <2>1. pc'[c] = "over"
    BY <1>3, Facts, EndsShape DEF Ends
  <2>2. QED
    BY <2>1, NothingFits
<1>4. CASE ~Ends(c)
  <2>1. PICK e, fs, t : e = <<>> /\ fs = FundsOf(p) /\ t = TeamsOf(p)
    OBVIOUS
  <2>2. PICK h : h = [op |-> "formed", funds |-> fs, moves |-> e, seeds |-> e,
                      ranking |-> p, todo |-> t]
    OBVIOUS
  <2>3. /\ ~(Wants[c].pairs = <<>> /\ Cardinality(Standing) < 2 * Len(FundIds))
        /\ To(c, "reading") /\ Note(c, h)
    BY <1>2, <1>4, <2>1, <2>2 DEF PlanForm
  <2>4. pc'[c] = "reading" /\ got'[c] = h
    BY <2>3, Facts, PutsAt DEF Acting
  <2>5. Paired(p)
    <3>1. CASE Wants[c].pairs = <<>>
      <4>1. ~(Cardinality(Standing) < 2 * Len(FundIds))
        BY <2>3, <3>1
      <4>2. Paired(Pairs)
        <5>1. Cardinality(Standing) \in Nat /\ 2 * Len(FundIds) \in Nat
          BY FundAssumption, FS_CardinalityType
        <5>2. Cardinality(Standing) >= 2 * Len(FundIds)
          BY <4>1, <5>1
        <5>3. QED
          BY <5>2, PairingAssumption
      <4>3. QED
        BY <1>2, <3>1, <4>2
    <3>2. CASE Wants[c].pairs # <<>>
      BY <1>1, <1>2, <3>2, PairingAssumption DEF Kind
    <3>3. QED
      BY <3>1, <3>2
  <2>6. /\ DOMAIN fs \subseteq FundId
        /\ fs \in [DOMAIN fs -> [account : FundId, members : Team \X Team, trader : Team]]
        /\ \A i \in 1 .. Len(p) : \E f \in DOMAIN fs : fs[f].members = p[i]
    BY <2>1, <2>5, FundsFit
  <2>7. p \in Seq(Team \X Team) /\ IsInjective(t)
    BY <2>1, <2>5 DEF Paired
  <2>8. /\ t \in Seq(Team) /\ DOMAIN t = 1 .. 2 * Len(p)
        /\ \A n \in 1 .. 2 * Len(p) :
              (n + 1) \div 2 \in 1 .. Len(p) /\ t[n] \in ToSet(p[(n + 1) \div 2])
    BY <2>1, <2>7, TeamsAre
  <2>9. \A n \in DOMAIN t : \E f \in DOMAIN fs : t[n] \in ToSet(fs[f].members)
    <3>1. ASSUME NEW n \in DOMAIN t
          PROVE  \E f \in DOMAIN fs : t[n] \in ToSet(fs[f].members)
      <4>1. PICK i \in 1 .. Len(p) : t[n] \in ToSet(p[i])
        BY <2>8
      <4>2. PICK f \in DOMAIN fs : fs[f].members = p[i]
        BY <2>6
      <4>3. QED
        BY <4>1, <4>2
    <3>2. QED
      BY <3>1
  <2>10. Payable(ledger', e) /\ e \in Seq(Given) /\ SeedsFit(DOMAIN fs, e) /\ DOMAIN e = {}
    <3>1. Payable(ledger', e) /\ e \in Seq(Given)
      BY <2>1, NoMovesPayable
    <3>2. SeedsFit(DOMAIN fs, e)
      BY <2>1, NoSeedsFit
    <3>3. DOMAIN e = {}
      BY <2>1
    <3>4. QED
      BY <3>1, <3>2, <3>3
  <2>11. /\ h.funds = fs /\ h.moves = e /\ h.seeds = e /\ h.ranking = p /\ h.todo = t
    BY <2>2
  <2>12. FormFit(ledger', h)
    BY <2>6, <2>7, <2>10, <2>11 DEF FormFit
  <2>13. ReadingFit(h)
    <3>1. \A i, j \in DOMAIN t : t[i] = t[j] => i = j
      BY <2>7 DEF IsInjective
    <3>2. QED
      BY <2>8, <2>9, <2>10, <2>11, <3>1 DEF ReadingFit
  <2>14. QED
    BY <1>1, <2>4, <2>12, <2>13 DEF Fits
<1>5. QED
  BY <1>3, <1>4

LEMMA BackPlanned ==
  ASSUME FitInv, NEW c \in Call, pc[c] = "asked", Moved1(c), PlanDissolve(c)
  PROVE  Fits(c)'
<1>1. Kind(c) = "dissolve"
  BY DEF PlanDissolve
<1>2. CASE Ends(c)
  <2>1. pc'[c] = "over"
    BY <1>2, Facts, EndsShape DEF Ends
  <2>2. QED
    BY <2>1, NothingFits
<1>3. CASE ~Ends(c)
  <2>1. PICK s, r : /\ s = book.moves
                    /\ r = [i \in DOMAIN s |-> [s[i] EXCEPT !.from = s[i].to, !.to = s[i].from]]
    OBVIOUS
  <2>2. PICK h : h = [op |-> "dissolve", moves |-> r]
    OBVIOUS
  <2>3. To(c, "storing") /\ Note(c, h)
    BY <1>3, <2>1, <2>2 DEF PlanDissolve
  <2>4. pc'[c] = "storing" /\ got'[c] = h
    BY <2>3, Facts, PutsAt DEF Acting
  <2>5. s \in Seq(Given)
    BY <2>1, Facts DEF BookOK
  <2>6. PICK R : R = {m \in Move : m.from \in FundId}
    OBVIOUS
  <2>7. ASSUME NEW i \in DOMAIN s PROVE r[i] \in R
    <3>1. PICK m : m = s[i]
      OBVIOUS
    <3>2. m \in Given
      BY <2>5, <3>1
    <3>3. m \in Move /\ m.from \in Team /\ m.to \in FundId
      BY <3>2 DEF Given
    <3>4. PICK w : w = [m EXCEPT !.from = m.to, !.to = m.from]
      OBVIOUS
    <3>5. w \in Move /\ w.from \in FundId
      BY <3>3, <3>4 DEF Move, Account
    <3>6. r[i] = w
      BY <2>1, <3>1, <3>4
    <3>7. QED
      BY <2>6, <3>5, <3>6
  <2>8. PICK n \in Nat : DOMAIN s = 1 .. n
    BY <2>5
  <2>9. r \in [1 .. n -> R]
    BY <2>1, <2>7, <2>8
  <2>10. r \in Seq(R)
    BY <2>9
  <2>11. h.moves \in Seq({m \in Move : m.from \in FundId})
    BY <2>2, <2>6, <2>10
  <2>12. QED
    BY <1>1, <2>4, <2>11 DEF Fits, Restructures
<1>4. QED
  BY <1>2, <1>3

(* What division gives. *)
LEMMA ShareFits ==
  ASSUME NEW n \in Nat, NEW nav, nav \in Rate, nav.of > 0
  PROVE  (n * nav.per) \div nav.of \in Nat /\ (n * nav.of) \div nav.per \in Nat
<1>1. PICK a \in Nat \ {0}, b \in Nat \ {0} : a = nav.of /\ b = nav.per
  BY DEF Rate
<1>2. PICK x \in Nat, y \in Nat : x = n * b /\ y = n * a
  OBVIOUS
<1>3. x \div a \in Nat /\ y \div b \in Nat
  BY <1>1, <1>2
<1>4. QED
  BY <1>1, <1>2, <1>3

LEMMA EventPlanned ==
  ASSUME FitInv, NEW c \in Call, NEW p \in {"raising", "storing"}, NEW ev,
         pc[c] = "asked", book' = book, To(c, p), Note(c, ev), ~Restructures(c), EventFit(book, ev)
  PROVE  Fits(c)'
<1>1. pc'[c] = p /\ got'[c] = ev
  BY Facts, PutsAt DEF Acting
<1>2. ~Restructures(c)' /\ ~(Kind(c)' = "form") /\ ~(Kind(c)' = "dissolve")
  BY DEF Restructures, Kind
<1>3. QED
  BY <1>1, <1>2 DEF Fits

LEMMA AllocPlanned ==
  ASSUME FitInv, NEW c \in Call, pc[c] = "asked", book' = book, PlanAlloc(c)
  PROVE  Fits(c)'
<1>1. Kind(c) = "alloc" /\ ~Restructures(c)
  BY DEF PlanAlloc, Restructures
<1>2. CASE Ends(c)
  <2>1. pc'[c] = "over"
    BY <1>2, Facts, EndsShape DEF Ends
  <2>2. QED
    BY <2>1, NothingFits
<1>3. CASE ~Ends(c)
  <2>1. PICK w, nav, units : /\ w = Wants[c] /\ nav = NavOf(w.fund)
                             /\ units = (w.amount * nav.per) \div nav.of
    OBVIOUS
  <2>2. PICK ev : ev = [op |-> "alloc", fund |-> w.fund, who |-> w.who, window |-> Window,
                        amount |-> w.amount, units |-> units, nav |-> nav, at |-> moves]
    OBVIOUS
  <2>3. w.fund \in DOMAIN book.funds /\ nav.of > 0 /\ To(c, "storing") /\ Note(c, ev)
    BY <1>3, <2>1, <2>2 DEF PlanAlloc
  <2>4. w.who \in Team /\ w.amount \in Nat
    <3>1. w \in Request /\ w.kind = "alloc"
      BY <1>1, <2>1, FundAssumption DEF Kind
    <3>2. QED
      BY <3>1 DEF Request
  <2>5. nav \in Rate
    BY <2>1, <2>3, Facts, NavRate
  <2>6. units \in Nat
    BY <2>1, <2>3, <2>4, <2>5, ShareFits
  <2>7. EventFit(book, ev)
    BY <2>2, <2>4, <2>6 DEF EventFit
  <2>8. QED
    BY <1>1, <2>3, <2>7, EventPlanned
<1>4. QED
  BY <1>2, <1>3

LEMMA RedeemPlanned ==
  ASSUME FitInv, NEW c \in Call, pc[c] = "asked", book' = book, PlanRedeem(c)
  PROVE  Fits(c)'
<1>1. Kind(c) = "redeem" /\ ~Restructures(c)
  BY DEF PlanRedeem, Restructures
<1>2. CASE Ends(c)
  <2>1. pc'[c] = "over"
    BY <1>2, Facts, EndsShape DEF Ends
  <2>2. QED
    BY <2>1, NothingFits
<1>3. CASE ~Ends(c)
  <2>1. PICK w, nav, has, asked :
             /\ w = Wants[c] /\ nav = NavOf(w.fund)
             /\ has = HoldingIn(book, w.who, w.fund).units
             /\ asked = (w.amount * nav.per) \div nav.of
    OBVIOUS
  <2>2. PICK units : units = IF w.all \/ asked > has THEN has ELSE asked
    OBVIOUS
  <2>3. PICK amount : amount = Paid(units, nav)
    OBVIOUS
  <2>4. PICK ev : ev = [op |-> "redeem", fund |-> w.fund, who |-> w.who, window |-> Window,
                        amount |-> amount, units |-> units, nav |-> nav, at |-> moves, sell |-> 0]
    OBVIOUS
  <2>5. /\ w.fund \in DOMAIN book.funds /\ nav.of > 0
        /\ To(c, "raising") /\ Note(c, ev)
    BY <1>3, <2>1, <2>2, <2>3, <2>4 DEF PlanRedeem
  <2>6. w.who \in Team /\ w.amount \in Nat
    <3>1. w \in Request /\ w.kind = "redeem"
      BY <1>1, <2>1, FundAssumption DEF Kind
    <3>2. QED
      BY <3>1 DEF Request
  <2>7. nav \in Rate
    BY <2>1, <2>5, Facts, NavRate
  <2>8. asked \in Nat /\ has \in Nat
    <3>1. asked \in Nat
      BY <2>1, <2>5, <2>6, <2>7, ShareFits
    <3>2. has \in Nat
      BY <2>1, Facts, HoldingIs DEF Held
    <3>3. QED
      BY <3>1, <3>2
  <2>9. units \in Nat /\ units <= has
    <3>1. CASE w.all \/ asked > has
      BY <2>2, <2>8, <3>1
    <3>2. CASE ~(w.all \/ asked > has)
      BY <2>2, <2>8, <3>2
    <3>3. QED
      BY <3>1, <3>2
  <2>10. amount \in Nat
    BY <2>3, <2>5, <2>7, <2>9, ShareFits DEF Paid
  <2>11. /\ ev.op = "redeem" /\ ev.who = w.who /\ ev.fund = w.fund /\ ev.units = units
         /\ ev.amount = amount
    BY <2>4
  <2>12. EventFit(book, ev)
    BY <2>1, <2>6, <2>9, <2>10, <2>11 DEF EventFit
  <2>13. QED
    BY <1>1, <2>5, <2>12, EventPlanned
<1>4. QED
  BY <1>2, <1>3

(* What a checkpoint says of a fund. *)
LEMMA FeeIs ==
  ASSUME NEW fund, fund.units \in Int, fund.mark \in Rate, NEW nav \in Rate, NEW perf \in Nat
  PROVE  /\ PerformanceFee(fund, nav, perf) \in Int
         /\ ~Above(nav, fund.mark) => PerformanceFee(fund, nav, perf) = 0
<1>1. CASE ~Above(nav, fund.mark)
  BY <1>1 DEF PerformanceFee
<1>2. CASE Above(nav, fund.mark)
  <2>1. PICK a \in Int, b \in Nat \ {0}, m \in Int, n \in Nat \ {0}, u \in Int :
             a = nav.of /\ b = nav.per /\ m = fund.mark.of /\ n = fund.mark.per /\ u = fund.units
    BY DEF Rate
  <2>2. PICK x, y : x = (a * n - m * b) * perf /\ y = b * n * 100
    OBVIOUS
  <2>3. x \in Int
    <3>1. PICK z \in Int : z = a * n - m * b
      OBVIOUS
    <3>2. x = z * perf
      BY <2>2, <3>1
    <3>3. QED
      BY <3>2
  <2>4. y \in Nat \ {0}
    <3>1. PICK z \in Nat \ {0} : z = b * n
      OBVIOUS
    <3>2. y = z * 100
      BY <2>2, <3>1
    <3>3. QED
      BY <3>2
  <2>5. PICK profit : profit = [of |-> x, per |-> y]
    OBVIOUS
  <2>6. PerformanceFee(fund, nav, perf) = ValueOf(u, profit)
    BY <1>2, <2>1, <2>2, <2>5 DEF PerformanceFee
  <2>7. ValueOf(u, profit) = (2 * u * x + y) \div (2 * y)
    BY <2>5 DEF ValueOf
  <2>8. PICK s : s = 2 * u * x + y
    OBVIOUS
  <2>9. s \in Int
    <3>1. u * x \in Int
      BY <2>1, <2>3
    <3>2. QED
      BY <2>4, <2>8, <3>1
  <2>10. PICK t \in Nat \ {0} : t = 2 * y
    BY <2>4
  <2>11. s \div t \in Int
    BY <2>9, <2>10
  <2>12. QED
    BY <1>2, <2>6, <2>7, <2>8, <2>10, <2>11
<1>3. QED
  BY <1>1, <1>2

LEMMA CheckedIs ==
  ASSUME NEW b, BookOK(b), NEW f \in DOMAIN b.funds, NEW nav \in Rate, NEW aum, NEW mgmt,
         NEW perf \in Nat, NEW k, k = Checked(b, f, nav, aum, mgmt, perf)
  PROVE  /\ k.nav = nav /\ k.perf \in Int /\ (k.perf > 0 => Above(nav, b.funds[f].mark))
         /\ k.markAfter \in Rate
         /\ Above(nav, b.funds[f].mark) => k.markAfter = nav
         /\ ~Above(nav, b.funds[f].mark) => k.markAfter = b.funds[f].mark
<1>1. PICK g : g = b.funds[f]
  OBVIOUS
<1>2. g.units \in Int /\ g.mark \in Rate
  BY <1>1 DEF BookOK, FundOK
<1>3. PICK m, p, q, r : /\ m = ManagementFee(b, f, aum, mgmt) /\ p = PerformanceFee(g, nav, perf)
                        /\ q = g.mark /\ r = IF Above(nav, q) THEN nav ELSE q
  OBVIOUS
<1>4. k = [nav |-> nav, mgmt |-> m, perf |-> p, markBefore |-> q, markAfter |-> r]
  BY <1>1, <1>3 DEF Checked
<1>5. k.nav = nav /\ k.perf = p /\ k.markAfter = r
  BY <1>4
<1>6. p \in Int /\ (~Above(nav, q) => p = 0)
  BY <1>2, <1>3, FeeIs
<1>7. p > 0 => Above(nav, q)
  BY <1>6
<1>8. (Above(nav, q) => r = nav) /\ (~Above(nav, q) => r = q)
  BY <1>3
<1>9. r \in Rate
  BY <1>2, <1>3, <1>8
<1>10. QED
  BY <1>1, <1>3, <1>5, <1>6, <1>7, <1>8, <1>9

LEMMA ChecksFit ==
  ASSUME FitInv, NEW name, NEW k,
         k = PlanCheckpoint(book, name, Navs, AUMs, Rules.mgmt, Rules.perf)
  PROVE  CheckFit(book, k)
<1>1. BookOK(book) /\ Rules.perf \in Nat
  BY Facts, FundAssumption
<1>2. PICK fs : fs = k.funds
  OBVIOUS
<1>3. DOMAIN fs = DOMAIN book.funds
  BY <1>2 DEF PlanCheckpoint
<1>4. ASSUME NEW f \in DOMAIN book.funds
      PROVE  \E nav \in Rate : fs[f] = Checked(book, f, nav, AUMs[f], Rules.mgmt, Rules.perf)
  <2>1. NavOf(f) \in Rate
    BY Facts, NavRate
  <2>2. PICK nav : nav = IF Navs[f].of > 0 THEN Navs[f] ELSE LaunchNAV
    OBVIOUS
  <2>3. Navs[f] = NavOf(f) /\ LaunchNAV \in Rate
    BY DEF Navs, LaunchNAV, Rate
  <2>4. nav \in Rate
    BY <2>1, <2>2, <2>3
  <2>5. fs[f] = Checked(book, f, nav, AUMs[f], Rules.mgmt, Rules.perf)
    BY <1>2, <2>2 DEF PlanCheckpoint
  <2>6. QED
    BY <2>4, <2>5
<1>5. ASSUME NEW f \in DOMAIN book.funds
      PROVE  LET mark == book.funds[f].mark
             IN  /\ fs[f].nav \in Rate /\ fs[f].perf \in Int /\ fs[f].markAfter \in Rate
                 /\ fs[f].perf > 0 => Above(fs[f].nav, mark)
                 /\ Above(fs[f].nav, mark) => fs[f].markAfter = fs[f].nav
                 /\ ~Above(fs[f].nav, mark) => fs[f].markAfter = mark
  <2>1. PICK nav \in Rate : fs[f] = Checked(book, f, nav, AUMs[f], Rules.mgmt, Rules.perf)
    BY <1>4
  <2>2. PICK r, g, aum : r = fs[f] /\ g = Rules.mgmt /\ aum = AUMs[f]
    OBVIOUS
  <2>3. /\ r.nav = nav /\ r.perf \in Int /\ (r.perf > 0 => Above(nav, book.funds[f].mark))
        /\ r.markAfter \in Rate
        /\ Above(nav, book.funds[f].mark) => r.markAfter = nav
        /\ ~Above(nav, book.funds[f].mark) => r.markAfter = book.funds[f].mark
    BY <1>1, <2>1, <2>2, CheckedIs
  <2>4. QED
    BY <2>2, <2>3
<1>6. CheckOK(k)
  BY <1>2, <1>3, <1>5 DEF CheckOK
<1>7. QED
  BY <1>2, <1>3, <1>5, <1>6 DEF CheckFit

LEMMA OnePlanned ==
  ASSUME FitInv, NEW c \in Call, pc[c] = "asked", book' = book, PlanOne(c)
  PROVE  Fits(c)'
<1>1. /\ ~Restructures(c)
      /\ Kind(c) \in {"profile", "trader", "fundDQ", "log", "sample", "checkpoint"}
  BY DEF PlanOne, Restructures
<1>2. PICK w : w = Wants[c] /\ w \in Request /\ w.kind = Kind(c)
  BY FundAssumption DEF Kind
<1>3. ASSUME NEW ev \in Planned(c) PROVE EventFit(book, ev)
  <2>1. CASE Kind(c) = "profile"
    <3>1. ev = [op |-> "profile", fund |-> got[c].fund, fee |-> w.fee]
      BY <1>2, <1>3, <2>1 DEF Planned, FundProfile
    <3>2. w.fee \in Nat
      BY <1>2, <2>1 DEF Request
    <3>3. QED
      BY <3>1, <3>2 DEF EventFit
  <2>2. CASE Kind(c) = "trader"
    <3>1. ev = [op |-> "trader", fund |-> got[c].fund, who |-> w.who]
      BY <1>2, <1>3, <2>2 DEF Planned, FundTrader
    <3>2. w.who \in Team
      BY <1>2, <2>2 DEF Request
    <3>3. QED
      BY <3>1, <3>2 DEF EventFit
  <2>3. CASE Kind(c) = "fundDQ"
    <3>1. ev.op = "fundDQ"
      BY <1>3, <2>3 DEF Planned, Disqualified
    <3>2. QED
      BY <3>1 DEF EventFit
  <2>4. CASE Kind(c) = "log"
    <3>1. ev.op = "log"
      BY <1>3, <2>4 DEF Planned, StrategyLog
    <3>2. QED
      BY <3>1 DEF EventFit
  <2>5. CASE Kind(c) = "sample"
    <3>1. ev.op = "series" /\ ev.navs = Navs /\ ev.aums = AUMs
      BY <1>3, <2>5 DEF Planned, Series
    <3>2. ASSUME NEW f \in DOMAIN book.funds \cap DOMAIN ev.navs
          PROVE  ev.navs[f] \in Rate /\ ev.aums[f] \in Int
      <4>1. NavOf(f) \in Rate /\ FundValue(f) \in Int
        BY Facts, NavRate
      <4>2. QED
        BY <3>1, <4>1 DEF Navs, AUMs
    <3>3. QED
      BY <3>1, <3>2 DEF EventFit
  <2>6. CASE Kind(c) = "checkpoint"
    <3>1. PICK name : ev = [op |-> "checkpoint", check |->
                            PlanCheckpoint(book, name, Navs, AUMs, Rules.mgmt, Rules.perf)]
      BY <1>3, <2>6 DEF Planned, CheckpointOnce
    <3>2. PICK k : k = PlanCheckpoint(book, name, Navs, AUMs, Rules.mgmt, Rules.perf)
      OBVIOUS
    <3>3. CheckFit(book, k)
      BY <3>2, ChecksFit
    <3>4. ev.op = "checkpoint" /\ ev.check = k
      BY <3>1, <3>2
    <3>5. QED
      BY <3>3, <3>4 DEF EventFit
  <2>7. QED
    BY <1>1, <2>1, <2>2, <2>3, <2>4, <2>5, <2>6
<1>4. CASE Ends(c)
  <2>1. pc'[c] = "over"
    BY <1>4, Facts, EndsShape DEF Ends
  <2>2. QED
    BY <2>1, NothingFits
<1>5. CASE ~Ends(c)
  <2>1. PICK ev \in Planned(c) : To(c, "storing") /\ Note(c, ev)
    BY <1>5 DEF PlanOne
  <2>2. EventFit(book, ev)
    BY <1>3
  <2>3. QED
    BY <1>1, <2>1, <2>2, EventPlanned
<1>6. QED
  BY <1>4, <1>5

LEMMA PlanStep ==
  ASSUME FitInv, NEW c \in Call, Plan(c)
  PROVE  FitAfter
<1>1. /\ pc[c] = "asked" /\ book' = book /\ UNCHANGED <<state, disk>> /\ Moved1(c)
  BY Facts, PlanShape DEF Plan, state
<1>2. Fits(c)'
  BY <1>1, FormPlanned, BackPlanned, AllocPlanned, RedeemPlanned, OnePlanned DEF Plan
<1>3. QED
  BY <1>1, <1>2, QuietStep

-----------------------------------------------------------------------------
(* The invariant holds, and says what it is for.                           *)
LEMMA StillFits ==
  ASSUME FitInv, UNCHANGED <<state, disk, pc, got>>
  PROVE  FitAfter
<1>1. /\ ledger' = ledger /\ book' = book /\ role' = role /\ traded' = traded /\ log' = log
      /\ pc' = pc /\ got' = got
  BY DEF state, disk
<1>2. StateFit(Live)'
  BY <1>1, Facts, LiveAfter
<1>3. StateFit(Rebuilt(log))'
  BY <1>1, Facts, StillLogged
<1>4. ASSUME NEW c \in Call PROVE Fits(c)'
  <2>1. Fits(c)
    BY Facts
  <2>2. QED
    BY <1>1, <2>1 DEF Fits, Kind, Restructures
<1>5. QED
  BY <1>2, <1>3, <1>4 DEF FitAfter

LEMMA FitSteps ==
  ASSUME FitInv, [Next]_vars
  PROVE  FitAfter
<1>1. ASSUME NEW c \in Call, CallStep(c) PROVE FitAfter
  BY <1>1, TradeStep, RecordStep, PlanStep, ReadStep, ReadAllStep, RaiseStep, SellStep, StoreStep,
     ApplyEventStep, OpenStep, BackStep, MoveStep, AllMovedStep, RemoveStep, RoleStep,
     RolesSetStep DEF CallStep
<1>2. QED
  BY <1>1, EnterStep, KillStep, StillFits, StepCases

LEMMA FitInvHolds ==
  ASSUME ~Rush
  PROVE  /\ Init => FitInv
         /\ FitInv /\ [Next]_vars => FitInv'
<1>1. ASSUME Init PROVE FitInv
  <2>1. PICK past \in Pasts : /\ ledger = Rebuilt(past).ledger /\ book = Rebuilt(past).book
                              /\ role = Rebuilt(past).role /\ traded = Rebuilt(past).traded
                              /\ log = past
    BY <1>1 DEF Init
  <2>2. PICK s : s = Rebuilt(past)
    OBVIOUS
  <2>3. s.ok = TRUE /\ StateFit(s)
    BY <2>2, PastAssumption DEF StateOK, StateFit
  <2>4. Live = s
    BY <2>1, <2>2, <2>3 DEF Live, StateFit, StateOK
  <2>5. \A c \in Call : Fits(c)
    <3>1. \A c \in Call : pc[c] = "idle"
      BY <1>1 DEF Init
    <3>2. QED
      BY <3>1 DEF Fits
  <2>6. RestartInv /\ price \in Price
    BY <1>1, FundAssumption, RestartInvHolds DEF Init
  <2>7. QED
    BY <2>1, <2>2, <2>3, <2>4, <2>5, <2>6 DEF FitInv
<1>2. ASSUME FitInv, [Next]_vars PROVE FitInv'
  <2>1. RestartInv'
    BY <1>2, RestartInvHolds DEF FitInv
  <2>2. price' \in Price
    <3>1. price \in Price
      BY <1>2 DEF FitInv
    <3>2. CASE PriceMove
      BY <3>2 DEF PriceMove
    <3>3. price' = price \/ PriceMove
      <4>1. ASSUME NEW c \in Call, Enter(c) PROVE price' = price
        BY <4>1 DEF Enter
      <4>2. ASSUME NEW c \in Call, CallStep(c) PROVE price' = price
        BY <4>2 DEF CallStep, Trade, Record, Plan, ReadTeam, ReadAll, Raise, Sell, Store,
           ApplyEvent, OpenFunds, StartBack, MoveNext, AllMoved, RemoveFunds, SetRole, RolesSet, world
      <4>3. QED
        BY <1>2, <4>1, <4>2 DEF Next, CloseWindow, Kill, vars, world
    <3>4. QED
      BY <3>1, <3>2, <3>3
  <2>3. FitAfter
    BY <1>2, FitSteps
  <2>4. QED
    BY <2>1, <2>2, <2>3 DEF FitInv, FitAfter
<1>3. QED
  BY <1>1, <1>2

Bounded ==
    /\ broken \in BOOLEAN /\ open \in BOOLEAN
    /\ calls \in 0 .. MaxCalls /\ moves \in 0 .. MaxMoves /\ kills \in 0 .. MaxKills

LEMMA BoundedHolds ==
  /\ Init => Bounded
  /\ Bounded /\ [Next]_vars => Bounded'
<1>1. ASSUME Init PROVE Bounded
  <2>1. broken = FALSE /\ open = TRUE /\ calls = 0 /\ moves = 0 /\ kills = 0
    BY <1>1 DEF Init
  <2>2. MaxCalls \in Nat /\ MaxMoves \in Nat /\ MaxKills \in Nat
    BY FundAssumption
  <2>3. broken \in BOOLEAN /\ open \in BOOLEAN
    BY <2>1, Zenon
  <2>4. calls \in 0 .. MaxCalls /\ moves \in 0 .. MaxMoves /\ kills \in 0 .. MaxKills
    BY <2>1, <2>2
  <2>5. QED
    BY <2>3, <2>4, Zenon DEF Bounded
<1>2. ASSUME Bounded, [Next]_vars PROVE Bounded'
  <2>1. ASSUME NEW c \in Call, Enter(c) PROVE Bounded'
    BY <1>2, <2>1, FundAssumption DEF Bounded, Enter, disk
  <2>2. ASSUME NEW c \in Call, CallStep(c) PROVE Bounded'
    <3>1. world' = world
      BY <2>2 DEF CallStep, Trade, Record, Plan, ReadTeam, ReadAll, Raise, Sell, Store,
         ApplyEvent, OpenFunds, StartBack, MoveNext, AllMoved, RemoveFunds, SetRole, RolesSet, world
    <3>2. broken' \in BOOLEAN
      BY <1>2, <2>2 DEF Bounded, CallStep, Trade, Record, Plan, ReadTeam, ReadAll, Raise, Sell,
         Store, ApplyEvent, OpenFunds, StartBack, MoveNext, AllMoved, RemoveFunds, SetRole,
         RolesSet, Execute, Stored, Failed, disk
    <3>3. QED
      BY <1>2, <3>1, <3>2 DEF Bounded, world
  <2>3. CASE PriceMove
    BY <1>2, <2>3, FundAssumption DEF Bounded, PriceMove, disk
  <2>4. CASE CloseWindow
    BY <1>2, <2>4 DEF Bounded, CloseWindow, disk
  <2>5. CASE Kill
    <3>1. /\ kills < MaxKills /\ kills' = kills + 1 /\ broken' = FALSE
          /\ open' = open /\ calls' = calls /\ moves' = moves
      BY <2>5 DEF Kill
    <3>2. MaxKills \in Nat
      BY FundAssumption
    <3>3. broken' \in BOOLEAN
      BY <3>1, Zenon
    <3>4. kills' \in 0 .. MaxKills
      BY <1>2, <3>1, <3>2 DEF Bounded
    <3>5. QED
      BY <1>2, <3>1, <3>3, <3>4, Zenon DEF Bounded
  <2>6. CASE UNCHANGED vars
    BY <1>2, <2>6 DEF Bounded, vars, disk, world
  <2>7. QED
    BY <1>2, <2>1, <2>2, <2>3, <2>4, <2>5, <2>6 DEF Next
<1>3. QED
  BY <1>1, <1>2

(* The state is always made of what it is said to be: no account, holding, *)
(* mark or role is ever anything the code does not know - if forming and   *)
(* dissolving are kept apart from trades.                                  *)
THEOREM FundsType ==
  ASSUME ~Rush
  PROVE  Spec => []TypeOK
<1>1. Init => FitInv /\ Bounded
  BY FitInvHolds, BoundedHolds
<1>2. (FitInv /\ Bounded) /\ [Next]_vars => (FitInv /\ Bounded)'
  BY FitInvHolds, BoundedHolds
<1>3. FitInv /\ Bounded => TypeOK
  BY DEF FitInv, StateFit, Bounded, RestartInv, Shapes, TypeOK
<1>4. QED
  BY <1>1, <1>2, <1>3, PTL DEF Spec

(* The units of a fund are those its teams and its investors hold, through *)
(* forming, allocating, redeeming, dissolving and every restart.           *)
THEOREM FundUnits ==
  ASSUME ~Rush
  PROVE  Spec => []UnitsOwned
<1>1. Init => FitInv
  BY FitInvHolds
<1>2. FitInv /\ [Next]_vars => FitInv'
  BY FitInvHolds
<1>3. FitInv => UnitsOwned
  BY Facts DEF BookFit, UnitsOwned
<1>4. QED
  BY <1>1, <1>2, <1>3, PTL DEF Spec

(* A performance fee is charged for new highs only: no checkpoint charges  *)
(* it for a NAV that an earlier one had reached, whatever was sampled,     *)
(* bought or paid out between them, and whatever restarts there were.      *)
THEOREM FundFees ==
  ASSUME ~Rush
  PROVE  Spec => []FeesOnNewHighs
<1>1. Init => FitInv
  BY FitInvHolds
<1>2. FitInv /\ [Next]_vars => FitInv'
  BY FitInvHolds
<1>3. FitInv => FeesOnNewHighs
  BY Facts DEF BookFit, FeesOnNewHighs
<1>4. QED
  BY <1>1, <1>2, <1>3, PTL DEF Spec
=============================================================================
