---------------------------- MODULE TimedProofs -----------------------------
(***************************************************************************)
(* What is proved of the two components that let things through by the     *)
(* time that has passed: the newsroom and the limit on trades.             *)
(*                                                                         *)
(* Newsroom, for every scenario, every set of organisers and requests, and *)
(* any number of pauses, kills, resets and disk faults: a story is         *)
(* published once in a life of the event unless the process was killed, no *)
(* price is off the scenario's limits, and nobody gets a story of Phase 2  *)
(* before the fund managers' head start is over.                           *)
(*                                                                         *)
(* TradeGate, for any requests on any accounts, any limit and window, and  *)
(* every order of their steps: the limiter's slots and the trades agree.   *)
(***************************************************************************)
EXTENDS Newsroom, TradeGate, Induction

(* What the variables hold. *)
Sims ==
    [fired : SUBSET DOMAIN Story, manual : BOOLEAN, skipped : SUBSET DOMAIN Story,
     edits : UNION {[d -> Int] : d \in SUBSET DOMAIN Story},
     market : Nat, tick : Nat, pending : Seq(Pending), shocks : Seq(Shock)]

Out == [story : DOMAIN Story, life : Nat]

Threads ==
    [at : {"idle", "publish", "public", "arming", "noting"}, out : Seq(Out), item : Nat,
     sim : Sims, price : Int, moves : BOOLEAN, saves : BOOLEAN, copies : BOOLEAN]

Items    == [story : DOMAIN Story, life : Nat, staggered : BOOLEAN]
Releases == [fm : BOOLEAN, pub : BOOLEAN]
Timers   == [left : Int, step : Nat \ {0}, wait : Nat]

TypedClock ==
    /\ elapsed \in 0 .. Close /\ wall \in 0 .. MaxWall
    /\ paused \in BOOLEAN /\ up \in BOOLEAN /\ second \in BOOLEAN
    /\ broken \in BOOLEAN /\ killed \in BOOLEAN /\ life \in Nat

TypedSim == sim \in Sims /\ log.sim \in Sims /\ thread \in [Thread -> Threads]

TypedNews ==
    /\ items \in Seq(Items)
    /\ waited \in Seq(Nat) /\ Len(waited) = Len(items)
    /\ DOMAIN rel \subseteq DOMAIN items /\ rel \in [DOMAIN rel -> Releases]
    /\ DOMAIN timer \subseteq DOMAIN items /\ timer \in [DOMAIN timer -> Timers]
    /\ late \subseteq DOMAIN items
    /\ DOMAIN log.news \subseteq DOMAIN items /\ log.news \in [DOMAIN log.news -> Releases]
    /\ log = [news |-> log.news, sim |-> log.sim, price |-> log.price]

Typed == TypedClock /\ TypedSim /\ TypedNews

(* Prices: those of the table, the first, and those inside the limits.     *)
Inside(p) ==
    /\ p \in Int
    /\ p \notin {Opening} \cup ToSet(Table) =>
          p >= Greater(Floor, Least) /\ (Cap > 0 => p <= Cap)

PricesInside ==
    /\ Inside(price) /\ Inside(log.price)
    /\ \A t \in Thread : thread[t].moves => Inside(thread[t].price)

(* Until a kill, whatever has been published or is about to be in this     *)
(* life of the event is marked as fired, and nothing is there twice.       *)
Same(a, b) == a.story = b.story /\ a.life = b.life /\ a.story \notin Desk

Marked(a) == a.life <= life /\ (a.life = life /\ a.story \notin Desk => a.story \in sim.fired)

ItemsOnce == \A i, j \in DOMAIN items : i # j => ~Same(items[i], items[j])

OutOnce ==
    \A t, u \in Thread : \A k \in DOMAIN thread[t].out, m \in DOMAIN thread[u].out :
        t # u \/ k # m => ~Same(thread[t].out[k], thread[u].out[m])

NotYetOut ==
    \A t \in Thread : \A k \in DOMAIN thread[t].out, i \in DOMAIN items :
        ~Same(thread[t].out[k], items[i])

AllMarked ==
    /\ \A i \in DOMAIN items : Marked(items[i])
    /\ \A t \in Thread : \A k \in DOMAIN thread[t].out : Marked(thread[t].out[k])

Once == ~killed => up /\ ItemsOnce /\ OutOnce /\ NotYetOut /\ AllMarked

(* A process that is down has no dispatcher; an item is with one thread;   *)
(* what is staggered is news of Phase 2.                                   *)
Down ==
    ~up => /\ killed /\ DOMAIN rel = {} /\ DOMAIN timer = {} /\ late = {}
           /\ \A t \in Thread : thread[t].at = "idle"

OneThread ==
    /\ \A t \in Thread : thread[t].at = "public" =>
          thread[t].item \in DOMAIN items /\ ~items[thread[t].item].staggered
    /\ \A t, u \in Thread : t # u /\ thread[t].at = "public" /\ thread[u].at = "public" =>
          thread[t].item # thread[u].item

Phased ==
    \A i \in DOMAIN items :
        items[i].staggered /\ i \in DOMAIN rel \cup DOMAIN log.news =>
            Story[items[i].story].news /\ elapsed >= Phase2

(* The timer of an item that no reset has forgotten has no less to wait    *)
(* than what the head start lacks, unless it was set when Phase 2 was over. *)
Enough(w, n) == n >= Lead \/ n + w.left >= Lead + w.step - w.wait

Counted ==
    \A i \in DOMAIN timer :
        /\ timer[i].wait <= timer[i].step
        /\ items[i].staggered /\ i \in DOMAIN rel =>
              Enough(timer[i], waited[i]) \/ (killed /\ elapsed >= Close)

Ahead == Down /\ OneThread /\ Phased /\ Counted

-----------------------------------------------------------------------------
(* The price moves by a number. *)
LEMMA PushType ==
  ASSUME NEW s \in Sims
  PROVE  Push(s) \in Int
<1> DEFINE q == s.shocks
           G == [p \in Int \X Shock |-> p[1] + p[2].each]
           It(h) == h = [d \in SUBSET (DOMAIN q) |->
                           IF d = {} THEN Drift ELSE h[d \ {Max(d)}] + q[Max(d)].each]
           it == CHOOSE h : h = [d \in SUBSET (DOMAIN q) |->
                           IF d = {} THEN Drift ELSE h[d \ {Max(d)}] + q[Max(d)].each]
<1>1. /\ q \in Seq(Shock) /\ Len(q) \in Nat /\ DOMAIN q = 1 .. Len(q)
      /\ \A i \in 1 .. Len(q) : q[i] \in Shock
      /\ Drift \in Int
  BY NewsAssumption DEF Sims
<1>2. G \in [Int \X Shock -> Int] /\ \A n \in Int, sh \in Shock : G[<<n, sh>>] = n + sh.each
  BY DEF Shock
<1>3. Push(s) = it[DOMAIN q]
  BY DEF Push, FoldLeft, MapThenFoldSet
<1> HIDE DEF G, q
<1>4. PICK f : f \in [SUBSET (DOMAIN q) -> Int] /\ Steps(G, Drift, q, f)
  BY <1>1, <1>2, StepsExist
<1>5. It(f)
  <2>1. ASSUME NEW d \in SUBSET (DOMAIN q), d # {}
        PROVE  G[<<f[d \ {Max(d)}], q[Max(d)]>>] = f[d \ {Max(d)}] + q[Max(d)].each
    <3>1. Max(d) \in d
      <4>1. PICK m \in d : \A y \in d : m >= y
        BY <1>1, <2>1, Greatest
      <4>2. QED
        BY <4>1 DEF Max
    <3>2. q[Max(d)] \in Shock /\ f[d \ {Max(d)}] \in Int
      BY <1>1, <1>4, <3>1
    <3>3. QED
      BY <1>2, <3>2
  <2>2. \A d \in SUBSET (DOMAIN q) :
           (IF d = {} THEN Drift ELSE G[<<f[d \ {Max(d)}], q[Max(d)]>>])
             = IF d = {} THEN Drift ELSE f[d \ {Max(d)}] + q[Max(d)].each
    BY <2>1
  <2>3. QED
    BY <1>4, <2>2 DEF Steps
<1>6. It(it)
  BY <1>5
<1> DEFINE N == {n \in Nat : n <= Len(q) => it[1 .. n] \in Int}
<1>7. 0 \in N
  <2>1. 1 .. 0 = {} /\ {} \in SUBSET (DOMAIN q)
    OBVIOUS
  <2>2. it[{}] = Drift
    BY <1>6
  <2> HIDE DEF it
  <2>3. QED
    BY <1>1, <2>1, <2>2
<1>8. ASSUME NEW n \in Nat, n \in N PROVE n + 1 \in N
  <2> SUFFICES ASSUME n + 1 <= Len(q) PROVE it[1 .. n + 1] \in Int
    OBVIOUS
  <2>1. \A d \in SUBSET (1 .. Len(q)) : d # {} => it[d] = it[d \ {Max(d)}] + q[Max(d)].each
    BY <1>1, <1>6
  <2> HIDE DEF it
  <2>2. /\ (1 .. n + 1) \ {n + 1} = 1 .. n /\ 1 .. n + 1 # {}
        /\ 1 .. n + 1 \in SUBSET (1 .. Len(q)) /\ Max(1 .. n + 1) = n + 1
    BY <1>1, UpTo
  <2>3. it[1 .. n + 1] = it[1 .. n] + q[n + 1].each
    BY <2>1, <2>2
  <2>4. q[n + 1] \in Shock /\ it[1 .. n] \in Int
    BY <1>1, <1>8
  <2>5. QED
    BY <2>3, <2>4 DEF Shock
<1> HIDE DEF it, N
<1>9. Len(q) \in N
  BY <1>1, <1>7, <1>8, Numbers
<1>10. QED
  BY <1>1, <1>3, <1>9 DEF N

(* On the grid or not, a price keeps inside the limits. *)
LEMMA BoundInside ==
  ASSUME NEW p \in Int
  PROVE  /\ Bound(p) \in Int /\ Bound(p) >= Greater(Floor, Least)
         /\ Cap > 0 => Bound(p) <= Cap
<1>1. /\ Floor \in Nat /\ Least \in Nat /\ Cap \in Nat /\ Grid \in Nat
      /\ Cap > 0 => Floor <= Cap /\ Least <= Cap
  BY NewsAssumption
<1>2. OnGrid(p) \in Int
  <2>1. CASE Grid > 0
    <3>1. (2 * p + Grid) \div (2 * Grid) \in Int
      BY <1>1, <2>1
    <3>2. PICK n \in Int : n = (2 * p + Grid) \div (2 * Grid)
      BY <3>1
    <3>3. n * Grid \in Int
      BY <1>1
    <3>4. QED
      BY <2>1, <3>2, <3>3 DEF OnGrid
  <2>2. QED
    BY <2>1 DEF OnGrid
<1>3. PICK g \in Int : g = OnGrid(p)
  BY <1>2
<1>4. QED
  BY <1>1, <1>3 DEF Bound, Greater, Lesser

(* The sequences of the engine's state keep their type. *)
LEMMA AmongType ==
  ASSUME NEW R, NEW s \in Seq(R), NEW S
  PROVE  Among(s, S) \in Seq(R)
<1>1. Among(s, S) \in Seq(R \cap S)
  BY AmongIs
<1>2. PICK t : t = Among(s, S)
  OBVIOUS
<1>3. t \in Seq(R)
  BY <1>1, <1>2
<1>4. QED
  BY <1>2, <1>3

LEMMA SteppedType ==
  ASSUME NEW s \in Sims, price \in Int
  PROVE  Stepped(s).shocks \in Seq(Shock) /\ Inside(Stepped(s).price)
<1>1. CASE s.tick < Len(Table)
  <2>1. s.tick \in Nat /\ Table \in Seq(Nat)
    BY NewsAssumption DEF Sims
  <2>2. s.tick + 1 \in 1 .. Len(Table)
    BY <1>1, <2>1
  <2>3. Table[s.tick + 1] \in Int /\ Table[s.tick + 1] \in ToSet(Table)
    BY <2>1, <2>2 DEF ToSet
  <2>4. QED
    BY <1>1, <2>3 DEF Stepped, Inside
<1>2. CASE ~(s.tick < Len(Table))
  <2> DEFINE on == Among(s.shocks, {sh \in Shock : sh.left > 1})
  <2>1. Push(s) \in Int
    BY PushType
  <2>2. price + Push(s) \in Int
    BY <2>1
  <2>3. Inside(Bound(price + Push(s)))
    BY <2>2, BoundInside DEF Inside
  <2>4. on \in Seq(Shock \cap {sh \in Shock : sh.left > 1})
    <3>1. s.shocks \in Seq(Shock)
      BY DEF Sims
    <3>2. QED
      BY <3>1, AmongIs
  <2> HIDE DEF on
  <2>5. \A i \in DOMAIN on : on[i] \in Shock /\ on[i].left > 1
    BY <2>4
  <2>6. \A i \in DOMAIN on : [on[i] EXCEPT !.left = @ - 1] \in Shock
    BY <2>5 DEF Shock
  <2>7. DOMAIN on = 1 .. Len(on) /\ Len(on) \in Nat
    BY <2>4
  <2>8. [i \in DOMAIN on |-> [on[i] EXCEPT !.left = @ - 1]] \in Seq(Shock)
    BY <2>6, <2>7
  <2>9. Stepped(s) = [price  |-> Bound(price + Push(s)),
                      shocks |-> [i \in DOMAIN on |-> [on[i] EXCEPT !.left = @ - 1]]]
    BY <1>2 DEF Stepped, on
  <2>10. QED
    BY <2>3, <2>8, <2>9
<1>3. QED
  BY <1>1, <1>2

LEMMA AppliedType ==
  ASSUME NEW s \in Sims
  PROVE  Applied(s) \in Sims /\ Applied(s).fired = s.fired
<1> DEFINE due  == Among(s.pending, {p \in Pending : p.when <= wall})
           rest == Among(s.pending, {p \in Pending : p.when > wall})
           n(p) == Greater((Story[p.story].ramp + TickSeconds - 1) \div TickSeconds, 1)
           spread(p) == [each |-> Story[p.story].shock \div n(p), left |-> n(p)]
           new  == [i \in DOMAIN due |-> spread(due[i])]
<1>1. s.pending \in Seq(Pending) /\ s.shocks \in Seq(Shock)
  BY DEF Sims
<1>2. due \in Seq(Pending) /\ rest \in Seq(Pending)
  BY <1>1, AmongType
<1>3. ASSUME NEW p \in Pending PROVE spread(p) \in Shock
  <2>1. PICK r, sh : r = Story[p.story].ramp /\ sh = Story[p.story].shock
    OBVIOUS
  <2>2. r \in Nat /\ sh \in Int /\ TickSeconds \in Nat \ {0}
    BY <2>1, NewsAssumption DEF Pending
  <2>3. (r + TickSeconds - 1) \div TickSeconds \in Int
    BY <2>2
  <2>4. PICK m \in Nat \ {0} : m = Greater((r + TickSeconds - 1) \div TickSeconds, 1)
    BY <2>3 DEF Greater
  <2>5. sh \div m \in Int
    BY <2>2
  <2>6. QED
    BY <2>1, <2>4, <2>5 DEF Shock
<1> HIDE DEF due, rest, spread
<1>4. DOMAIN due = 1 .. Len(due) /\ Len(due) \in Nat /\ \A i \in 1 .. Len(due) : due[i] \in Pending
  BY <1>2
<1>5. new \in Seq(Shock)
  BY <1>3, <1>4
<1>6. s.shocks \o new \in Seq(Shock)
  BY <1>1, <1>5
<1>7. Applied(s) = [s EXCEPT !.pending = rest, !.shocks = @ \o new]
  BY DEF Applied, due, rest, spread
<1> HIDE DEF new
<1>8. QED
  BY <1>2, <1>6, <1>7 DEF Sims

(* What fires is marked. *)
LEMMA FiringType ==
  ASSUME NEW s \in Sims, NEW ids \in Seq(DOMAIN Story), TypedClock
  PROVE  Firing(s, ids) \in Sims /\ Firing(s, ids).fired = s.fired \cup ToSet(ids)
<1> DEFINE moved == Among(ids, {id \in DOMAIN Story : Story[id].shock # 0})
           when  == Lesser(wall + NewsLead, MaxWall)
           new   == [i \in DOMAIN moved |-> [story |-> moved[i], when |-> when]]
<1>1. moved \in Seq(DOMAIN Story)
  BY AmongType
<1>2. when \in Nat
  <2>1. NewsLead \in Nat /\ wall \in Nat /\ MaxWall \in Nat
    BY NewsAssumption DEF NewsLead, TypedClock
  <2>2. QED
    BY <2>1 DEF Lesser
<1> HIDE DEF moved, when
<1>3. /\ DOMAIN moved = 1 .. Len(moved) /\ Len(moved) \in Nat
      /\ \A i \in 1 .. Len(moved) : moved[i] \in DOMAIN Story
  BY <1>1
<1>4. new \in Seq(Pending)
  BY <1>2, <1>3 DEF Pending
<1>5. s.pending \in Seq(Pending)
  BY DEF Sims
<1>6. s.pending \o new \in Seq(Pending)
  BY <1>4, <1>5
<1>7. ToSet(ids) \in SUBSET DOMAIN Story
  BY DEF ToSet
<1>8. Firing(s, ids) = [s EXCEPT !.fired = @ \cup ToSet(ids), !.pending = @ \o new]
  BY DEF Firing, moved, when
<1> HIDE DEF new
<1>9. QED
  BY <1>6, <1>7, <1>8 DEF Sims

(* What is due, or overdue: stories of the schedule, each once, that have  *)
(* not been fired.                                                         *)
Ready(s, ids) ==
    /\ ids \in Seq(DOMAIN Story) /\ IsInjective(ids)
    /\ \A k \in DOMAIN ids : ids[k] \in ToSet(Schedule) /\ ids[k] \notin s.fired

LEMMA ScheduledReady ==
  ASSUME NEW s, NEW S, \A id \in S : id \notin s.fired
  PROVE  Ready(s, Among(Schedule, S))
<1>1. Schedule \in Seq(DOMAIN Story) /\ IsInjective(Schedule)
  BY NewsAssumption
<1>2. PICK t : t = Among(Schedule, S)
  OBVIOUS
<1>3. /\ t \in Seq(DOMAIN Story \cap S) /\ IsInjective(t)
      /\ \A i \in DOMAIN t : \E j \in DOMAIN Schedule : t[i] = Schedule[j]
  BY <1>1, <1>2, AmongIs
<1>4. t \in Seq(DOMAIN Story) /\ \A k \in DOMAIN t : t[k] \in S
  BY <1>3
<1>5. \A k \in DOMAIN t : t[k] \in ToSet(Schedule)
  BY <1>3 DEF ToSet
<1>6. QED
  BY <1>2, <1>3, <1>4, <1>5 DEF Ready

LEMMA DueReady ==
  ASSUME NEW s
  PROVE  Ready(s, Due(s))
<1>1. CASE s.manual
  <2>1. Due(s) = <<>> /\ DOMAIN <<>> = {} /\ <<>> \in Seq(DOMAIN Story)
    BY <1>1 DEF Due
  <2>2. QED
    BY <2>1 DEF Ready, IsInjective
<1>2. CASE ~s.manual
  BY <1>2, ScheduledReady DEF Due, Waiting
<1>3. QED
  BY <1>1, <1>2

LEMMA OverdueReady ==
  ASSUME NEW s
  PROVE  Ready(s, Overdue(s))
BY ScheduledReady DEF Overdue, Waiting

(* The organisers' changes keep the state's type. *)
LEMMA MovedType ==
  ASSUME NEW s \in Sims, NEW by \in Int
  PROVE  Moved(s, by) \in Sims /\ Moved(s, by).fired = s.fired
<1> DEFINE left == {id \in ToSet(Schedule) : Story[id].event /\ id \notin s.fired}
           new  == [id \in left \cup DOMAIN s.edits |->
                      IF id \in left THEN Greater(AtMoment(s, id) + by, 0) ELSE s.edits[id]]
<1>1. PICK d \in SUBSET DOMAIN Story : s.edits \in [d -> Int]
  BY DEF Sims
<1>2. \A id \in DOMAIN Story : AtMoment(s, id) \in Int
  BY <1>1, NewsAssumption DEF AtMoment
<1>3. left \in SUBSET DOMAIN Story
  BY NewsAssumption DEF ToSet
<1>4. \A id \in left : Greater(AtMoment(s, id) + by, 0) \in Int
  BY <1>2, <1>3 DEF Greater
<1>5. new \in [left \cup d -> Int] /\ left \cup d \in SUBSET DOMAIN Story
  BY <1>1, <1>3, <1>4
<1>6. new \in UNION {[e -> Int] : e \in SUBSET DOMAIN Story}
  BY <1>5
<1>7. Moved(s, by) = [s EXCEPT !.edits = new]
  BY DEF Moved
<1> HIDE DEF new
<1>8. QED
  BY <1>6, <1>7 DEF Sims

LEMMA ChangedType ==
  ASSUME NEW w \in Wants, sim \in Sims, TypedClock
  PROVE  /\ Fires(w) \in Seq(DOMAIN Story)
         /\ Changed(w) \in Sims
         /\ Changed(w).fired = sim.fired \cup
               (IF w.op \in {"fire", "overdue"} THEN ToSet(Fires(w)) ELSE {})
<1>1. /\ w.op \in {"fire", "overdue", "manual", "skip", "edit", "shift", "publish"}
      /\ w.op \in {"fire", "skip", "edit"} => w.id \in DOMAIN Story
      /\ w.op = "publish" => w.id \in DOMAIN Story
      /\ w.op \in {"manual", "skip"} => w.on \in BOOLEAN
      /\ w.op = "edit" => w.at \in Nat
      /\ w.op = "shift" => w.by \in Int
  BY NewsAssumption DEF ToSet
<1>2. Fires(w) \in Seq(DOMAIN Story)
  <2>1. Overdue(sim) \in Seq(DOMAIN Story)
    BY OverdueReady DEF Ready
  <2>2. w.op \in {"fire", "publish"} => Fires(w) = <<w.id>> /\ w.id \in DOMAIN Story
    BY <1>1 DEF Fires
  <2>3. w.op = "overdue" => Fires(w) = Overdue(sim)
    BY DEF Fires
  <2>4. w.op \notin {"fire", "overdue", "publish"} => Fires(w) = <<>>
    BY <1>1 DEF Fires
  <2>5. <<>> \in Seq(DOMAIN Story) /\ \A id \in DOMAIN Story : <<id>> \in Seq(DOMAIN Story)
    OBVIOUS
  <2>6. QED
    BY <2>1, <2>2, <2>3, <2>4, <2>5
<1>3. CASE w.op \in {"fire", "overdue"}
  BY <1>2, <1>3, FiringType DEF Changed
<1>4. CASE w.op = "manual"
  <2>1. Changed(w) = [sim EXCEPT !.manual = w.on]
    BY <1>4 DEF Changed
  <2>2. QED
    BY <1>1, <1>2, <1>4, <2>1 DEF Sims
<1>5. CASE w.op = "skip"
  <2>1. Changed(w) = [sim EXCEPT !.skipped = IF w.on THEN @ \cup {w.id} ELSE @ \ {w.id}]
    BY <1>5 DEF Changed
  <2>2. QED
    BY <1>1, <1>2, <1>5, <2>1 DEF Sims
<1>6. CASE w.op = "edit"
  <2> DEFINE new == [id \in DOMAIN sim.edits \cup {w.id} |->
                       IF id = w.id THEN w.at ELSE sim.edits[id]]
  <2>1. PICK d \in SUBSET DOMAIN Story : sim.edits \in [d -> Int]
    BY DEF Sims
  <2>2. new \in [d \cup {w.id} -> Int] /\ d \cup {w.id} \in SUBSET DOMAIN Story
    BY <1>1, <1>6, <2>1
  <2>3. new \in UNION {[e -> Int] : e \in SUBSET DOMAIN Story}
    BY <2>2
  <2>4. Changed(w) = [sim EXCEPT !.edits = new]
    BY <1>6 DEF Changed
  <2> HIDE DEF new
  <2>5. QED
    BY <1>2, <1>6, <2>3, <2>4 DEF Sims
<1>7. CASE w.op = "shift"
  <2>1. Changed(w) = Moved(sim, w.by)
    BY <1>7 DEF Changed
  <2>2. QED
    BY <1>1, <1>2, <1>7, <2>1, MovedType
<1>8. CASE w.op = "publish"
  BY <1>2, <1>8 DEF Changed
<1>9. QED
  BY <1>1, <1>3, <1>4, <1>5, <1>6, <1>7, <1>8

-----------------------------------------------------------------------------
(* What threads, records and timers become. *)
LEMMA NewSimType == NewSim \in Sims
<1>1. <<>> \in [{} -> Int]
  OBVIOUS
<1>2. <<>> \in UNION {[d -> Int] : d \in SUBSET DOMAIN Story}
  BY <1>1
<1>3. QED
  BY <1>2 DEF NewSim, Sims

LEMMA IdleType == Idle \in Threads
<1>1. <<>> \in Seq(Out)
  OBVIOUS
<1>2. QED
  BY <1>1, NewSimType DEF Idle, Threads

LEMMA BusyType ==
  ASSUME TypedClock, NEW ids \in Seq(DOMAIN Story), NEW saved \in Sims, NEW saves \in BOOLEAN
  PROVE  /\ Busy(ids, saved, saves) \in Threads
         /\ Busy(ids, saved, saves).at = "publish" /\ Busy(ids, saved, saves).out = Queue(ids)
         /\ Busy(ids, saved, saves).moves = FALSE
         /\ DOMAIN Queue(ids) = DOMAIN ids
         /\ \A k \in DOMAIN ids : Queue(ids)[k] = [story |-> ids[k], life |-> life]
<1>1. /\ DOMAIN ids = 1 .. Len(ids) /\ Len(ids) \in Nat
      /\ \A k \in 1 .. Len(ids) : ids[k] \in DOMAIN Story
  OBVIOUS
<1>2. Queue(ids) \in Seq(Out)
  BY <1>1 DEF Queue, Out, TypedClock
<1>3. PICK q : q = Queue(ids)
  OBVIOUS
<1>4. Busy(ids, saved, saves) = [Idle EXCEPT !.at = "publish", !.out = q, !.sim = saved,
                                             !.saves = saves]
  BY <1>3 DEF Busy
<1>5. DOMAIN q = DOMAIN ids /\ \A k \in DOMAIN ids : q[k] = [story |-> ids[k], life |-> life]
  BY <1>3 DEF Queue
<1>6. Busy(ids, saved, saves) \in Threads
  BY <1>2, <1>3, <1>4, IdleType DEF Threads
<1>7. Idle = [at |-> "idle", out |-> <<>>, item |-> 0, sim |-> NewSim, price |-> 0,
              moves |-> FALSE, saves |-> FALSE, copies |-> FALSE]
  BY DEF Idle
<1>8. /\ Busy(ids, saved, saves).at = "publish" /\ Busy(ids, saved, saves).out = q
      /\ Busy(ids, saved, saves).moves = FALSE
  BY <1>4, <1>7
<1>9. QED
  BY <1>3, <1>5, <1>6, <1>8

LEMMA GoesType ==
  ASSUME TypedSim, NEW t \in Thread, NEW th \in Threads, Goes(t, th)
  PROVE  /\ thread' \in [Thread -> Threads] /\ thread'[t] = th
         /\ \A u \in Thread : u # t => thread'[u] = thread[u]
BY DEF TypedSim, Goes

LEMMA NoteType ==
  ASSUME Typed, NEW i, Note(i)
  PROVE  /\ log'.sim = log.sim /\ log'.price = log.price
         /\ log' = [news |-> log'.news, sim |-> log'.sim, price |-> log'.price]
         /\ DOMAIN log.news \subseteq DOMAIN log'.news
         /\ DOMAIN log'.news \subseteq DOMAIN log.news \cup DOMAIN rel
         /\ log'.news \in [DOMAIN log'.news -> Releases]
<1> USE DEF Typed, TypedNews
<1>1. CASE ~broken /\ i \in DOMAIN rel
  <2>1. PICK new : new = [j \in DOMAIN log.news \cup {i} |-> IF j = i THEN rel[i] ELSE log.news[j]]
    OBVIOUS
  <2>2. log' = [log EXCEPT !.news = new]
    BY <1>1, <2>1 DEF Note
  <2>3. log' = [news |-> new, sim |-> log.sim, price |-> log.price]
    BY <2>2
  <2>4. rel[i] \in Releases
    BY <1>1
  <2>5. DOMAIN new = DOMAIN log.news \cup {i} /\ new \in [DOMAIN new -> Releases]
    BY <2>1, <2>4
  <2>6. QED
    BY <1>1, <2>3, <2>5
<1>2. CASE ~(~broken /\ i \in DOMAIN rel)
  <2>1. log' = log
    BY <1>2 DEF Note
  <2>2. QED
    BY <2>1
<1>3. QED
  BY <1>1, <1>2

LEMMA DeliverType ==
  ASSUME Typed, NEW i, Deliver("pub", i)
  PROVE  /\ DOMAIN rel' = DOMAIN rel /\ rel' \in [DOMAIN rel -> Releases]
         /\ \A j \in DOMAIN rel : j # i => rel'[j] = rel[j]
<1>1. CASE i \in DOMAIN rel
  <2>1. rel' = [rel EXCEPT ![i]["pub"] = TRUE] /\ rel[i] \in Releases
    BY <1>1 DEF Deliver, Typed, TypedNews
  <2>2. [rel[i] EXCEPT !["pub"] = TRUE] \in Releases
    BY <2>1 DEF Releases
  <2>3. QED
    BY <2>1, <2>2 DEF Typed, TypedNews
<1>2. CASE i \notin DOMAIN rel
  BY <1>2 DEF Deliver, Typed, TypedNews
<1>3. QED
  BY <1>1, <1>2

LEMMA WaitType ==
  ASSUME NEW left \in Int
  PROVE  /\ Wait(left) \in Timers /\ Wait(left).left = left
         /\ Wait(left).wait = Wait(left).step
BY NewsAssumption DEF Wait, Timers

LEMMA LeftOverType ==
  ASSUME Typed, NEW i \in DOMAIN items
  PROVE  LeftOver(i) \in Int
<1>1. waited[i] \in Nat
  BY DEF Typed, TypedNews
<1>2. Lead \in Int
  BY NewsAssumption
<1>3. Lead - waited[i] \in Int
  BY <1>1, <1>2
<1>4. QED
  BY <1>3 DEF LeftOver

-----------------------------------------------------------------------------
(* The loop and a request alike mark what they fire and hand it to a       *)
(* thread that had nothing to do.                                          *)
Fired(t, ids) ==
    /\ ids \in Seq(DOMAIN Story) /\ IsInjective(ids)
    /\ sim' \in Sims /\ sim.fired \subseteq sim'.fired
    /\ \A k \in DOMAIN ids :
          ids[k] \in Desk \/ (ids[k] \notin sim.fired /\ ids[k] \in sim'.fired)
    /\ thread' \in [Thread -> Threads] /\ \A u \in Thread : u # t => thread'[u] = thread[u]
    /\ t \in Thread /\ thread[t].at = "idle"
    /\ \/ ids = <<>> /\ thread'[t] = thread[t]
       \/ /\ thread'[t].at = "publish" /\ DOMAIN thread'[t].out = DOMAIN ids
          /\ \A k \in DOMAIN ids : thread'[t].out[k] = [story |-> ids[k], life |-> life]
          /\ thread'[t].moves => Inside(thread'[t].price)
    /\ up
    /\ UNCHANGED <<elapsed, wall, paused, up, price, news, disk, life, killed>>

LEMMA AdvanceFires ==
  ASSUME Typed, price \in Int, Advance
  PROVE  \E ids : Fired("run", ids)
<1> DEFINE trading == MarketOpen
           count   == IF trading THEN [sim EXCEPT !.market = @ + 1] ELSE sim
           steps   == trading /\ count.market % TickSeconds = 0
           timed   == IF steps THEN [count EXCEPT !.tick = @ + 1] ELSE count
           next  == Stepped(timed)
           moved == IF steps THEN [timed EXCEPT !.shocks = next.shocks] ELSE timed
           ids   == Due(moved)
           fired == Firing(moved, ids)
           done  == Applied(fired)
           busy  == [Busy(ids, done, TRUE) EXCEPT !.moves = steps, !.price = next.price]
<1>1. sim \in Sims /\ TypedClock /\ "run" \in Thread
  BY DEF Typed, TypedSim, Thread
<1>2. trading \in BOOLEAN /\ steps \in BOOLEAN
  BY DEF MarketOpen
<1>3. count \in Sims /\ count.fired = sim.fired
  BY <1>1 DEF Sims
<1>4. timed \in Sims /\ timed.fired = sim.fired
  <2>1. PICK c \in Sims : c = count
    BY <1>3
  <2>2. c.tick + 1 \in Nat
    BY DEF Sims
  <2>3. [c EXCEPT !.tick = @ + 1] \in Sims /\ [c EXCEPT !.tick = @ + 1].fired = c.fired
    BY <2>2 DEF Sims
  <2>4. timed = IF steps THEN [c EXCEPT !.tick = @ + 1] ELSE c
    BY <2>1
  <2> HIDE DEF timed, count, steps
  <2>5. QED
    BY <1>3, <2>1, <2>3, <2>4
<1> HIDE DEF timed, steps
<1>5. next.shocks \in Seq(Shock) /\ Inside(next.price)
  BY <1>4, SteppedType
<1> HIDE DEF next
<1>6. moved \in Sims /\ moved.fired = sim.fired
  BY <1>4, <1>5 DEF Sims
<1>7. /\ sim' = done
      /\ IF steps \/ ids # <<>> \/ done.pending # fired.pending
         THEN Goes("run", busy) ELSE UNCHANGED thread
      /\ up /\ thread["run"].at = "idle"
      /\ UNCHANGED <<elapsed, wall, paused, up, price, news, disk, life, killed>>
  BY DEF Advance, timed, steps, next, bounds
<1> HIDE DEF moved
<1>8. Ready(moved, ids)
  BY DueReady
<1> HIDE DEF ids
<1>9. ids \in Seq(DOMAIN Story) /\ fired \in Sims /\ fired.fired = sim.fired \cup ToSet(ids)
  BY <1>1, <1>6, <1>8, FiringType DEF Ready
<1> HIDE DEF fired
<1>10. done \in Sims /\ done.fired = sim.fired \cup ToSet(ids)
  BY <1>9, AppliedType
<1> HIDE DEF done
<1>11. /\ Busy(ids, done, TRUE) \in Threads
       /\ Busy(ids, done, TRUE).at = "publish" /\ Busy(ids, done, TRUE).out = Queue(ids)
       /\ DOMAIN Queue(ids) = DOMAIN ids
       /\ \A k \in DOMAIN ids : Queue(ids)[k] = [story |-> ids[k], life |-> life]
  BY <1>1, <1>9, <1>10, BusyType
<1>12. /\ busy \in Threads /\ busy.at = "publish" /\ busy.out = Queue(ids)
       /\ busy.price = next.price
  <2>1. next.price \in Int
    BY <1>5 DEF Inside
  <2>2. PICK b \in Threads : b = Busy(ids, done, TRUE)
    BY <1>11
  <2>3. busy = [b EXCEPT !.moves = steps, !.price = next.price]
    BY <2>2
  <2>4. QED
    BY <1>2, <1>11, <2>1, <2>2, <2>3 DEF Threads
<1> HIDE DEF busy
<1>13. /\ \A k \in DOMAIN ids : ids[k] \notin sim.fired /\ ids[k] \in done.fired
       /\ IsInjective(ids)
  BY <1>6, <1>8, <1>10 DEF Ready, ToSet
<1>14. CASE steps \/ ids # <<>> \/ done.pending # fired.pending
  <2>1. /\ thread' \in [Thread -> Threads] /\ thread'["run"] = busy
        /\ \A u \in Thread : u # "run" => thread'[u] = thread[u]
    BY <1>1, <1>7, <1>12, <1>14, GoesType DEF Typed
  <2>2. Fired("run", ids)
    BY <1>1, <1>5, <1>7, <1>9, <1>10, <1>11, <1>12, <1>13, <2>1 DEF Fired
  <2>3. QED
    BY <2>2
<1>15. CASE ~(steps \/ ids # <<>> \/ done.pending # fired.pending)
  <2>1. thread' = thread /\ ids = <<>> /\ thread \in [Thread -> Threads]
    BY <1>7, <1>15 DEF Typed, TypedSim
  <2>2. Fired("run", ids)
    BY <1>1, <1>7, <1>9, <1>10, <1>13, <2>1 DEF Fired
  <2>3. QED
    BY <2>2
<1>16. QED
  BY <1>14, <1>15

LEMMA RequestFires ==
  ASSUME Typed, NEW c \in Organiser, NEW w \in Wants, Request(c, w)
  PROVE  \E ids : Fired(c, ids)
<1> DEFINE ids  == Fires(w)
           new  == Changed(w)
           base == Busy(ids, new, w.op # "publish")
           busy == [base EXCEPT !.copies = w.op \notin {"fire", "publish"}]
<1>1. sim \in Sims /\ TypedClock /\ c \in Thread
  BY DEF Typed, TypedSim, Thread
<1>2. /\ sim' = new /\ Goes(c, busy) /\ up /\ thread[c].at = "idle"
      /\ UNCHANGED <<elapsed, wall, paused, up, price, news, disk, life, killed>>
  BY DEF Request, clock
<1>3. w.op = "fire" => w.id \notin sim.fired
  BY DEF Request, MayFire
<1>4. /\ ids \in Seq(DOMAIN Story) /\ new \in Sims
      /\ new.fired = sim.fired \cup (IF w.op \in {"fire", "overdue"} THEN ToSet(ids) ELSE {})
  BY <1>1, ChangedType
<1>5. /\ w.op \in {"fire", "overdue", "manual", "skip", "edit", "shift", "publish"}
      /\ w.op = "publish" => w.id \in Desk
  BY NewsAssumption
<1>6. /\ IsInjective(ids)
      /\ \A k \in DOMAIN ids : ids[k] \in Desk \/ (ids[k] \notin sim.fired /\ ids[k] \in new.fired)
  <2>1. CASE w.op = "fire"
    <3>1. ids = <<w.id>>
      BY <2>1 DEF Fires
    <3>2. QED
      BY <1>3, <1>4, <2>1, <3>1 DEF IsInjective, ToSet
  <2>2. CASE w.op = "overdue"
    <3>1. ids = Overdue(sim)
      BY <2>2 DEF Fires
    <3>2. Ready(sim, ids)
      BY <3>1, OverdueReady
    <3>3. QED
      BY <1>4, <2>2, <3>2 DEF Ready, ToSet
  <2>3. CASE w.op = "publish"
    <3>1. ids = <<w.id>>
      BY <2>3 DEF Fires
    <3>2. QED
      BY <1>5, <2>3, <3>1 DEF IsInjective
  <2>4. CASE w.op \notin {"fire", "overdue", "publish"}
    <3>1. ids = <<>>
      BY <1>5, <2>4 DEF Fires
    <3>2. QED
      BY <3>1 DEF IsInjective
  <2>5. QED
    BY <2>1, <2>2, <2>3, <2>4
<1> HIDE DEF ids, new
<1>7. /\ base \in Threads /\ base.at = "publish" /\ base.out = Queue(ids) /\ base.moves = FALSE
      /\ DOMAIN Queue(ids) = DOMAIN ids
      /\ \A k \in DOMAIN ids : Queue(ids)[k] = [story |-> ids[k], life |-> life]
  BY <1>1, <1>4, BusyType
<1> HIDE DEF base
<1>8. busy \in Threads /\ busy.at = "publish" /\ busy.out = Queue(ids) /\ busy.moves = FALSE
  BY <1>7 DEF Threads
<1> HIDE DEF busy
<1>9. /\ thread' \in [Thread -> Threads] /\ thread'[c] = busy
      /\ \A u \in Thread : u # c => thread'[u] = thread[u]
  BY <1>1, <1>2, <1>8, GoesType DEF Typed
<1>10. sim.fired \subseteq new.fired
  BY <1>4
<1>11. Fired(c, ids)
  BY <1>1, <1>2, <1>4, <1>6, <1>7, <1>8, <1>9, <1>10 DEF Fired
<1>12. QED
  BY <1>11

-----------------------------------------------------------------------------
(* What the variables hold they go on holding, and with them the prices. *)
Sound == Typed /\ PricesInside

LEMMA SoundInit == Init => Sound
<1> SUFFICES ASSUME Init PROVE Sound
  OBVIOUS
<1>1. NewSim \in Sims /\ Idle \in Threads /\ Opening \in Nat
  BY NewSimType, IdleType, NewsAssumption
<1>2. TypedClock
  <2>1. Close \in Nat /\ MaxWall \in Nat
    BY NewsAssumption
  <2>2. 0 \in 0 .. Close /\ 0 \in 0 .. MaxWall
    BY <2>1
  <2>3. QED
    BY <2>2 DEF Init, TypedClock
<1>3. TypedSim
  BY <1>1 DEF Init, TypedSim
<1>4. TypedNews
  <2>1. /\ <<>> \in Seq(Items) /\ <<>> \in Seq(Nat) /\ DOMAIN <<>> = {}
        /\ <<>> \in [{} -> Releases] /\ <<>> \in [{} -> Timers]
    OBVIOUS
  <2>2. QED
    BY <2>1 DEF Init, TypedNews
<1>5. PricesInside
  <2>1. Inside(Opening)
    BY <1>1 DEF Inside
  <2>2. \A t \in Thread : ~thread[t].moves
    BY DEF Init, Idle
  <2>3. QED
    BY <2>1, <2>2 DEF Init, PricesInside
<1>6. QED
  BY <1>2, <1>3, <1>4, <1>5 DEF Sound, Typed

LEMMA FiredSound ==
  ASSUME Sound, NEW t, NEW ids, Fired(t, ids), second' \in BOOLEAN
  PROVE  Sound'
<1> USE DEF Sound, Typed
<1>1. TypedClock'
  BY DEF TypedClock, Fired, disk
<1>2. TypedSim'
  BY DEF TypedSim, Fired, disk
<1>3. TypedNews'
  BY DEF TypedNews, Fired, disk, news
<1>4. \A u \in Thread : thread'[u].moves => Inside(thread'[u].price)
  BY DEF PricesInside, Fired
<1>5. PricesInside'
  <2>1. price' = price /\ log' = log
    BY DEF Fired, disk
  <2>2. QED
    BY <1>4, <2>1 DEF PricesInside, Inside
<1>6. QED
  BY <1>1, <1>2, <1>3, <1>5

LEMMA PublishSound ==
  ASSUME Sound, NEW t \in Thread, Publish(t)
  PROVE  Sound'
<1> USE DEF Sound, Typed
<1> DEFINE n == Len(items) + 1
           s == Head(thread[t].out)
           new == [story |-> s.story, life |-> s.life, staggered |-> FALSE]
           th == [thread[t] EXCEPT !.at = "public", !.item = n, !.out = Tail(@)]
<1>1. /\ thread[t] \in Threads /\ thread[t].out # <<>>
      /\ items' = Append(items, new)
      /\ rel' = [i \in DOMAIN rel \cup {n} |->
                   IF i = n THEN [fm |-> TRUE, pub |-> FALSE] ELSE rel[i]]
      /\ waited' = Append(waited, 0) /\ Goes(t, th)
      /\ UNCHANGED <<clock, up, sim, price, timer, late, disk, life, killed>>
  BY DEF Publish, TypedSim, bounds
<1>2. s \in Out /\ Tail(thread[t].out) \in Seq(Out) /\ n \in Nat
  BY <1>1 DEF Threads, TypedNews
<1>3. th \in Threads /\ th.moves = thread[t].moves /\ th.price = thread[t].price
  <2> HIDE DEF n
  <2>1. QED
    BY <1>1, <1>2 DEF Threads
<1>4. /\ thread' \in [Thread -> Threads] /\ thread'[t] = th
      /\ \A u \in Thread : u # t => thread'[u] = thread[u]
  BY <1>1, <1>3, GoesType
<1>5. /\ items' \in Seq(Items) /\ Len(items') = n /\ DOMAIN items' = DOMAIN items \cup {n}
      /\ waited' \in Seq(Nat) /\ Len(waited') = n
  <2>1. new \in Items
    BY <1>2 DEF Items, Out
  <2> HIDE DEF new
  <2>2. items \in Seq(Items) /\ waited \in Seq(Nat) /\ Len(waited) = Len(items)
    BY DEF TypedNews
  <2>3. items' \in Seq(Items) /\ Len(items') = n
    BY <1>1, <2>1, <2>2
  <2>4. DOMAIN items' = 1 .. n /\ DOMAIN items = 1 .. Len(items)
    BY <2>2, <2>3
  <2>5. 1 .. n = (1 .. Len(items)) \cup {n}
    BY <2>2
  <2>6. QED
    BY <1>1, <2>2, <2>3, <2>4, <2>5
<1>6. rel' \in [DOMAIN rel' -> Releases] /\ DOMAIN rel' = DOMAIN rel \cup {n}
  <2>1. [fm |-> TRUE, pub |-> FALSE] \in Releases
    BY DEF Releases
  <2>2. QED
    BY <1>1, <2>1 DEF TypedNews
<1> HIDE DEF n, th
<1>7. TypedClock'
  BY <1>1 DEF TypedClock, clock, disk
<1>8. TypedSim'
  BY <1>1, <1>4 DEF TypedSim, disk
<1>9. TypedNews'
  BY <1>1, <1>5, <1>6 DEF TypedNews, disk
<1>10. PricesInside'
  <2>1. \A u \in Thread : thread'[u].moves => Inside(thread'[u].price)
    BY <1>3, <1>4 DEF PricesInside
  <2>2. QED
    BY <1>1, <2>1 DEF PricesInside, Inside, disk
<1>11. QED
  BY <1>7, <1>8, <1>9, <1>10

LEMMA EveryoneSound ==
  ASSUME Sound, OneThread, NEW t \in Thread, Everyone(t)
  PROVE  Sound'
<1> USE DEF Sound, Typed
<1> DEFINE i == thread[t].item
<1>1. /\ Note(i)
      /\ \/ /\ timer' = WithTimer(timer, i, Wait(Lead))
            /\ items' = [items EXCEPT ![i].staggered = TRUE]
            /\ Goes(t, [thread[t] EXCEPT !.at = "arming"])
            /\ UNCHANGED rel
         \/ /\ Deliver("pub", i)
            /\ Goes(t, [thread[t] EXCEPT !.at = "noting"])
            /\ UNCHANGED <<timer, items>>
      /\ UNCHANGED <<clock, up, sim, price, waited, late, broken, life, killed>>
  BY DEF Everyone, bounds
<1>2. thread[t] \in Threads
  BY DEF TypedSim
<1>3. ASSUME NEW place \in {"arming", "noting"}, Goes(t, [thread[t] EXCEPT !.at = place])
      PROVE  /\ thread' \in [Thread -> Threads]
             /\ \A u \in Thread : thread'[u].moves = thread[u].moves
                                 /\ thread'[u].price = thread[u].price
  <2>1. PICK th : th = [thread[t] EXCEPT !.at = place]
    OBVIOUS
  <2>2. th \in Threads /\ th.moves = thread[t].moves /\ th.price = thread[t].price
    BY <1>2, <2>1 DEF Threads
  <2>3. QED
    BY <1>3, <2>1, <2>2, GoesType
<1>4. /\ thread' \in [Thread -> Threads]
      /\ \A u \in Thread : thread'[u].moves = thread[u].moves /\ thread'[u].price = thread[u].price
  BY <1>1, <1>3
<1>5. /\ log'.sim = log.sim /\ log'.price = log.price
      /\ log' = [news |-> log'.news, sim |-> log'.sim, price |-> log'.price]
      /\ DOMAIN log'.news \subseteq DOMAIN items
      /\ log'.news \in [DOMAIN log'.news -> Releases]
  BY <1>1, NoteType DEF TypedNews
<1>6. i \in DOMAIN items
  BY DEF OneThread, Everyone
<1>7. items' \in Seq(Items) /\ Len(items') = Len(items) /\ DOMAIN items' = DOMAIN items
  <2>1. items \in Seq(Items) /\ DOMAIN items = 1 .. Len(items) /\ Len(items) \in Nat
    BY DEF TypedNews
  <2>2. [items[i] EXCEPT !.staggered = TRUE] \in Items
    <3>1. items[i] \in Items
      BY <1>6, <2>1
    <3>2. QED
      BY <3>1 DEF Items
  <2>3. PICK a : a = [items[i] EXCEPT !.staggered = TRUE]
    OBVIOUS
  <2>4. items' = items \/ items' = [items EXCEPT ![i] = a]
    BY <1>1, <2>3
  <2>5. QED
    BY <1>6, <2>1, <2>2, <2>3, <2>4
<1>8. timer' \in [DOMAIN timer' -> Timers] /\ DOMAIN timer' \subseteq DOMAIN items
  <2>1. Wait(Lead) \in Timers
    BY WaitType, NewsAssumption
  <2>2. PICK w \in Timers : w = Wait(Lead)
    BY <2>1
  <2>3. timer' = timer \/ timer' = [j \in DOMAIN timer \cup {i} |-> IF j = i THEN w ELSE timer[j]]
    BY <1>1, <2>2 DEF WithTimer
  <2>4. QED
    BY <1>6, <2>3 DEF TypedNews
<1>9. rel' \in [DOMAIN rel' -> Releases] /\ DOMAIN rel' = DOMAIN rel
  <2>1. CASE Deliver("pub", i)
    BY <2>1, DeliverType
  <2>2. CASE UNCHANGED rel
    BY <2>2 DEF TypedNews
  <2>3. QED
    BY <1>1, <2>1, <2>2
<1> HIDE DEF i
<1>10. TypedClock'
  BY <1>1 DEF TypedClock, clock
<1>11. TypedSim'
  BY <1>1, <1>4, <1>5 DEF TypedSim
<1>12. TypedNews'
  BY <1>1, <1>5, <1>7, <1>8, <1>9 DEF TypedNews
<1>13. PricesInside'
  BY <1>1, <1>4, <1>5 DEF PricesInside, Inside
<1>14. QED
  BY <1>10, <1>11, <1>12, <1>13

(* The steps of a thread that publish nothing. *)
LEMMA ThreadSound ==
  ASSUME Sound, NEW t \in Thread, NotePublic(t) \/ Copy(t) \/ Finish(t)
  PROVE  Sound'
<1> USE DEF Sound, Typed
<1>1. thread[t] \in Threads /\ sim \in Sims /\ Idle \in Threads /\ Idle.moves = FALSE
  BY IdleType DEF TypedSim, Idle
<1>2. CASE NotePublic(t)
  <2>1. /\ Note(thread[t].item) /\ Goes(t, [thread[t] EXCEPT !.at = "publish"])
        /\ UNCHANGED <<clock, up, sim, price, news, broken, life, killed>>
    BY <1>2 DEF NotePublic, bounds
  <2>2. /\ log'.sim = log.sim /\ log'.price = log.price
        /\ log' = [news |-> log'.news, sim |-> log'.sim, price |-> log'.price]
        /\ DOMAIN log'.news \subseteq DOMAIN items
        /\ log'.news \in [DOMAIN log'.news -> Releases]
    BY <2>1, NoteType DEF TypedNews
  <2>3. PICK th : th = [thread[t] EXCEPT !.at = "publish"]
    OBVIOUS
  <2>4. th \in Threads /\ th.moves = thread[t].moves /\ th.price = thread[t].price
    BY <1>1, <2>3 DEF Threads
  <2>5. /\ thread' \in [Thread -> Threads]
        /\ \A u \in Thread : thread'[u].moves = thread[u].moves
                            /\ thread'[u].price = thread[u].price
    BY <2>1, <2>3, <2>4, GoesType
  <2>6. TypedClock'
    BY <2>1 DEF TypedClock, clock
  <2>7. TypedSim'
    BY <2>1, <2>2, <2>5 DEF TypedSim
  <2>8. TypedNews'
    BY <2>1, <2>2 DEF TypedNews, news
  <2>9. PricesInside'
    BY <2>1, <2>2, <2>5 DEF PricesInside, Inside
  <2>10. QED
    BY <2>6, <2>7, <2>8, <2>9
<1>3. CASE Copy(t)
  <2>1. /\ Goes(t, [thread[t] EXCEPT !.sim = sim, !.copies = FALSE])
        /\ UNCHANGED <<clock, up, sim, price, news, disk, life, killed>>
    BY <1>3 DEF Copy, bounds
  <2>2. PICK th : th = [thread[t] EXCEPT !.sim = sim, !.copies = FALSE]
    OBVIOUS
  <2>3. th \in Threads /\ th.moves = thread[t].moves /\ th.price = thread[t].price
    BY <1>1, <2>2 DEF Threads
  <2>4. /\ thread' \in [Thread -> Threads]
        /\ \A u \in Thread : thread'[u].moves = thread[u].moves
                            /\ thread'[u].price = thread[u].price
    BY <2>1, <2>2, <2>3, GoesType
  <2>5. TypedClock'
    BY <2>1 DEF TypedClock, clock, disk
  <2>6. TypedSim'
    BY <2>1, <2>4 DEF TypedSim, disk
  <2>7. TypedNews'
    BY <2>1 DEF TypedNews, news, disk
  <2>8. PricesInside'
    BY <2>1, <2>4 DEF PricesInside, Inside, disk
  <2>9. QED
    BY <2>5, <2>6, <2>7, <2>8
<1>4. CASE Finish(t)
  <2>1. /\ price' = IF thread[t].moves THEN thread[t].price ELSE price
        /\ log' = IF broken \/ ~thread[t].saves THEN log
                  ELSE [log EXCEPT !.sim = thread[t].sim, !.price = price']
        /\ Goes(t, Idle)
        /\ UNCHANGED <<clock, up, sim, news, broken, life, killed>>
    BY <1>4 DEF Finish, bounds
  <2>2. Inside(price')
    BY <2>1 DEF PricesInside
  <2>3. /\ log'.news = log.news /\ log'.sim \in Sims /\ Inside(log'.price)
        /\ log' = [news |-> log'.news, sim |-> log'.sim, price |-> log'.price]
    <3>1. log = [news |-> log.news, sim |-> log.sim, price |-> log.price]
      BY DEF TypedNews
    <3>2. thread[t].sim \in Sims /\ log.sim \in Sims /\ Inside(log.price)
      BY <1>1 DEF Threads, TypedSim, PricesInside
    <3>3. CASE log' = log
      BY <3>1, <3>2, <3>3
    <3>4. CASE log' = [log EXCEPT !.sim = thread[t].sim, !.price = price']
      <4>1. log' = [news |-> log.news, sim |-> thread[t].sim, price |-> price']
        BY <3>1, <3>4
      <4>2. QED
        BY <2>2, <3>2, <4>1
    <3>5. QED
      BY <2>1, <3>3, <3>4
  <2>4. /\ thread' \in [Thread -> Threads] /\ thread'[t].moves = FALSE
        /\ \A u \in Thread : u # t => thread'[u] = thread[u]
    BY <1>1, <2>1, GoesType
  <2>5. TypedClock'
    BY <2>1 DEF TypedClock, clock
  <2>6. TypedSim'
    BY <2>1, <2>3, <2>4 DEF TypedSim
  <2>7. TypedNews'
    BY <2>1, <2>3 DEF TypedNews, news
  <2>8. PricesInside'
    BY <2>2, <2>3, <2>4 DEF PricesInside
  <2>9. QED
    BY <2>5, <2>6, <2>7, <2>8
<1>5. QED
  BY <1>2, <1>3, <1>4

LEMMA ItemSound ==
  ASSUME Sound, NEW i \in DOMAIN items, ItemStep(i)
  PROVE  Sound'
<1> USE DEF Sound, Typed
<1>1. CASE Wake(i)
  <2> DEFINE left == IF paused THEN timer[i].left ELSE timer[i].left - timer[i].step
  <2>1. /\ i \in DOMAIN timer
        /\ \/ /\ timer' = [j \in DOMAIN timer \ {i} |-> timer[j]]
              /\ Deliver("pub", i) /\ late' = late \cup {i}
           \/ /\ timer' = [timer EXCEPT ![i] = Wait(left)]
              /\ UNCHANGED <<rel, late>>
        /\ UNCHANGED <<clock, up, sim, price, items, waited, thread, disk, life, killed>>
    BY <1>1 DEF Wake, bounds
  <2>2. Wait(left) \in Timers
    <3>1. timer[i] \in Timers
      BY <2>1 DEF TypedNews
    <3>2. left \in Int
      BY <3>1 DEF Timers
    <3>3. QED
      BY <3>2, WaitType
  <2> HIDE DEF left
  <2>3. timer' \in [DOMAIN timer' -> Timers] /\ DOMAIN timer' \subseteq DOMAIN timer
    <3>1. timer \in [DOMAIN timer -> Timers]
      BY DEF TypedNews
    <3>2. CASE timer' = [j \in DOMAIN timer \ {i} |-> timer[j]]
      BY <3>1, <3>2
    <3>3. CASE timer' = [timer EXCEPT ![i] = Wait(left)]
      BY <2>2, <3>1, <3>3
    <3>4. QED
      BY <2>1, <3>2, <3>3
  <2>4. /\ rel' \in [DOMAIN rel' -> Releases] /\ DOMAIN rel' = DOMAIN rel
        /\ late' \subseteq DOMAIN items
    <3>1. CASE Deliver("pub", i) /\ late' = late \cup {i}
      BY <3>1, DeliverType DEF TypedNews
    <3>2. CASE UNCHANGED <<rel, late>>
      BY <3>2 DEF TypedNews
    <3>3. QED
      BY <2>1, <3>1, <3>2
  <2>5. TypedClock'
    BY <2>1 DEF TypedClock, clock, disk
  <2>6. TypedSim'
    BY <2>1 DEF TypedSim, disk
  <2>7. TypedNews'
    BY <2>1, <2>3, <2>4 DEF TypedNews, disk
  <2>8. PricesInside'
    BY <2>1 DEF PricesInside, Inside, disk
  <2>9. QED
    BY <2>5, <2>6, <2>7, <2>8
<1>2. CASE NoteLate(i)
  <2>1. /\ Note(i) /\ late' = late \ {i}
        /\ UNCHANGED <<clock, up, sim, price, items, rel, waited, timer, thread, broken, life,
                       killed>>
    BY <1>2 DEF NoteLate, bounds
  <2>2. /\ log'.sim = log.sim /\ log'.price = log.price
        /\ log' = [news |-> log'.news, sim |-> log'.sim, price |-> log'.price]
        /\ DOMAIN log'.news \subseteq DOMAIN items
        /\ log'.news \in [DOMAIN log'.news -> Releases]
    BY <2>1, NoteType DEF TypedNews
  <2>3. TypedClock'
    BY <2>1 DEF TypedClock, clock
  <2>4. TypedSim'
    BY <2>1, <2>2 DEF TypedSim
  <2>5. TypedNews'
    BY <2>1, <2>2 DEF TypedNews
  <2>6. PricesInside'
    BY <2>1, <2>2 DEF PricesInside, Inside
  <2>7. QED
    BY <2>3, <2>4, <2>5, <2>6
<1>3. CASE Overslept(i)
  <2>1. /\ timer' = [j \in DOMAIN timer \ {i} |-> timer[j]]
        /\ UNCHANGED <<clock, up, sim, price, items, rel, waited, late, thread, disk, life,
                       killed>>
    BY <1>3 DEF Overslept, bounds
  <2>2. timer' \in [DOMAIN timer' -> Timers] /\ DOMAIN timer' \subseteq DOMAIN timer
    BY <2>1 DEF TypedNews
  <2>3. TypedClock'
    BY <2>1 DEF TypedClock, clock, disk
  <2>4. TypedSim'
    BY <2>1 DEF TypedSim, disk
  <2>5. TypedNews'
    BY <2>1, <2>2 DEF TypedNews, disk
  <2>6. PricesInside'
    BY <2>1 DEF PricesInside, Inside, disk
  <2>7. QED
    BY <2>3, <2>4, <2>5, <2>6
<1>4. CASE Register(i)
  <2>1. /\ thread' = [t \in Thread |-> IF thread[t].at = "arming" /\ thread[t].item = i
                                       THEN [thread[t] EXCEPT !.at = "publish"]
                                       ELSE thread[t]]
        /\ UNCHANGED <<clock, up, sim, price, items, rel, waited, timer, late, disk, life,
                       killed>>
    BY <1>4 DEF Register, bounds
  <2>2. ASSUME NEW t \in Thread
        PROVE  /\ thread'[t] \in Threads /\ thread'[t].moves = thread[t].moves
               /\ thread'[t].price = thread[t].price
    <3>1. PICK th : th = thread[t]
      OBVIOUS
    <3>2. th \in Threads
      BY <3>1 DEF TypedSim
    <3>3. PICK new : new = [th EXCEPT !.at = "publish"]
      OBVIOUS
    <3>4. new \in Threads /\ new.moves = th.moves /\ new.price = th.price
      BY <3>2, <3>3 DEF Threads
    <3>5. thread'[t] = th \/ thread'[t] = new
      BY <2>1, <3>1, <3>3
    <3>6. QED
      BY <3>1, <3>2, <3>4, <3>5
  <2>3. thread' \in [Thread -> Threads]
    BY <2>1, <2>2
  <2>4. TypedClock'
    BY <2>1 DEF TypedClock, clock, disk
  <2>5. TypedSim'
    BY <2>1, <2>3 DEF TypedSim, disk
  <2>6. TypedNews'
    BY <2>1 DEF TypedNews, disk
  <2>7. PricesInside'
    BY <2>1, <2>2 DEF PricesInside, Inside, disk
  <2>8. QED
    BY <2>4, <2>5, <2>6, <2>7
<1>5. QED
  BY <1>1, <1>2, <1>3, <1>4 DEF ItemStep

LEMMA TickSound ==
  ASSUME Sound, Tick
  PROVE  Sound'
<1> USE DEF Sound, Typed
<1>1. /\ wall' = Lesser(wall + 1, MaxWall)
      /\ elapsed' = IF paused THEN elapsed ELSE Lesser(elapsed + 1, Close)
      /\ second' = up
      /\ timer' = [i \in DOMAIN timer |-> [timer[i] EXCEPT !.wait = Greater(@ - 1, 0)]]
      /\ waited' = [i \in DOMAIN waited |-> Lesser(waited[i] + 1, Lead)]
      /\ UNCHANGED <<paused, up, sim, price, items, rel, late, thread, disk, life, killed>>
  BY DEF Tick, bounds
<1>2. TypedClock'
  <2>1. Close \in Nat /\ MaxWall \in Nat
    BY NewsAssumption
  <2>2. wall' \in 0 .. MaxWall /\ elapsed' \in 0 .. Close
    BY <1>1, <2>1 DEF TypedClock, Lesser
  <2>3. QED
    BY <1>1, <2>2 DEF TypedClock, disk
<1>3. TypedSim'
  BY <1>1 DEF TypedSim, disk
<1>4. timer' \in [DOMAIN timer' -> Timers] /\ DOMAIN timer' = DOMAIN timer
  <2>1. ASSUME NEW i \in DOMAIN timer
        PROVE  [timer[i] EXCEPT !.wait = Greater(@ - 1, 0)] \in Timers
    <3>1. timer[i] \in Timers
      BY DEF TypedNews
    <3>2. QED
      BY <3>1 DEF Timers, Greater
  <2>2. QED
    BY <1>1, <2>1
<1>5. waited' \in Seq(Nat) /\ Len(waited') = Len(waited)
  <2>1. waited \in Seq(Nat) /\ DOMAIN waited = 1 .. Len(waited) /\ Len(waited) \in Nat
    BY DEF TypedNews
  <2>2. \A i \in DOMAIN waited : waited[i] \in Nat /\ Lesser(waited[i] + 1, Lead) \in Nat
    BY <2>1, NewsAssumption DEF Lesser
  <2>3. QED
    BY <1>1, <2>1, <2>2
<1>6. TypedNews'
  BY <1>1, <1>4, <1>5 DEF TypedNews, disk
<1>7. PricesInside'
  BY <1>1 DEF PricesInside, Inside, disk
<1>8. QED
  BY <1>2, <1>3, <1>6, <1>7

LEMMA SwitchSound ==
  ASSUME Sound, Pause \/ Resume \/ DiskFault
  PROVE  Sound'
<1> USE DEF Sound, Typed
<1>1. /\ paused' \in BOOLEAN /\ broken' \in BOOLEAN
      /\ UNCHANGED <<elapsed, wall, second, up, sim, price, news, thread, log, life, killed>>
  BY DEF Pause, Resume, DiskFault, TypedClock, bounds, disk, clock
<1>2. TypedClock'
  BY <1>1 DEF TypedClock
<1>3. TypedSim'
  BY <1>1 DEF TypedSim
<1>4. TypedNews'
  BY <1>1 DEF TypedNews, news
<1>5. PricesInside'
  BY <1>1 DEF PricesInside, Inside
<1>6. QED
  BY <1>2, <1>3, <1>4, <1>5

LEMMA KillSound ==
  ASSUME Sound, Kill
  PROVE  Sound'
<1> USE DEF Sound, Typed
<1>1. /\ up' = FALSE /\ killed' = TRUE /\ second' = FALSE
      /\ timer' = <<>> /\ rel' = <<>> /\ late' = {}
      /\ thread' = [t \in Thread |-> Idle]
      /\ UNCHANGED <<elapsed, wall, paused, sim, price, items, waited, disk, life>>
  BY DEF Kill
<1>2. Idle \in Threads /\ Idle.moves = FALSE
  BY IdleType DEF Idle
<1>3. TypedClock'
  BY <1>1 DEF TypedClock, disk
<1>4. TypedSim'
  BY <1>1, <1>2 DEF TypedSim, disk
<1>5. <<>> \in [{} -> Releases] /\ <<>> \in [{} -> Timers] /\ DOMAIN <<>> = {}
  OBVIOUS
<1>6. TypedNews'
  BY <1>1, <1>5 DEF TypedNews, disk
<1>7. PricesInside'
  BY <1>1, <1>2 DEF PricesInside, Inside, disk
<1>8. QED
  BY <1>3, <1>4, <1>6, <1>7

LEMMA RestartSound ==
  ASSUME Sound, Restart
  PROVE  Sound'
<1> USE DEF Sound, Typed
<1> DEFINE unread == {i \in DOMAIN log.news : ~log.news[i].pub}
           ready  == Recover(unread)
<1>1. /\ up' = TRUE /\ broken' = FALSE /\ sim' = log.sim /\ price' = log.price
      /\ rel' = [i \in DOMAIN log.news |->
                   IF i \in ready THEN [log.news[i] EXCEPT !.pub = TRUE] ELSE log.news[i]]
      /\ timer' = [i \in unread \ ready |-> Wait(Greater(LeftOver(i), 0))]
      /\ UNCHANGED <<clock, items, waited, late, thread, log, life, killed>>
  BY DEF Restart, bounds
<1>2. \A i \in DOMAIN log.news : log.news[i] \in Releases /\ i \in DOMAIN items
  BY DEF TypedNews
<1> HIDE DEF ready
<1>3. rel' \in [DOMAIN rel' -> Releases] /\ DOMAIN rel' = DOMAIN log.news
  <2>1. \A i \in DOMAIN log.news : [log.news[i] EXCEPT !.pub = TRUE] \in Releases
    BY <1>2 DEF Releases
  <2>2. QED
    BY <1>1, <1>2, <2>1
<1>4. timer' \in [DOMAIN timer' -> Timers] /\ DOMAIN timer' \subseteq DOMAIN items
  <2>1. ASSUME NEW i \in unread \ ready PROVE Wait(Greater(LeftOver(i), 0)) \in Timers
    <3>1. i \in DOMAIN items
      BY <1>2
    <3>2. PICK n \in Int : n = LeftOver(i)
      BY <3>1, LeftOverType
    <3>3. Greater(n, 0) \in Int
      BY DEF Greater
    <3>4. QED
      BY <3>2, <3>3, WaitType
  <2>2. QED
    BY <1>1, <1>2, <2>1
<1>5. TypedClock'
  BY <1>1 DEF TypedClock, clock
<1>6. TypedSim'
  BY <1>1 DEF TypedSim
<1>7. TypedNews'
  BY <1>1, <1>3, <1>4 DEF TypedNews
<1>8. PricesInside'
  BY <1>1 DEF PricesInside, Inside
<1>9. QED
  BY <1>5, <1>6, <1>7, <1>8

LEMMA ResetSound ==
  ASSUME Sound, Reset
  PROVE  Sound'
<1> USE DEF Sound, Typed
<1>1. /\ life' = life + 1 /\ elapsed' = 0 /\ paused' = FALSE
      /\ sim' = NewSim /\ price' = Opening /\ rel' = <<>>
      /\ timer' = [i \in DOMAIN timer \cap arming |-> timer[i]]
      /\ log' = [news |-> <<>>, sim |-> NewSim, price |-> Opening]
      /\ UNCHANGED <<wall, second, up, items, waited, late, thread, broken, killed>>
  BY DEF Reset
<1>2. NewSim \in Sims /\ Opening \in Nat /\ Close \in Nat
  BY NewSimType, NewsAssumption
<1>3. /\ <<>> \in [{} -> Releases] /\ DOMAIN <<>> = {}
      /\ timer' \in [DOMAIN timer' -> Timers] /\ DOMAIN timer' \subseteq DOMAIN items
  BY <1>1 DEF TypedNews
<1>4. TypedClock'
  <2>1. 0 \in 0 .. Close /\ life + 1 \in Nat
    BY <1>2 DEF TypedClock
  <2>2. QED
    BY <1>1, <2>1 DEF TypedClock
<1>5. TypedSim'
  BY <1>1, <1>2 DEF TypedSim
<1>6. TypedNews'
  BY <1>1, <1>3 DEF TypedNews
<1>7. PricesInside'
  BY <1>1, <1>2 DEF PricesInside, Inside
<1>8. QED
  BY <1>4, <1>5, <1>6, <1>7

LEMMA SoundStep ==
  ASSUME Sound, OneThread, [Next]_vars
  PROVE  Sound'
<1>1. CASE Advance
  <2>1. price \in Int /\ second' = FALSE
    BY <1>1 DEF Sound, PricesInside, Inside, Advance
  <2>2. PICK ids : Fired("run", ids)
    BY <1>1, <2>1, AdvanceFires DEF Sound
  <2>3. QED
    BY <2>1, <2>2, FiredSound
<1>2. ASSUME NEW c \in Organiser, NEW w \in Wants, Request(c, w) PROVE Sound'
  <2>1. second' = second /\ second \in BOOLEAN
    BY <1>2 DEF Request, clock, Sound, Typed, TypedClock
  <2>2. PICK ids : Fired(c, ids)
    BY <1>2, RequestFires DEF Sound
  <2>3. QED
    BY <2>1, <2>2, FiredSound
<1>3. ASSUME NEW t \in Thread, Step(t) PROVE Sound'
  BY <1>3, PublishSound, EveryoneSound, ThreadSound DEF Step
<1>4. CASE UNCHANGED vars
  BY <1>4 DEF vars, clock, news, disk, bounds, Sound, Typed, TypedClock, TypedSim, TypedNews,
              PricesInside, Inside
<1>5. QED
  BY <1>1, <1>2, <1>3, <1>4, ItemSound, TickSound, SwitchSound, KillSound, RestartSound,
     ResetSound DEF Next

-----------------------------------------------------------------------------
(* The head start.  What a step that delivers nothing, and waits for       *)
(* nothing, may do.                                                        *)
Calm ==
    /\ UNCHANGED <<elapsed, up, killed, items, rel, waited, timer>> /\ late' \subseteq late
    /\ DOMAIN log'.news \subseteq DOMAIN log.news \cup DOMAIN rel
    /\ \A u \in Thread : thread'[u].at = "public" =>
          thread[u].at = "public" /\ thread'[u].item = thread[u].item
    /\ ~up => thread' = thread

LEMMA AheadInit == Init => Ahead
<1> SUFFICES ASSUME Init PROVE Ahead
  OBVIOUS
<1>1. DOMAIN <<>> = {}
  OBVIOUS
<1>2. Down
  BY DEF Init, Down
<1>3. OneThread
  BY DEF Init, Idle, OneThread
<1>4. Phased
  BY <1>1 DEF Init, Phased
<1>5. Counted
  BY <1>1 DEF Init, Counted
<1>6. QED
  BY <1>2, <1>3, <1>4, <1>5 DEF Ahead

LEMMA CalmAhead ==
  ASSUME Ahead, Calm
  PROVE  Ahead'
<1>1. Down'
  BY DEF Ahead, Calm, Down
<1>2. OneThread'
  BY DEF Ahead, Calm, OneThread
<1>3. Phased'
  BY DEF Ahead, Calm, Phased
<1>4. Counted'
  BY DEF Ahead, Calm, Counted, Enough
<1>5. QED
  BY <1>1, <1>2, <1>3, <1>4 DEF Ahead

LEMMA FiredCalm ==
  ASSUME NEW t, NEW ids, Fired(t, ids)
  PROVE  Calm
BY DEF Fired, Calm, news, disk

LEMMA ThreadCalm ==
  ASSUME Sound, Ahead, NEW t \in Thread, NotePublic(t) \/ Copy(t) \/ Finish(t)
  PROVE  Calm
<1>1. PICK th : /\ thread' = [thread EXCEPT ![t] = th] /\ th.at \in {"publish", "idle"}
                /\ thread[t].at \in {"publish", "noting"}
                /\ UNCHANGED <<elapsed, up, killed, news>>
  <2>1. thread[t] \in Threads
    BY DEF Sound, Typed, TypedSim
  <2>2. CASE NotePublic(t)
    <3>1. [thread[t] EXCEPT !.at = "publish"].at = "publish"
      BY <2>1 DEF Threads
    <3>2. QED
      BY <2>2, <3>1 DEF NotePublic, Goes, clock, bounds
  <2>3. CASE Copy(t)
    <3>1. [thread[t] EXCEPT !.sim = sim, !.copies = FALSE].at = "publish"
      BY <2>1, <2>3 DEF Threads, Copy
    <3>2. QED
      BY <2>3, <3>1 DEF Copy, Goes, clock, bounds
  <2>4. CASE Finish(t)
    <3>1. Idle.at = "idle"
      BY DEF Idle
    <3>2. QED
      BY <2>4, <3>1 DEF Finish, Goes, clock, bounds
  <2>5. QED
    BY <2>2, <2>3, <2>4
<1>2. DOMAIN log'.news \subseteq DOMAIN log.news \cup DOMAIN rel
  <2>1. CASE NotePublic(t)
    BY <2>1, NoteType DEF NotePublic, Sound
  <2>2. CASE Copy(t)
    BY <2>2 DEF Copy, disk
  <2>3. CASE Finish(t)
    <3>1. log = [news |-> log.news, sim |-> log.sim, price |-> log.price]
      BY DEF Sound, Typed, TypedNews
    <3>2. log'.news = log.news
      BY <2>3, <3>1 DEF Finish
    <3>3. QED
      BY <3>2
  <2>4. QED
    BY <2>1, <2>2, <2>3
<1>3. thread \in [Thread -> Threads]
  BY DEF Sound, Typed, TypedSim
<1>4. \A u \in Thread : thread'[u].at = "public" =>
         thread[u].at = "public" /\ thread'[u].item = thread[u].item
  BY <1>1, <1>3
<1>5. up
  BY <1>1 DEF Ahead, Down
<1>6. QED
  BY <1>1, <1>2, <1>4, <1>5 DEF Calm, news

LEMMA PublishAhead ==
  ASSUME Sound, Ahead, NEW t \in Thread, Publish(t)
  PROVE  Ahead'
<1> DEFINE n == Len(items) + 1
           s == Head(thread[t].out)
           new == [story |-> s.story, life |-> s.life, staggered |-> FALSE]
           th == [thread[t] EXCEPT !.at = "public", !.item = n, !.out = Tail(@)]
<1>1. /\ thread[t].at = "publish"
      /\ items' = Append(items, new) /\ waited' = Append(waited, 0)
      /\ rel' = [i \in DOMAIN rel \cup {n} |->
                   IF i = n THEN [fm |-> TRUE, pub |-> FALSE] ELSE rel[i]]
      /\ Goes(t, th)
      /\ UNCHANGED <<elapsed, up, timer, late, log, killed>>
  BY DEF Publish, bounds, clock, disk
<1>2. /\ items \in Seq(Items) /\ DOMAIN items = 1 .. Len(items) /\ Len(items) \in Nat
      /\ waited \in Seq(Nat) /\ Len(waited) = Len(items)
      /\ DOMAIN timer \subseteq DOMAIN items /\ DOMAIN rel \subseteq DOMAIN items
      /\ DOMAIN log.news \subseteq DOMAIN items
      /\ thread \in [Thread -> Threads]
  BY DEF Sound, Typed, TypedNews, TypedSim
<1>3. n \notin DOMAIN items /\ new.staggered = FALSE
  BY <1>2
<1> HIDE DEF new
<1>4. /\ items'[n] = new /\ DOMAIN items' = DOMAIN items \cup {n}
      /\ \A i \in DOMAIN items : items'[i] = items[i] /\ waited'[i] = waited[i]
  <2>1. Len(items') = n /\ DOMAIN items' = 1 .. n
    BY <1>1, <1>2
  <2>2. 1 .. n = (1 .. Len(items)) \cup {n}
    BY <1>2
  <2>3. \A i \in 1 .. Len(items) : items'[i] = items[i]
    BY <1>1, <1>2
  <2>4. \A i \in 1 .. Len(items) : waited'[i] = waited[i]
    BY <1>1, <1>2
  <2>5. items'[n] = new
    BY <1>1, <1>2
  <2>6. QED
    BY <1>2, <2>1, <2>2, <2>3, <2>4, <2>5
<1>5. /\ thread'[t].at = "public" /\ thread'[t].item = n
      /\ \A u \in Thread : u # t => thread'[u] = thread[u]
  <2> HIDE DEF n
  <2>1. th.at = "public" /\ th.item = n
    BY <1>2 DEF Threads
  <2>2. QED
    BY <1>1, <1>2, <2>1 DEF Goes
<1> HIDE DEF n
<1>6. up
  BY <1>1 DEF Ahead, Down
<1>7. Down'
  BY <1>1, <1>6 DEF Down
<1>8. OneThread'
  <2>1. OneThread
    BY DEF Ahead
  <2>2. \A u \in Thread : thread'[u].at = "public" =>
           thread'[u].item \in DOMAIN items' /\ ~items'[thread'[u].item].staggered
    BY <1>3, <1>4, <1>5, <2>1 DEF OneThread
  <2>3. \A u \in Thread : u # t /\ thread'[u].at = "public" => thread'[u].item # n
    BY <1>3, <1>5, <2>1 DEF OneThread
  <2>4. QED
    BY <1>5, <2>1, <2>2, <2>3 DEF OneThread
<1>9. Phased'
  BY <1>1, <1>2, <1>3, <1>4 DEF Ahead, Phased
<1>10. Counted'
  BY <1>1, <1>2, <1>3, <1>4 DEF Ahead, Counted
<1>11. QED
  BY <1>7, <1>8, <1>9, <1>10 DEF Ahead

LEMMA EveryoneAhead ==
  ASSUME Sound, Ahead, NEW t \in Thread, Everyone(t)
  PROVE  Ahead'
<1> DEFINE i == thread[t].item
<1>1. /\ thread[t].at = "public" /\ Note(i)
      /\ \/ /\ Tiered(items[i].story)
            /\ timer' = WithTimer(timer, i, Wait(Lead))
            /\ items' = [items EXCEPT ![i].staggered = TRUE]
            /\ Goes(t, [thread[t] EXCEPT !.at = "arming"])
            /\ UNCHANGED rel
         \/ /\ Deliver("pub", i)
            /\ Goes(t, [thread[t] EXCEPT !.at = "noting"])
            /\ UNCHANGED <<timer, items>>
      /\ UNCHANGED <<elapsed, up, waited, late, killed>>
  BY DEF Everyone, bounds, clock
<1>2. /\ items \in Seq(Items) /\ DOMAIN items = 1 .. Len(items) /\ Len(items) \in Nat
      /\ waited \in Seq(Nat) /\ Len(waited) = Len(items)
      /\ DOMAIN timer \subseteq DOMAIN items /\ thread \in [Thread -> Threads]
  BY DEF Sound, Typed, TypedNews, TypedSim
<1>3. up /\ OneThread /\ i \in DOMAIN items
  BY <1>1 DEF Ahead, Down, OneThread
<1>4. \A u \in Thread : thread'[u].at = "public" => u # t /\ thread'[u] = thread[u]
  <2>1. ASSUME NEW place, Goes(t, [thread[t] EXCEPT !.at = place]), place # "public"
        PROVE  \A u \in Thread : thread'[u].at = "public" => u # t /\ thread'[u] = thread[u]
    <3>1. PICK th : th = [thread[t] EXCEPT !.at = place]
      OBVIOUS
    <3>2. th.at = place
      BY <1>2, <3>1 DEF Threads
    <3>3. QED
      BY <1>2, <2>1, <3>1, <3>2 DEF Goes
  <2>2. QED
    BY <1>1, <2>1
<1>5. DOMAIN rel' = DOMAIN rel /\ DOMAIN log'.news \subseteq DOMAIN log.news \cup DOMAIN rel
  BY <1>1, DeliverType, NoteType DEF Sound
<1>6. /\ DOMAIN items' = DOMAIN items
      /\ \A j \in DOMAIN items : j # i => items'[j] = items[j]
      /\ \/ items' = items
         \/ Tiered(items[i].story) /\ items'[i].story = items[i].story
  <2>1. CASE items' = items
    BY <2>1
  <2>2. CASE Tiered(items[i].story) /\ items' = [items EXCEPT ![i].staggered = TRUE]
    <3>1. PICK a : a = [items[i] EXCEPT !.staggered = TRUE]
      OBVIOUS
    <3>2. items[i] \in Items
      BY <1>2, <1>3
    <3>3. a.story = items[i].story
      BY <3>1, <3>2 DEF Items
    <3>4. items' = [items EXCEPT ![i] = a]
      BY <2>2, <3>1
    <3>5. QED
      BY <1>3, <2>2, <3>3, <3>4
  <2>3. QED
    BY <1>1, <2>1, <2>2
<1>7. /\ Wait(Lead).left = Lead /\ Wait(Lead).wait = Wait(Lead).step
      /\ Wait(Lead) \in Timers /\ Lead \in Nat
  BY WaitType, NewsAssumption
<1>8. PICK w \in Timers : w = Wait(Lead)
  BY <1>7
<1>9. \/ timer' = timer /\ items' = items
      \/ timer' = [j \in DOMAIN timer \cup {i} |-> IF j = i THEN w ELSE timer[j]]
  BY <1>1, <1>8 DEF WithTimer
<1> HIDE DEF i
<1>10. Down'
  BY <1>1, <1>3 DEF Down
<1>11. OneThread'
  <2>1. \A u \in Thread : thread'[u].at = "public" =>
           /\ thread[u].at = "public" /\ thread'[u].item = thread[u].item
           /\ thread[u].item # i
    BY <1>1, <1>3, <1>4 DEF OneThread, i
  <2>2. QED
    BY <1>3, <1>6, <2>1 DEF OneThread
<1>12. Phased'
  <2>1. Tiered(items[i].story) => Story[items[i].story].news /\ elapsed >= Phase2
    <3>1. Stage = "phase2" => ~(elapsed < Phase2)
      BY DEF Stage
    <3>2. elapsed \in Int /\ Phase2 \in Int
      BY NewsAssumption DEF Sound, Typed, TypedClock
    <3>3. QED
      BY <3>1, <3>2 DEF Tiered
  <2>2. QED
    BY <1>1, <1>5, <1>6, <2>1 DEF Ahead, Phased
<1>13. Counted'
  <2>1. CASE timer' = timer /\ items' = items
    BY <1>1, <1>5, <2>1 DEF Ahead, Counted
  <2>2. CASE timer' = [j \in DOMAIN timer \cup {i} |-> IF j = i THEN w ELSE timer[j]]
    <3>1. waited[i] \in Nat
      BY <1>2, <1>3
    <3>2. Enough(w, waited[i]) /\ w.wait <= w.step
      BY <1>7, <1>8, <3>1 DEF Enough, Timers
    <3>3. ASSUME NEW j \in DOMAIN timer'
          PROVE  /\ timer'[j].wait <= timer'[j].step
                 /\ items'[j].staggered /\ j \in DOMAIN rel' =>
                       Enough(timer'[j], waited'[j]) \/ (killed' /\ elapsed' >= Close)
      <4>1. CASE j = i
        BY <1>1, <2>2, <3>2, <4>1
      <4>2. CASE j # i
        <5>1. j \in DOMAIN timer /\ j \in DOMAIN items /\ timer'[j] = timer[j]
          BY <1>2, <2>2, <4>2
        <5>2. items'[j] = items[j]
          BY <1>6, <4>2, <5>1
        <5>3. QED
          BY <1>1, <1>5, <5>1, <5>2 DEF Ahead, Counted
      <4>3. QED
        BY <4>1, <4>2
    <3>4. QED
      BY <3>3 DEF Counted
  <2>3. QED
    BY <1>9, <2>1, <2>2
<1>14. QED
  BY <1>10, <1>11, <1>12, <1>13 DEF Ahead

LEMMA WakeAhead ==
  ASSUME Sound, Ahead, NEW i, Wake(i)
  PROVE  Ahead'
<1> DEFINE left == IF paused THEN timer[i].left ELSE timer[i].left - timer[i].step
<1>1. /\ i \in DOMAIN timer /\ timer[i].wait = 0
      /\ \/ /\ timer' = [j \in DOMAIN timer \ {i} |-> timer[j]] /\ Deliver("pub", i)
         \/ /\ timer' = [timer EXCEPT ![i] = Wait(left)]
            /\ UNCHANGED rel
      /\ UNCHANGED <<elapsed, up, items, waited, thread, log, killed>>
  BY DEF Wake, bounds, clock, disk
<1>2. up /\ timer[i] \in Timers /\ i \in DOMAIN items /\ waited[i] \in Nat
  <2>1. waited \in Seq(Nat) /\ items \in Seq(Items) /\ Len(waited) = Len(items)
    BY DEF Sound, Typed, TypedNews
  <2>2. up /\ timer[i] \in Timers /\ i \in DOMAIN items
    BY <1>1 DEF Sound, Typed, TypedNews, Ahead, Down
  <2>3. QED
    BY <2>1, <2>2
<1>3. DOMAIN rel' = DOMAIN rel
  BY <1>1, DeliverType DEF Sound
<1>4. left \in Int /\ Wait(left) \in Timers /\ Wait(left).left = left
      /\ Wait(left).wait = Wait(left).step
  <2>1. left \in Int
    BY <1>2 DEF Timers
  <2> HIDE DEF left
  <2>2. QED
    BY <2>1, WaitType
<1>5. Enough(timer[i], waited[i]) => Enough(Wait(left), waited[i])
  <2>1. PICK w \in Timers : w = Wait(left)
    BY <1>4
  <2>2. w.left = left /\ w.wait = w.step
    BY <1>4, <2>1
  <2>3. PICK n \in Nat : n = waited[i]
    BY <1>2
  <2>4. PICK v \in Timers : v = timer[i]
    BY <1>2
  <2>5. /\ v.wait = 0 /\ v.step \in Nat /\ v.left \in Int
        /\ left = v.left \/ left = v.left - v.step
        /\ w.left \in Int /\ w.step \in Nat /\ w.wait \in Nat /\ Lead \in Nat
    BY <1>1, <2>1, <2>4, NewsAssumption DEF Timers
  <2> HIDE DEF left
  <2>6. Enough(v, n) => Enough(w, n)
    BY <2>2, <2>5 DEF Enough
  <2>7. QED
    BY <2>1, <2>3, <2>4, <2>6
<1> HIDE DEF left
<1>6. Down'
  BY <1>1, <1>2 DEF Down
<1>7. OneThread'
  BY <1>1 DEF Ahead, OneThread
<1>8. Phased'
  BY <1>1, <1>3 DEF Ahead, Phased
<1>9. Counted'
  <2>1. ASSUME NEW j \in DOMAIN timer'
        PROVE  /\ timer'[j].wait <= timer'[j].step
               /\ items'[j].staggered /\ j \in DOMAIN rel' =>
                     Enough(timer'[j], waited'[j]) \/ (killed' /\ elapsed' >= Close)
    <3>1. CASE timer'[j] = timer[j] /\ j \in DOMAIN timer
      BY <1>1, <1>3, <3>1 DEF Ahead, Counted
    <3>2. CASE j = i /\ timer'[i] = Wait(left)
      <4>1. Wait(left).wait <= Wait(left).step
        BY <1>4 DEF Timers
      <4>2. QED
        BY <1>1, <1>3, <1>5, <3>2, <4>1 DEF Ahead, Counted
    <3>3. QED
      BY <1>1, <3>1, <3>2
  <2>2. QED
    BY <2>1 DEF Counted
<1>10. QED
  BY <1>6, <1>7, <1>8, <1>9 DEF Ahead

(* A timer that the dispatcher does not know, and one that is registered.  *)
LEMMA ArmingAhead ==
  ASSUME Sound, Ahead, NEW i, Overslept(i) \/ Register(i)
  PROVE  Ahead'
<1>1. CASE Overslept(i)
  <2>1. /\ timer' = [j \in DOMAIN timer \ {i} |-> timer[j]] /\ i \in DOMAIN timer
        /\ UNCHANGED <<elapsed, up, items, rel, waited, late, thread, log, killed>>
    BY <1>1 DEF Overslept, bounds, clock, disk
  <2>2. up
    BY <2>1 DEF Ahead, Down
  <2>3. Down' /\ OneThread' /\ Phased'
    BY <2>1, <2>2 DEF Ahead, Down, OneThread, Phased
  <2>4. Counted'
    BY <2>1 DEF Ahead, Counted
  <2>5. QED
    BY <2>3, <2>4 DEF Ahead
<1>2. CASE Register(i)
  <2>1. /\ thread' = [t \in Thread |-> IF thread[t].at = "arming" /\ thread[t].item = i
                                       THEN [thread[t] EXCEPT !.at = "publish"]
                                       ELSE thread[t]]
        /\ UNCHANGED <<elapsed, up, items, rel, waited, timer, late, log, killed>>
    BY <1>2 DEF Register, bounds, clock, disk
  <2>2. ASSUME NEW u \in Thread
        PROVE  thread'[u] = thread[u] \/ (thread[u].at = "arming" /\ thread'[u].at = "publish")
    <3>1. PICK th \in Threads : th = thread[u]
      BY DEF Sound, Typed, TypedSim
    <3>2. [th EXCEPT !.at = "publish"].at = "publish"
      BY <3>1 DEF Threads
    <3>3. QED
      BY <2>1, <3>1, <3>2
  <2>3. thread \in [Thread -> Threads]
    BY DEF Sound, Typed, TypedSim
  <2>4. ~up => thread' = thread
    BY <2>1, <2>3 DEF Ahead, Down
  <2>5. Calm
    BY <2>1, <2>2, <2>4 DEF Calm
  <2>6. QED
    BY <2>5, CalmAhead
<1>3. QED
  BY <1>1, <1>2

LEMMA TickAhead ==
  ASSUME Sound, Ahead, Tick
  PROVE  Ahead'
<1>1. /\ elapsed' = IF paused THEN elapsed ELSE Lesser(elapsed + 1, Close)
      /\ timer' = [i \in DOMAIN timer |-> [timer[i] EXCEPT !.wait = Greater(@ - 1, 0)]]
      /\ waited' = [i \in DOMAIN waited |-> Lesser(waited[i] + 1, Lead)]
      /\ UNCHANGED <<up, items, rel, late, thread, log, killed>>
  BY DEF Tick, bounds, disk
<1>2. elapsed \in 0 .. Close /\ Close \in Nat /\ Phase2 \in Nat /\ Phase2 <= Close /\ Lead \in Nat
  BY NewsAssumption DEF Sound, Typed, TypedClock
<1>3. /\ elapsed >= Phase2 => elapsed' >= Phase2
      /\ elapsed >= Close => elapsed' >= Close
  BY <1>1, <1>2 DEF Lesser
<1>4. Down'
  BY <1>1 DEF Ahead, Down
<1>5. OneThread'
  BY <1>1 DEF Ahead, OneThread
<1>6. Phased'
  BY <1>1, <1>3 DEF Ahead, Phased
<1>7. ASSUME NEW i \in DOMAIN timer
      PROVE  /\ timer'[i].wait <= timer'[i].step
             /\ Enough(timer[i], waited[i]) => Enough(timer'[i], waited'[i])
  <2>1. waited \in Seq(Nat) /\ items \in Seq(Items) /\ Len(waited) = Len(items)
    BY DEF Sound, Typed, TypedNews
  <2>2. timer[i] \in Timers /\ i \in DOMAIN items
    BY DEF Sound, Typed, TypedNews
  <2>3. PICK n \in Nat : n = waited[i]
    BY <2>1, <2>2
  <2>4. waited'[i] = Lesser(n + 1, Lead)
    BY <1>1, <2>1, <2>2, <2>3
  <2>5. PICK v \in Timers : v = timer[i]
    BY <2>2
  <2>6. v.wait <= v.step
    BY <2>5 DEF Ahead, Counted
  <2>7. PICK w : w = [v EXCEPT !.wait = Greater(@ - 1, 0)]
    OBVIOUS
  <2>8. timer'[i] = w
    BY <1>1, <2>5, <2>7
  <2>9. /\ w.wait = Greater(v.wait - 1, 0) /\ w.step = v.step /\ w.left = v.left
        /\ v.wait \in Nat /\ v.step \in Nat /\ v.left \in Int
    BY <2>7 DEF Timers
  <2>10. w.wait <= w.step /\ (Enough(v, n) => Enough(w, Lesser(n + 1, Lead)))
    BY <1>2, <2>6, <2>9 DEF Enough, Lesser, Greater
  <2>11. QED
    BY <2>3, <2>4, <2>5, <2>8, <2>10
<1>8. Counted'
  <2>1. DOMAIN timer' = DOMAIN timer
    BY <1>1
  <2>2. QED
    BY <1>1, <1>3, <1>7, <2>1 DEF Ahead, Counted
<1>9. QED
  BY <1>4, <1>5, <1>6, <1>8 DEF Ahead

LEMMA KillAhead ==
  ASSUME Ahead, Kill
  PROVE  Ahead'
<1>1. /\ killed' = TRUE /\ timer' = <<>> /\ rel' = <<>> /\ late' = {}
      /\ thread' = [t \in Thread |-> Idle]
      /\ UNCHANGED <<elapsed, items, log>>
  BY DEF Kill, disk
<1>2. Idle.at = "idle" /\ DOMAIN <<>> = {}
  BY DEF Idle
<1>3. Down'
  BY <1>1, <1>2 DEF Down
<1>4. OneThread'
  BY <1>1, <1>2 DEF OneThread
<1>5. Phased'
  BY <1>1, <1>2 DEF Ahead, Phased
<1>6. Counted'
  BY <1>1, <1>2 DEF Counted
<1>7. QED
  BY <1>3, <1>4, <1>5, <1>6 DEF Ahead

LEMMA RestartAhead ==
  ASSUME Sound, Ahead, Restart
  PROVE  Ahead'
<1> DEFINE unread == {i \in DOMAIN log.news : ~log.news[i].pub}
           ready  == Recover(unread)
<1>1. /\ ~up /\ up' = TRUE
      /\ DOMAIN rel' = DOMAIN log.news
      /\ timer' = [i \in unread \ ready |-> Wait(Greater(LeftOver(i), 0))]
      /\ UNCHANGED <<elapsed, items, waited, thread, log, killed>>
  BY DEF Restart, bounds, clock
<1>2. killed /\ \A t \in Thread : thread[t].at = "idle"
  BY <1>1 DEF Ahead, Down
<1>3. Down' /\ OneThread'
  BY <1>1, <1>2 DEF Down, OneThread
<1>4. Phased'
  BY <1>1 DEF Ahead, Phased
<1> HIDE DEF ready
<1>5. ASSUME NEW i \in unread \ ready
      PROVE  /\ timer'[i].wait <= timer'[i].step
             /\ items'[i].staggered /\ i \in DOMAIN rel' =>
                   Enough(timer'[i], waited'[i]) \/ (killed' /\ elapsed' >= Close)
  <2>1. i \in DOMAIN items /\ waited \in Seq(Nat) /\ items \in Seq(Items)
        /\ Len(waited) = Len(items)
    BY DEF Sound, Typed, TypedNews
  <2>2. PICK n \in Nat : n = waited[i]
    BY <2>1
  <2>3. PICK m \in Int : m = LeftOver(i)
    BY <2>1, LeftOverType DEF Sound
  <2>4. PICK w : w = Wait(Greater(m, 0))
    OBVIOUS
  <2>5. w \in Timers /\ w.left = Greater(m, 0) /\ w.wait = w.step
    <3>1. Greater(m, 0) \in Int
      BY DEF Greater
    <3>2. QED
      BY <2>4, <3>1, WaitType
  <2>6. timer'[i] = w
    BY <1>1, <2>3, <2>4
  <2>7. w.step \in Nat /\ w.wait \in Nat /\ w.left \in Int /\ Lead \in Nat
    BY <2>5, NewsAssumption DEF Timers
  <2>8. w.wait <= w.step
    BY <2>5, <2>7
  <2>9. CASE Tiered(items[i].story)
    <3>1. m = Lead - n
      BY <2>2, <2>3, <2>9 DEF LeftOver
    <3>2. Enough(w, n)
      BY <2>5, <2>7, <3>1 DEF Enough, Greater
    <3>3. QED
      BY <1>1, <2>2, <2>6, <2>8, <3>2
  <2>10. CASE ~Tiered(items[i].story) /\ items[i].staggered
    <3>1. Story[items[i].story].news /\ elapsed >= Phase2
      BY <2>1, <2>10 DEF Ahead, Phased
    <3>2. Stage # "phase2"
      BY <2>10, <3>1 DEF Tiered
    <3>3. elapsed >= Close
      BY <3>1, <3>2, NewsAssumption DEF Stage, Sound, Typed, TypedClock
    <3>4. QED
      BY <1>1, <1>2, <2>6, <2>8, <3>3
  <2>11. QED
    BY <1>1, <2>6, <2>8, <2>9, <2>10
<1>6. Counted'
  <2>1. DOMAIN timer' = unread \ ready
    BY <1>1
  <2> HIDE DEF unread
  <2>2. QED
    BY <1>5, <2>1 DEF Counted
<1>7. QED
  BY <1>3, <1>4, <1>6 DEF Ahead

LEMMA ResetAhead ==
  ASSUME Ahead, Reset
  PROVE  Ahead'
<1>1. /\ up /\ rel' = <<>> /\ timer' = [i \in DOMAIN timer \cap arming |-> timer[i]]
      /\ log' = [news |-> <<>>, sim |-> NewSim, price |-> Opening]
      /\ UNCHANGED <<up, items, thread>>
  BY DEF Reset
<1>2. DOMAIN <<>> = {}
  OBVIOUS
<1>3. Down' /\ OneThread'
  BY <1>1 DEF Ahead, Down, OneThread
<1>4. Phased' /\ Counted'
  BY <1>1, <1>2 DEF Ahead, Phased, Counted
<1>5. QED
  BY <1>3, <1>4 DEF Ahead

LEMMA AheadStep ==
  ASSUME Sound, Ahead, [Next]_vars
  PROVE  Ahead'
<1>1. CASE Advance
  <2>1. price \in Int
    BY DEF Sound, PricesInside, Inside
  <2>2. PICK ids : Fired("run", ids)
    BY <1>1, <2>1, AdvanceFires DEF Sound
  <2>3. QED
    BY <2>2, FiredCalm, CalmAhead
<1>2. ASSUME NEW c \in Organiser, NEW w \in Wants, Request(c, w) PROVE Ahead'
  <2>1. PICK ids : Fired(c, ids)
    BY <1>2, RequestFires DEF Sound
  <2>2. QED
    BY <2>1, FiredCalm, CalmAhead
<1>3. ASSUME NEW t \in Thread, Step(t) PROVE Ahead'
  BY <1>3, PublishAhead, EveryoneAhead, ThreadCalm, CalmAhead DEF Step
<1>4. CASE Pause \/ Resume \/ DiskFault \/ UNCHANGED vars
  <2>1. Calm
    BY <1>4 DEF Pause, Resume, DiskFault, vars, clock, news, disk, bounds, Calm
  <2>2. QED
    BY <2>1, CalmAhead
<1>5. ASSUME NEW i \in DOMAIN items, NoteLate(i) PROVE Ahead'
  <2>1. DOMAIN log'.news \subseteq DOMAIN log.news \cup DOMAIN rel
    BY <1>5, NoteType DEF NoteLate, Sound
  <2>2. Calm
    BY <1>5, <2>1 DEF NoteLate, clock, bounds, Calm
  <2>3. QED
    BY <2>2, CalmAhead
<1>6. QED
  BY <1>1, <1>2, <1>3, <1>4, <1>5, WakeAhead, ArmingAhead, TickAhead, KillAhead, RestartAhead,
     ResetAhead DEF Next, ItemStep

(* The two steps that may give the public a story that fund managers had   *)
(* first: the timer's callback, and a restart.                             *)
Fair(i) ==
    /\ (i \in DOMAIN rel /\ ~rel[i].pub /\ rel'[i].pub /\ items[i].staggered)
          => ~paused /\ (waited[i] >= Lead \/ (killed /\ ~Tiered(items[i].story)))
    /\ (~up /\ rel'[i].pub /\ ~log.news[i].pub)
          => ~paused /\ (waited[i] >= Lead \/ ~Tiered(items[i].story))

LEMMA HeadStartStep ==
  ASSUME Sound, Ahead, [Next]_vars, NEW i \in DOMAIN rel'
  PROVE  Fair(i)
<1>1. ASSUME rel' = rel PROVE Fair(i)
  BY <1>1 DEF Ahead, Down, Fair
<1>2. ASSUME NEW t \in Thread, Step(t) PROVE Fair(i)
  <2>1. up
    BY <1>2 DEF Step, Publish, Everyone, NotePublic, Copy, Finish, Ahead, Down
  <2>2. CASE Publish(t)
    <3>1. /\ items \in Seq(Items) /\ DOMAIN items = 1 .. Len(items) /\ Len(items) \in Nat
          /\ DOMAIN rel \subseteq DOMAIN items
      BY DEF Sound, Typed, TypedNews
    <3>2. Len(items) + 1 \notin DOMAIN rel
      BY <3>1
    <3>3. i \in DOMAIN rel => rel'[i] = rel[i]
      BY <2>2, <3>2 DEF Publish
    <3>4. QED
      BY <2>1, <3>3 DEF Fair
  <2>3. CASE Everyone(t)
    <3>1. thread[t].item \in DOMAIN items /\ ~items[thread[t].item].staggered
      BY <2>3 DEF Everyone, Ahead, OneThread
    <3>2. UNCHANGED rel \/ Deliver("pub", thread[t].item)
      BY <2>3 DEF Everyone
    <3>3. i \in DOMAIN rel /\ i # thread[t].item => rel'[i] = rel[i]
      BY <3>2, DeliverType DEF Sound
    <3>4. QED
      BY <2>1, <3>1, <3>3 DEF Fair
  <2>4. CASE NotePublic(t) \/ Copy(t) \/ Finish(t)
    BY <1>1, <2>4 DEF NotePublic, Copy, Finish, news
  <2>5. QED
    BY <1>2, <2>2, <2>3, <2>4 DEF Step
<1>3. ASSUME NEW k, Wake(k) PROVE Fair(i)
  <2>1. k \in DOMAIN timer /\ timer[k].wait = 0 /\ up
    BY <1>3 DEF Wake, Ahead, Down
  <2>2. CASE rel' = rel
    BY <1>1, <2>2
  <2>3. CASE rel' # rel
    <3>1. timer[k].left - timer[k].step <= 0 /\ ~paused /\ Deliver("pub", k)
      BY <1>3, <2>3 DEF Wake
    <3>2. i \in DOMAIN rel /\ (i # k => rel'[i] = rel[i])
      BY <3>1, DeliverType DEF Sound
    <3>3. timer[k] \in Timers /\ k \in DOMAIN items /\ waited \in Seq(Nat)
          /\ items \in Seq(Items) /\ Len(waited) = Len(items)
      BY <2>1 DEF Sound, Typed, TypedNews
    <3>4. PICK n \in Nat : n = waited[k]
      BY <3>3
    <3>5. PICK v \in Timers : v = timer[k]
      BY <3>3
    <3>6. Enough(v, n) => n >= Lead
      <4>1. v.left \in Int /\ v.step \in Nat /\ v.wait = 0 /\ Lead \in Nat /\ v.left - v.step <= 0
        BY <2>1, <3>1, <3>5, NewsAssumption DEF Timers
      <4>2. QED
        BY <4>1 DEF Enough
    <3>7. elapsed >= Close => ~Tiered(items[k].story)
      <4>1. elapsed >= Close => Stage # "phase2"
        BY NewsAssumption DEF Stage, Sound, Typed, TypedClock
      <4>2. QED
        BY <4>1 DEF Tiered
    <3>8. items[k].staggered => Enough(v, n) \/ (killed /\ elapsed >= Close)
      <4>1. k \in DOMAIN rel
        BY <2>3, <3>1 DEF Deliver
      <4>2. items[k].staggered /\ k \in DOMAIN rel =>
               Enough(timer[k], waited[k]) \/ (killed /\ elapsed >= Close)
        BY <2>1 DEF Ahead, Counted
      <4>3. QED
        BY <3>4, <3>5, <4>1, <4>2
    <3>9. QED
      BY <2>1, <3>1, <3>2, <3>4, <3>6, <3>7, <3>8 DEF Fair
  <2>4. QED
    BY <2>2, <2>3
<1>4. CASE Restart
  <2> DEFINE unread == {j \in DOMAIN log.news : ~log.news[j].pub}
  <2>1. /\ ~up
        /\ rel' = [j \in DOMAIN log.news |->
              IF j \in Recover(unread) THEN [log.news[j] EXCEPT !.pub = TRUE] ELSE log.news[j]]
    BY <1>4 DEF Restart
  <2>2. i \notin DOMAIN rel
    BY <2>1 DEF Ahead, Down
  <2>3. ASSUME rel'[i].pub, ~log.news[i].pub
        PROVE  ~paused /\ (waited[i] >= Lead \/ ~Tiered(items[i].story))
    <3>1. i \in Recover(unread) /\ i \in DOMAIN log.news
      BY <2>1, <2>3
    <3>2. LeftOver(i) <= 0 /\ ~paused /\ i \in DOMAIN items
      BY <3>1 DEF Recover, Sound, Typed, TypedNews
    <3>3. waited \in Seq(Nat) /\ items \in Seq(Items) /\ Len(waited) = Len(items)
      BY DEF Sound, Typed, TypedNews
    <3>4. PICK n \in Nat : n = waited[i]
      BY <3>2, <3>3
    <3>5. Tiered(items[i].story) => Lead - n <= 0
      BY <3>2, <3>4 DEF LeftOver
    <3>6. QED
      BY <3>2, <3>4, <3>5, NewsAssumption
  <2>4. QED
    BY <2>2, <2>3 DEF Fair
<1>5. CASE Kill \/ Reset
  <2>1. rel' = <<>> /\ DOMAIN <<>> = {}
    BY <1>5 DEF Kill, Reset
  <2>2. QED
    BY <2>1
<1>6. ASSUME NEW c \in Organiser, NEW w \in Wants, Request(c, w) PROVE Fair(i)
  BY <1>1, <1>6 DEF Request, news
<1>7. CASE Advance \/ Tick \/ Pause \/ Resume \/ DiskFault \/ UNCHANGED vars
  BY <1>1, <1>7 DEF Advance, Tick, Pause, Resume, DiskFault, vars, news
<1>8. ASSUME NEW k, NoteLate(k) \/ Overslept(k) \/ Register(k) PROVE Fair(i)
  BY <1>1, <1>8 DEF NoteLate, Overslept, Register
<1>9. ASSUME NEW k \in DOMAIN items, ItemStep(k) PROVE Fair(i)
  BY <1>3, <1>8, <1>9 DEF ItemStep
<1>10. QED
  BY <1>2, <1>4, <1>5, <1>6, <1>7, <1>9 DEF Next

-----------------------------------------------------------------------------
(* Stories, once in a life.  What a step that fires and publishes nothing  *)
(* may do.                                                                 *)
Quiet ==
    /\ DOMAIN items' = DOMAIN items
    /\ \A i \in DOMAIN items :
          items'[i].story = items[i].story /\ items'[i].life = items[i].life
    /\ \A u \in Thread : thread'[u].out = thread[u].out \/ DOMAIN thread'[u].out = {}
    /\ UNCHANGED <<sim, life, up, killed>>

LEMMA OnceInit == Init => Once
<1> SUFFICES ASSUME Init PROVE Once
  OBVIOUS
<1>1. DOMAIN <<>> = {}
  OBVIOUS
<1>2. up /\ items = <<>> /\ \A t \in Thread : thread[t].out = <<>>
  BY DEF Init, Idle
<1>3. QED
  BY <1>1, <1>2 DEF Once, ItemsOnce, OutOnce, NotYetOut, AllMarked

LEMMA QuietOnce ==
  ASSUME Once, Quiet
  PROVE  Once'
<1> SUFFICES ASSUME ~killed' PROVE up' /\ ItemsOnce' /\ OutOnce' /\ NotYetOut' /\ AllMarked'
  BY DEF Once
<1>1. up /\ ItemsOnce /\ OutOnce /\ NotYetOut /\ AllMarked
  BY DEF Once, Quiet
<1>2. ItemsOnce'
  BY <1>1 DEF Quiet, ItemsOnce, Same
<1>3. OutOnce'
  BY <1>1 DEF Quiet, OutOnce
<1>4. NotYetOut'
  BY <1>1 DEF Quiet, NotYetOut, Same
<1>5. AllMarked'
  BY <1>1 DEF Quiet, AllMarked, Marked
<1>6. QED
  BY <1>1, <1>2, <1>3, <1>4, <1>5 DEF Quiet

LEMMA FiredIsOnce ==
  ASSUME Sound, Once, NEW t, NEW ids, Fired(t, ids)
  PROVE  Once'
<1> SUFFICES ASSUME ~killed' PROVE up' /\ ItemsOnce' /\ OutOnce' /\ NotYetOut' /\ AllMarked'
  BY DEF Once
<1>1. /\ up' /\ items' = items /\ life' = life /\ sim.fired \subseteq sim'.fired
      /\ life \in Nat
  BY DEF Fired, Sound, Typed, TypedClock, news
<1>2. up /\ ItemsOnce /\ OutOnce /\ NotYetOut /\ AllMarked
  BY DEF Once, Fired
<1>3. ItemsOnce'
  BY <1>1, <1>2 DEF ItemsOnce
<1>4. CASE thread'[t] = thread[t]
  <2>1. \A u \in Thread : thread'[u] = thread[u]
    BY <1>4 DEF Fired
  <2>2. OutOnce' /\ NotYetOut'
    BY <1>1, <1>2, <2>1 DEF OutOnce, NotYetOut
  <2>3. AllMarked'
    BY <1>1, <1>2, <2>1 DEF AllMarked, Marked
  <2>4. QED
    BY <1>1, <1>3, <2>2, <2>3
<1>5. CASE thread'[t] # thread[t]
  <2>1. /\ DOMAIN thread'[t].out = DOMAIN ids
        /\ \A k \in DOMAIN ids : thread'[t].out[k] = [story |-> ids[k], life |-> life]
        /\ \A k \in DOMAIN ids :
              ids[k] \in Desk \/ (ids[k] \notin sim.fired /\ ids[k] \in sim'.fired)
        /\ IsInjective(ids) /\ \A u \in Thread : u # t => thread'[u] = thread[u]
    BY <1>5 DEF Fired
  <2>2. \A k \in DOMAIN thread'[t].out :
           /\ k \in DOMAIN ids /\ thread'[t].out[k].story = ids[k]
           /\ thread'[t].out[k].life = life
    <3>1. PICK r : r = thread'[t].out
      OBVIOUS
    <3>2. \A k \in DOMAIN ids : r[k] = [story |-> ids[k], life |-> life]
      BY <2>1, <3>1
    <3>3. ASSUME NEW k \in DOMAIN ids PROVE r[k].story = ids[k] /\ r[k].life = life
      <4>1. PICK a : a = ids[k]
        OBVIOUS
      <4>2. r[k] = [story |-> a, life |-> life]
        BY <3>2, <4>1
      <4>3. QED
        BY <4>1, <4>2
    <3>4. QED
      BY <2>1, <3>1, <3>3
  <2>3. ASSUME NEW a, NEW k \in DOMAIN thread'[t].out, Marked(a)
        PROVE  ~Same(thread'[t].out[k], a) /\ ~Same(a, thread'[t].out[k])
    BY <2>1, <2>2, <2>3 DEF Same, Marked
  <2>4. \A k, m \in DOMAIN thread'[t].out :
           k # m => ~Same(thread'[t].out[k], thread'[t].out[m])
    BY <2>1, <2>2 DEF Same, IsInjective
  <2>5. \A u \in Thread : u # t => \A k \in DOMAIN thread'[u].out :
           Marked(thread'[u].out[k])
    BY <1>2, <2>1 DEF AllMarked
  <2>6. \A i \in DOMAIN items : Marked(items[i])
    BY <1>2 DEF AllMarked
  <2>7. OutOnce'
    <3>1. ASSUME NEW u \in Thread, NEW v \in Thread, NEW k \in DOMAIN thread'[u].out,
                 NEW m \in DOMAIN thread'[v].out, u # v \/ k # m
          PROVE  ~Same(thread'[u].out[k], thread'[v].out[m])
      <4>1. CASE u = t /\ v = t
        BY <2>4, <3>1, <4>1
      <4>2. CASE u = t /\ v # t
        BY <2>3, <2>5, <4>2
      <4>3. CASE u # t /\ v = t
        BY <2>3, <2>5, <4>3
      <4>4. CASE u # t /\ v # t
        BY <1>2, <2>1, <3>1, <4>4 DEF OutOnce
      <4>5. QED
        BY <4>1, <4>2, <4>3, <4>4
    <3>2. QED
      BY <3>1 DEF OutOnce, Same
  <2>8. NotYetOut'
    <3>1. ASSUME NEW u \in Thread, NEW k \in DOMAIN thread'[u].out, NEW i \in DOMAIN items
          PROVE  ~Same(thread'[u].out[k], items[i])
      <4>1. CASE u = t
        BY <2>3, <2>6, <4>1
      <4>2. CASE u # t
        BY <1>2, <2>1, <4>2 DEF NotYetOut
      <4>3. QED
        BY <4>1, <4>2
    <3>2. QED
      BY <1>1, <3>1 DEF NotYetOut, Same
  <2>9. AllMarked'
    <3>1. \A i \in DOMAIN items : /\ items[i].life <= life
                                  /\ items[i].life = life /\ items[i].story \notin Desk
                                        => items[i].story \in sim'.fired
      BY <1>1, <2>6 DEF Marked
    <3>2. \A u \in Thread : \A k \in DOMAIN thread'[u].out :
             /\ thread'[u].out[k].life <= life
             /\ thread'[u].out[k].life = life /\ thread'[u].out[k].story \notin Desk
                   => thread'[u].out[k].story \in sim'.fired
      <4>1. ASSUME NEW u \in Thread, u # t, NEW k \in DOMAIN thread'[u].out
            PROVE  /\ thread'[u].out[k].life <= life
                   /\ thread'[u].out[k].life = life /\ thread'[u].out[k].story \notin Desk
                         => thread'[u].out[k].story \in sim'.fired
        BY <1>1, <2>5, <4>1 DEF Marked
      <4>2. ASSUME NEW k \in DOMAIN thread'[t].out
            PROVE  /\ thread'[t].out[k].life <= life
                   /\ thread'[t].out[k].life = life /\ thread'[t].out[k].story \notin Desk
                         => thread'[t].out[k].story \in sim'.fired
        BY <1>1, <2>1, <2>2
      <4>3. QED
        BY <4>1, <4>2
    <3>3. QED
      BY <1>1, <3>1, <3>2 DEF AllMarked, Marked
  <2>10. QED
    BY <1>1, <1>3, <2>7, <2>8, <2>9
<1>6. QED
  BY <1>4, <1>5

LEMMA PublishOnce ==
  ASSUME Sound, Once, NEW t \in Thread, Publish(t)
  PROVE  Once'
<1> SUFFICES ASSUME ~killed' PROVE up' /\ ItemsOnce' /\ OutOnce' /\ NotYetOut' /\ AllMarked'
  BY DEF Once
<1> DEFINE n == Len(items) + 1
           q == thread[t].out
           new == [story |-> Head(q).story, life |-> Head(q).life, staggered |-> FALSE]
           th == [thread[t] EXCEPT !.at = "public", !.item = n, !.out = Tail(@)]
<1>1. /\ q # <<>> /\ items' = Append(items, new) /\ Goes(t, th)
      /\ UNCHANGED <<up, sim, life, killed>>
  BY DEF Publish, bounds
<1>2. up /\ ItemsOnce /\ OutOnce /\ NotYetOut /\ AllMarked
  BY <1>1 DEF Once
<1>3. /\ items \in Seq(Items) /\ DOMAIN items = 1 .. Len(items) /\ Len(items) \in Nat
      /\ thread \in [Thread -> Threads] /\ q \in Seq(Out)
  BY DEF Sound, Typed, TypedNews, TypedSim, Threads
<1>4. /\ DOMAIN q = 1 .. Len(q) /\ Len(q) \in Nat \ {0} /\ Head(q) = q[1]
      /\ 1 \in DOMAIN q
      /\ DOMAIN Tail(q) = 1 .. Len(q) - 1
      /\ \A k \in DOMAIN Tail(q) : Tail(q)[k] = q[k + 1] /\ k + 1 \in DOMAIN q /\ k + 1 # 1
  BY <1>1, <1>3
<1>5. new.story = q[1].story /\ new.life = q[1].life
  BY <1>4
<1> HIDE DEF new
<1>6. /\ items'[n] = new /\ DOMAIN items' = DOMAIN items \cup {n} /\ n \notin DOMAIN items
      /\ \A i \in DOMAIN items : items'[i] = items[i]
  <2>1. Len(items') = n /\ DOMAIN items' = 1 .. n
    BY <1>1, <1>3
  <2>2. 1 .. n = (1 .. Len(items)) \cup {n} /\ n \notin 1 .. Len(items)
    BY <1>3
  <2>3. \A i \in 1 .. Len(items) : items'[i] = items[i]
    BY <1>1, <1>3
  <2>4. items'[n] = new
    BY <1>1, <1>3
  <2>5. QED
    BY <1>3, <2>1, <2>2, <2>3, <2>4
<1>7. /\ thread'[t].out = Tail(q)
      /\ \A u \in Thread : u # t => thread'[u] = thread[u]
  <2> HIDE DEF n
  <2>1. th.out = Tail(q)
    BY <1>3 DEF Threads
  <2>2. QED
    BY <1>1, <1>3, <2>1 DEF Goes
<1> HIDE DEF n, q, th
<1>8. thread[t].out = q
  BY DEF q
<1>9. ASSUME NEW u \in Thread, NEW k \in DOMAIN thread'[u].out
      PROVE  \E m \in DOMAIN thread[u].out :
                /\ thread'[u].out[k] = thread[u].out[m]
                /\ u = t => m = k + 1 /\ m # 1 /\ k \in Int
                /\ u # t => m = k
  BY <1>4, <1>7, <1>8
<1>10. ItemsOnce'
  <2>1. \A i \in DOMAIN items : ~Same(q[1], items[i])
    BY <1>2, <1>4, <1>8 DEF NotYetOut
  <2>2. \A i \in DOMAIN items : ~Same(new, items[i]) /\ ~Same(items[i], new)
    BY <1>5, <2>1 DEF Same
  <2>3. \A i, j \in DOMAIN items' : i # j => ~Same(items'[i], items'[j])
    BY <1>2, <1>6, <2>2 DEF ItemsOnce
  <2>4. QED
    BY <2>3 DEF ItemsOnce, Same
<1>11. OutOnce'
  <2>1. ASSUME NEW u \in Thread, NEW v \in Thread, NEW k \in DOMAIN thread'[u].out,
               NEW m \in DOMAIN thread'[v].out, u # v \/ k # m
        PROVE  ~Same(thread'[u].out[k], thread'[v].out[m])
    <3>1. PICK x \in DOMAIN thread[u].out :
             /\ thread'[u].out[k] = thread[u].out[x]
             /\ u = t => x = k + 1 /\ x # 1 /\ k \in Int
             /\ u # t => x = k
      BY <1>9
    <3>2. PICK y \in DOMAIN thread[v].out :
             /\ thread'[v].out[m] = thread[v].out[y]
             /\ v = t => y = m + 1 /\ y # 1 /\ m \in Int
             /\ v # t => y = m
      BY <1>9
    <3>3. u # v \/ x # y
      BY <2>1, <3>1, <3>2
    <3>4. QED
      BY <1>2, <3>1, <3>2, <3>3 DEF OutOnce
  <2>2. QED
    BY <2>1 DEF OutOnce, Same
<1>12. NotYetOut'
  <2>1. ASSUME NEW u \in Thread, NEW k \in DOMAIN thread'[u].out, NEW i \in DOMAIN items'
        PROVE  ~Same(thread'[u].out[k], items'[i])
    <3>1. PICK x \in DOMAIN thread[u].out :
             /\ thread'[u].out[k] = thread[u].out[x]
             /\ u = t => x # 1
      BY <1>9
    <3>2. CASE i \in DOMAIN items
      BY <1>2, <1>6, <3>1, <3>2 DEF NotYetOut
    <3>3. CASE i = n
      <4>1. ~Same(thread[u].out[x], q[1])
        BY <1>2, <1>4, <1>8, <3>1 DEF OutOnce
      <4>2. ~Same(thread[u].out[x], new)
        BY <1>5, <4>1 DEF Same
      <4>3. QED
        BY <1>6, <3>1, <3>3, <4>2
    <3>4. QED
      BY <1>6, <3>2, <3>3
  <2>2. QED
    BY <2>1 DEF NotYetOut, Same
<1>13. AllMarked'
  <2>1. \A i \in DOMAIN items' : Marked(items'[i])
    <3>1. Marked(q[1])
      BY <1>2, <1>4, <1>8 DEF AllMarked
    <3>2. Marked(new)
      BY <1>5, <3>1 DEF Marked
    <3>3. QED
      BY <1>2, <1>6, <3>2 DEF AllMarked
  <2>2. \A u \in Thread : \A k \in DOMAIN thread'[u].out : Marked(thread'[u].out[k])
    BY <1>2, <1>9 DEF AllMarked
  <2>3. QED
    BY <1>1, <2>1, <2>2 DEF AllMarked, Marked
<1>14. QED
  BY <1>1, <1>2, <1>10, <1>11, <1>12, <1>13

LEMMA ThreadQuiet ==
  ASSUME Sound, NEW t \in Thread, Everyone(t) \/ NotePublic(t) \/ Copy(t) \/ Finish(t)
  PROVE  Quiet
<1>1. items \in Seq(Items) /\ thread \in [Thread -> Threads]
  BY DEF Sound, Typed, TypedNews, TypedSim
<1>2. UNCHANGED <<sim, life, up, killed>>
  BY DEF Everyone, NotePublic, Copy, Finish, bounds
<1>3. \A u \in Thread : thread'[u].out = thread[u].out \/ DOMAIN thread'[u].out = {}
  <2>1. PICK th : thread' = [thread EXCEPT ![t] = th]
                  /\ (th.out = thread[t].out \/ th.out = <<>>)
    <3>1. ASSUME NEW place, Goes(t, [thread[t] EXCEPT !.at = place])
          PROVE  \E th : thread' = [thread EXCEPT ![t] = th] /\ th.out = thread[t].out
      <4>1. [thread[t] EXCEPT !.at = place].out = thread[t].out
        BY <1>1 DEF Threads
      <4>2. QED
        BY <3>1, <4>1 DEF Goes
    <3>2. CASE Everyone(t) \/ NotePublic(t)
      BY <3>1, <3>2 DEF Everyone, NotePublic
    <3>3. CASE Copy(t)
      <4>1. [thread[t] EXCEPT !.sim = sim, !.copies = FALSE].out = thread[t].out
        BY <1>1 DEF Threads
      <4>2. QED
        BY <3>3, <4>1 DEF Copy, Goes
    <3>4. CASE Finish(t)
      <4>1. Idle.out = <<>> /\ thread' = [thread EXCEPT ![t] = Idle]
        BY <3>4 DEF Finish, Goes, Idle
      <4>2. QED
        BY <4>1
    <3>5. QED
      BY <3>2, <3>3, <3>4
  <2>2. DOMAIN <<>> = {}
    OBVIOUS
  <2>3. QED
    BY <1>1, <2>1, <2>2
<1>4. /\ DOMAIN items' = DOMAIN items
      /\ \A i \in DOMAIN items :
            items'[i].story = items[i].story /\ items'[i].life = items[i].life
  <2>1. PICK k : k = thread[t].item
    OBVIOUS
  <2>2. items' = items \/ items' = [items EXCEPT ![k].staggered = TRUE]
    BY <2>1 DEF Everyone, NotePublic, Copy, Finish, news
  <2>3. CASE items' = [items EXCEPT ![k].staggered = TRUE]
    <3>1. PICK a : a = [items[k] EXCEPT !.staggered = TRUE]
      OBVIOUS
    <3>2. items' = [items EXCEPT ![k] = a]
      BY <2>3, <3>1
    <3>3. k \in DOMAIN items => a.story = items[k].story /\ a.life = items[k].life
      <4>1. k \in DOMAIN items => items[k] \in Items
        BY <1>1
      <4>2. QED
        BY <3>1, <4>1 DEF Items
    <3>4. DOMAIN items' = DOMAIN items
      BY <1>1, <3>2
    <3>5. ASSUME NEW i \in DOMAIN items
          PROVE  items'[i].story = items[i].story /\ items'[i].life = items[i].life
      BY <1>1, <3>2, <3>3
    <3>6. QED
      BY <3>4, <3>5
  <2>4. QED
    BY <2>2, <2>3
<1>5. QED
  BY <1>2, <1>3, <1>4 DEF Quiet

LEMMA ResetOnce ==
  ASSUME Sound, Once, Reset
  PROVE  Once'
<1> SUFFICES ASSUME ~killed' PROVE up' /\ ItemsOnce' /\ OutOnce' /\ NotYetOut' /\ AllMarked'
  BY DEF Once
<1>1. life' = life + 1 /\ UNCHANGED <<up, items, thread, killed>>
  BY DEF Reset
<1>2. up /\ ItemsOnce /\ OutOnce /\ NotYetOut /\ AllMarked
  BY <1>1 DEF Once
<1>3. ItemsOnce' /\ OutOnce' /\ NotYetOut'
  BY <1>1, <1>2 DEF ItemsOnce, OutOnce, NotYetOut, Same
<1>4. /\ life \in Nat /\ items \in Seq(Items)
      /\ \A t \in Thread : thread[t].out \in Seq(Out)
  BY DEF Sound, Typed, TypedNews, TypedSim, TypedClock, Threads
<1>5. \A i \in DOMAIN items : items[i].life \in Nat /\ items[i].life <= life
  <2>1. ASSUME NEW i \in DOMAIN items
        PROVE  items[i].life \in Nat /\ items[i].life <= life
    <3>1. items[i] \in Items /\ Marked(items[i])
      BY <1>2, <1>4 DEF AllMarked
    <3>2. QED
      BY <3>1 DEF Items, Marked
  <2>2. QED
    BY <2>1
<1>6. \A t \in Thread : \A k \in DOMAIN thread[t].out :
         thread[t].out[k].life \in Nat /\ thread[t].out[k].life <= life
  <2>1. ASSUME NEW t \in Thread, NEW k \in DOMAIN thread[t].out
        PROVE  thread[t].out[k].life \in Nat /\ thread[t].out[k].life <= life
    <3>1. thread[t].out[k] \in Out /\ Marked(thread[t].out[k])
      BY <1>2, <1>4 DEF AllMarked
    <3>2. QED
      BY <3>1 DEF Out, Marked
  <2>2. QED
    BY <2>1
<1>7. AllMarked'
  BY <1>1, <1>4, <1>5, <1>6 DEF AllMarked, Marked
<1>8. QED
  BY <1>1, <1>2, <1>3, <1>7

LEMMA OnceStep ==
  ASSUME Sound, Once, [Next]_vars
  PROVE  Once'
<1>1. CASE Advance
  <2>1. price \in Int
    BY DEF Sound, PricesInside, Inside
  <2>2. PICK ids : Fired("run", ids)
    BY <1>1, <2>1, AdvanceFires DEF Sound
  <2>3. QED
    BY <2>2, FiredIsOnce
<1>2. ASSUME NEW c \in Organiser, NEW w \in Wants, Request(c, w) PROVE Once'
  <2>1. PICK ids : Fired(c, ids)
    BY <1>2, RequestFires DEF Sound
  <2>2. QED
    BY <2>1, FiredIsOnce
<1>3. ASSUME NEW t \in Thread, Step(t) PROVE Once'
  BY <1>3, PublishOnce, ThreadQuiet, QuietOnce DEF Step
<1>4. CASE Pause \/ Resume \/ DiskFault \/ Tick \/ UNCHANGED vars
  <2>1. Quiet
    BY <1>4 DEF Pause, Resume, DiskFault, Tick, vars, news, bounds, Quiet
  <2>2. QED
    BY <2>1, QuietOnce
<1>5. ASSUME NEW i \in DOMAIN items, ItemStep(i) PROVE Once'
  <2>1. CASE Wake(i) \/ NoteLate(i) \/ Overslept(i)
    <3>1. UNCHANGED <<items, sim, life, up, killed, thread>>
      BY <2>1 DEF Wake, NoteLate, Overslept, bounds
    <3>2. QED
      BY <3>1, QuietOnce DEF Quiet
  <2>2. CASE Register(i)
    <3>1. /\ thread' = [t \in Thread |-> IF thread[t].at = "arming" /\ thread[t].item = i
                                         THEN [thread[t] EXCEPT !.at = "publish"]
                                         ELSE thread[t]]
          /\ UNCHANGED <<items, sim, life, up, killed>>
      BY <2>2 DEF Register, bounds
    <3>2. ASSUME NEW u \in Thread PROVE thread'[u].out = thread[u].out
      <4>1. PICK th \in Threads : th = thread[u]
        BY DEF Sound, Typed, TypedSim
      <4>2. [th EXCEPT !.at = "publish"].out = th.out
        BY <4>1 DEF Threads
      <4>3. QED
        BY <3>1, <4>1, <4>2
    <3>3. QED
      BY <3>1, <3>2, QuietOnce DEF Quiet
  <2>3. QED
    BY <1>5, <2>1, <2>2 DEF ItemStep
<1>6. CASE Kill \/ Restart
  <2>1. killed'
    BY <1>6 DEF Kill, Restart, bounds, Once
  <2>2. QED
    BY <2>1 DEF Once
<1>7. QED
  BY <1>1, <1>2, <1>3, <1>4, <1>5, <1>6, ResetOnce DEF Next

-----------------------------------------------------------------------------
(* What all of this says of every behaviour. *)
LEMMA Always == Spec => [](Sound /\ Ahead /\ Once)
<1>1. Init => Sound /\ Ahead /\ Once
  BY SoundInit, AheadInit, OnceInit
<1>2. Sound /\ Ahead /\ Once /\ [Next]_vars => (Sound /\ Ahead /\ Once)'
  <2> SUFFICES ASSUME Sound, Ahead, Once, [Next]_vars PROVE (Sound /\ Ahead /\ Once)'
    OBVIOUS
  <2>1. OneThread
    BY DEF Ahead
  <2>2. Sound' /\ Ahead' /\ Once'
    BY <2>1, SoundStep, AheadStep, OnceStep
  <2>3. QED
    BY <2>2
<1>3. QED
  BY <1>1, <1>2, PTL DEF Spec

(* A story is published once in an event, whoever fires it and however the *)
(* engine's loop, the organisers, faults and resets interleave, unless the *)
(* process was killed: Advance, FireEvent and ReleaseOverdue mark it under *)
(* the engine's lock before the news goes out.                             *)
THEOREM StoriesOnce == Spec => []FiredOnce
<1>1. Sound /\ Ahead /\ Once => FiredOnce
  BY DEF Once, ItemsOnce, Same, FiredOnce
<1>2. QED
  BY <1>1, Always, PTL

(* The price is one of the table's, the first, or inside the floor and the *)
(* cap: boundLocked, for any shocks, drift and rounding, and through kills.*)
THEOREM PriceStaysInside == Spec => []PriceInside
<1>1. Sound /\ Ahead /\ Once => PriceInside
  BY DEF Sound, PricesInside, Inside, PriceInside
<1>2. QED
  BY <1>1, Always, PTL

(* The public gets a story of Phase 2 when the whole head start is over    *)
(* and the event runs, through pauses, kills and resets (releaseLater and  *)
(* Recover); a restart after Phase 2 is the one exception.                 *)
THEOREM HeadStartKept == Spec => HeadStart
<1>1. Sound /\ Ahead /\ Once /\ [Next]_vars =>
        [\A i \in DOMAIN rel' : Fair(i)]_vars
  <2> SUFFICES ASSUME Sound, Ahead, [Next]_vars
               PROVE  \A i \in DOMAIN rel' : Fair(i)
    OBVIOUS
  <2>1. QED
    BY HeadStartStep
<1>2. QED
  BY <1>1, Always, PTL DEF Spec, HeadStart, Fair

-----------------------------------------------------------------------------
(* The limit on trades.  The argument compares two counts at every time t: *)
(* the hits after t in a key's list, with those that came behind them, and *)
(* the requests let through after t that have, or may still make, a trade. *)
(* Both grow with a request and fall with a refund, but for a request that *)
(* came behind a later one, and a refund that found a newer hit.           *)

Done == {"limited", "allowed", "traded", "refunding", "ended"}

(* The requests that hold a slot. *)
Owners(k) ==
    {c \in Call : req[c].key = k /\ fresh[c] /\ pc[c] \in {"allowed", "traded", "refunding"}}

Owned(k, t) == {c \in Owners(k) : at[c] > t}

OwnedIn(k, t) == {c \in Owners(k) : at[c] \in t - Span + 1 .. t}

(* The hits after a time, and those behind them. *)
Late(h, t) == {i \in DOMAIN h : \E j \in 1 .. i : h[j] > t}

GateTyped ==
    /\ now \in Nat
    /\ hits \in [Key -> Seq(Nat)]
    /\ pc \in [Call -> {"idle", "refused", "entered", "new", "timed", "limited", "allowed",
                        "traded", "refunding", "ended"}]
    /\ req \in [Call -> [key : Key, id : Id] \cup {NoRequest}]
    /\ fresh \in [Call -> BOOLEAN] /\ at \in [Call -> Nat]
    /\ \A c \in Call : at[c] <= now
    /\ \A c \in Call : pc[c] # "idle" => req[c] \in [key : Key, id : Id]
    /\ overtaken \in [Key -> Nat] /\ behind \in [Key -> Nat]

(* The requests so far are finitely many. *)
Finite == IsFiniteSet({c \in Call : pc[c] # "idle"})

(* What a request knows of its client id, and what was made under it. *)
Traded ==
    /\ \A n \in DOMAIN made : /\ made[n] \in Call /\ pc[made[n]] = "traded"
                              /\ fresh[made[n]] /\ Name(made[n]) = n
    /\ \A c \in Call :
          /\ pc[c] = "traded" => Name(c) \in DOMAIN made /\ made[Name(c)] = c
          /\ pc[c] = "allowed" /\ ~fresh[c] => Name(c) \in DOMAIN made
          /\ pc[c] \in {"new", "timed", "refunding"} => fresh[c]

(* The list is within the limit, and every hit is that of a request that   *)
(* has been at the limiter.                                                *)
Kept ==
    \A k \in Key :
        /\ Len(hits[k]) <= Limit
        /\ \A i \in DOMAIN hits[k] : \E d \in Served(k) : at[d] = hits[k][i]

(* No hit without a request that holds its slot, but for those that came   *)
(* behind a later one ...                                                  *)
NoneLeft ==
    \A k \in Key : \A t \in Int :
        Cardinality(Late(hits[k], t)) <= Cardinality(Owned(k, t)) + behind[k]

(* ... and no slot held without its hit, but for the refunds that came too *)
(* late, as long as nobody has dropped hits of that time ...               *)
Recent(k, t) == \A d \in Served(k) : t >= at[d] - Span

Covered ==
    \A k \in Key : \A t \in Int :
        Recent(k, t) => Cardinality(Owned(k, t)) <= Cardinality(Late(hits[k], t)) + overtaken[k]

(* ... so that no window ever had more slots held than it has. *)
Windows ==
    \A k \in Key : \A t \in 0 .. now :
        Cardinality(OwnedIn(k, t)) <= Limit + overtaken[k] + behind[k]

GateInv == GateTyped /\ Finite /\ Traded /\ Kept /\ NoneLeft /\ Covered /\ Windows

-----------------------------------------------------------------------------
(* Counting. *)

(* The smallest of some positions. *)
LEMMA SmallestIs ==
  ASSUME NEW n \in Nat, NEW d \in SUBSET (1 .. n), d # {}
  PROVE  Min(d) \in d /\ \A y \in d : Min(d) <= y
<1>1. PICK e : e = {n + 1 - i : i \in d}
  OBVIOUS
<1>2. \A i \in d : i \in Int /\ 1 <= i /\ i <= n
  OBVIOUS
<1>3. e \in SUBSET (1 .. n) /\ e # {} /\ \A i \in d : n + 1 - i \in e
  <2>1. \A i \in d : n + 1 - i \in e /\ n + 1 - i \in 1 .. n
    BY <1>1, <1>2
  <2>2. \A m \in e : \E i \in d : m = n + 1 - i
    BY <1>1
  <2>3. PICK i : i \in d
    OBVIOUS
  <2>4. e # {}
    BY <2>1, <2>3
  <2>5. QED
    BY <2>1, <2>2, <2>4
<1>4. PICK m \in e : \A y \in e : m >= y
  BY <1>3, Greatest
<1>5. PICK i \in d : m = n + 1 - i
  BY <1>1
<1>6. \A y \in d : i <= y
  BY <1>2, <1>3, <1>4, <1>5
<1>7. \E x \in d : \A y \in d : x <= y
  BY <1>6
<1>8. QED
  BY <1>7 DEF Min

(* The hits after a time are finitely many. *)
LEMMA LateFinite ==
  ASSUME NEW h \in Seq(Nat), NEW t \in Int
  PROVE  /\ IsFiniteSet(Late(h, t)) /\ Cardinality(Late(h, t)) \in Nat
         /\ Cardinality(Late(h, t)) <= Len(h)
<1>1. Len(h) \in Nat /\ Late(h, t) \in SUBSET (1 .. Len(h))
  BY DEF Late
<1>2. IsFiniteSet(1 .. Len(h)) /\ Cardinality(1 .. Len(h)) = Len(h)
  <2>1. PICK n : n = Len(h)
    OBVIOUS
  <2>2. n \in Nat /\ n \in Int /\ 1 \in Int
    BY <1>1, <2>1
  <2>3. /\ IsFiniteSet(1 .. n)
        /\ Cardinality(1 .. n) = IF 1 > n THEN 0 ELSE n - 1 + 1
    BY <2>2, FS_Interval
  <2>4. Cardinality(1 .. n) = n
    BY <2>2, <2>3
  <2>5. QED
    BY <2>1, <2>3, <2>4
<1>3. IsFiniteSet(Late(h, t)) /\ Cardinality(Late(h, t)) <= Cardinality(1 .. Len(h))
  BY <1>1, <1>2, FS_Subset
<1>4. QED
  BY <1>2, <1>3, FS_CardinalityType

(* One more hit counts for every earlier time, and for those for which a   *)
(* hit counts already.                                                     *)
LEMMA LateAppend ==
  ASSUME NEW h \in Seq(Nat), NEW x \in Nat, NEW t \in Int
  PROVE  /\ x > t => Cardinality(Late(Append(h, x), t)) = Cardinality(Late(h, t)) + 1
         /\ Cardinality(Late(h, t)) <= Cardinality(Late(Append(h, x), t))
         /\ Cardinality(Late(Append(h, x), t)) <= Cardinality(Late(h, t)) + 1
         /\ Late(h, t) = {} /\ ~(x > t) => Cardinality(Late(Append(h, x), t)) = 0
<1>1. PICK n \in Nat : n = Len(h) /\ DOMAIN h = 1 .. n
  OBVIOUS
<1>2. PICK a : a = Append(h, x)
  OBVIOUS
<1>3. /\ a \in Seq(Nat) /\ DOMAIN a = 1 .. n + 1
      /\ \A i \in 1 .. n : a[i] = h[i]
      /\ a[n + 1] = x
  BY <1>1, <1>2
<1>4. Late(h, t) \subseteq Late(a, t) /\ n + 1 \notin Late(h, t)
  BY <1>1, <1>3 DEF Late
<1>5. Late(a, t) \subseteq Late(h, t) \cup {n + 1}
  <2>1. ASSUME NEW i \in Late(a, t), i # n + 1 PROVE i \in Late(h, t)
    <3>1. i \in 1 .. n
      BY <1>1, <1>3, <2>1 DEF Late
    <3>2. PICK j \in 1 .. i : a[j] > t
      BY DEF Late
    <3>3. j \in 1 .. n /\ h[j] > t
      BY <1>1, <1>3, <3>1, <3>2
    <3>4. QED
      BY <1>1, <3>1, <3>3 DEF Late
  <2>2. QED
    BY <2>1
<1>6. x > t => n + 1 \in Late(a, t)
  <2>1. n + 1 \in DOMAIN a /\ n + 1 \in 1 .. n + 1
    BY <1>1, <1>3
  <2>2. QED
    BY <1>3, <2>1 DEF Late
<1>7. Late(h, t) = {} /\ ~(x > t) => n + 1 \notin Late(a, t)
  <2> SUFFICES ASSUME n + 1 \in Late(a, t), ~(x > t) PROVE Late(h, t) # {}
    OBVIOUS
  <2>1. PICK j \in 1 .. n + 1 : a[j] > t
    BY DEF Late
  <2>2. j \in 1 .. n /\ h[j] > t
    BY <1>1, <1>3, <2>1
  <2>3. j \in Late(h, t)
    BY <1>1, <2>2 DEF Late
  <2>4. QED
    BY <2>3
<1>8. /\ IsFiniteSet(Late(h, t)) /\ Cardinality(Late(h, t)) \in Nat
      /\ IsFiniteSet(Late(a, t)) /\ Cardinality(Late(a, t)) \in Nat
  BY <1>3, LateFinite
<1>9. Cardinality(Late(h, t) \cup {n + 1}) = Cardinality(Late(h, t)) + 1
  BY <1>4, <1>8, FS_AddElement
<1>10. Late(a, t) = Late(h, t) \/ Late(a, t) = Late(h, t) \cup {n + 1}
  BY <1>4, <1>5
<1>11. Cardinality({}) = 0
  BY FS_EmptySet
<1>12. x > t => Late(a, t) = Late(h, t) \cup {n + 1}
  BY <1>4, <1>5, <1>6
<1>13. Late(h, t) = {} /\ ~(x > t) => Late(a, t) = {}
  BY <1>5, <1>7
<1>14. /\ Cardinality(Late(a, t)) <= Cardinality(Late(h, t)) + 1
       /\ Cardinality(Late(h, t)) <= Cardinality(Late(a, t))
  <2>1. CASE Late(a, t) = Late(h, t)
    BY <1>8, <2>1
  <2>2. CASE Late(a, t) = Late(h, t) \cup {n + 1}
    BY <1>8, <1>9, <2>2
  <2>3. QED
    BY <1>10, <2>1, <2>2
<1>15. x > t => Cardinality(Late(a, t)) = Cardinality(Late(h, t)) + 1
  BY <1>9, <1>12
<1>16. Late(h, t) = {} /\ ~(x > t) => Cardinality(Late(a, t)) = 0
  BY <1>11, <1>13
<1>17. QED
  BY <1>2, <1>8, <1>14, <1>15, <1>16

(* Without the newest hit there is one less for every time for which a hit *)
(* counts.                                                                 *)
LEMMA LateRefunded ==
  ASSUME NEW h \in Seq(Nat), NEW t \in Int
  PROVE  /\ Late(h, t) = {} => Cardinality(Late(Refunded(h), t)) = 0
         /\ Late(h, t) # {} =>
               Cardinality(Late(Refunded(h), t)) = Cardinality(Late(h, t)) - 1
<1>1. PICK g : g = Refunded(h)
  OBVIOUS
<1>2. Cardinality({}) = 0
  BY FS_EmptySet
<1>3. CASE h = <<>>
  <2>1. g = <<>>
    BY <1>1, <1>3 DEF Refunded
  <2>2. Late(g, t) = {} /\ Late(h, t) = {}
    BY <1>3, <2>1 DEF Late
  <2>3. QED
    BY <1>1, <1>2, <2>2
<1>4. CASE h # <<>>
  <2>1. PICK n \in Nat : n = Len(h) /\ n > 0 /\ DOMAIN h = 1 .. n
    BY <1>4
  <2>2. /\ DOMAIN g = 1 .. n - 1
        /\ \A i \in 1 .. n - 1 : g[i] = h[i]
    BY <1>1, <1>4, <2>1 DEF Refunded, Front
  <2>3. ASSUME NEW i \in 1 .. n - 1 PROVE i \in Late(g, t) <=> i \in Late(h, t)
    <3>1. \A j \in 1 .. i : j \in 1 .. n - 1 /\ g[j] = h[j]
      BY <2>1, <2>2
    <3>2. i \in DOMAIN g /\ i \in DOMAIN h
      BY <2>1, <2>2
    <3>3. QED
      BY <3>1, <3>2 DEF Late
  <2>4. Late(g, t) = Late(h, t) \ {n}
    <3>1. \A i \in DOMAIN h : i = n \/ i \in 1 .. n - 1
      BY <2>1
    <3>2. n \notin 1 .. n - 1
      BY <2>1
    <3>3. Late(g, t) \subseteq 1 .. n - 1 /\ Late(h, t) \subseteq DOMAIN h
      BY <2>2 DEF Late
    <3>4. QED
      BY <2>3, <3>1, <3>2, <3>3
  <2>5. Late(h, t) # {} => n \in Late(h, t)
    <3> SUFFICES ASSUME NEW i \in Late(h, t) PROVE n \in Late(h, t)
      OBVIOUS
    <3>1. PICK j \in 1 .. i : h[j] > t
      BY DEF Late
    <3>2. i \in 1 .. n
      BY <2>1 DEF Late
    <3>3. j \in 1 .. n /\ n \in DOMAIN h
      BY <2>1, <3>2
    <3>4. QED
      BY <3>1, <3>3 DEF Late
  <2>6. IsFiniteSet(Late(h, t)) /\ Cardinality(Late(h, t)) \in Nat
    BY LateFinite
  <2>7. n \in Late(h, t) => Cardinality(Late(h, t) \ {n}) = Cardinality(Late(h, t)) - 1
    BY <2>6, FS_RemoveElement
  <2>8. Late(h, t) = {} => Late(g, t) = {}
    BY <2>4
  <2>9. QED
    BY <1>1, <1>2, <2>4, <2>5, <2>7, <2>8
<1>5. QED
  BY <1>3, <1>4

(* A list without its oldest hits: what is after the cut stays.            *)
LEMMA LatePruned ==
  ASSUME NEW h \in Seq(Nat), NEW a \in Nat, Span \in Nat
  PROVE  /\ Pruned(h, a) \in Seq(Nat) /\ Len(Pruned(h, a)) <= Len(h)
         /\ \A i \in DOMAIN Pruned(h, a) : \E j \in DOMAIN h : Pruned(h, a)[i] = h[j]
         /\ \A t \in Int : /\ Cardinality(Late(Pruned(h, a), t)) <= Cardinality(Late(h, t))
                           /\ t >= a - Span =>
                                Cardinality(Late(Pruned(h, a), t)) = Cardinality(Late(h, t))
         /\ Len(Pruned(h, a)) = Cardinality(Late(h, a - Span))
<1>0. /\ Len(h) \in Nat /\ DOMAIN h = 1 .. Len(h) /\ a - Span \in Int
      /\ \A i \in DOMAIN h : h[i] \in Nat
  OBVIOUS
<1>1. PICK y : y = {i \in DOMAIN h : h[i] > a - Span}
  OBVIOUS
<1>2. y \in SUBSET (1 .. Len(h))
  BY <1>0, <1>1
<1>3. CASE y = {}
  <2>1. Pruned(h, a) = <<>>
    BY <1>1, <1>3 DEF Pruned
  <2>2. \A t \in Int : Late(<<>>, t) = {}
    BY DEF Late
  <2>3. Cardinality({}) = 0
    BY FS_EmptySet
  <2>4. ASSUME NEW t \in Int, t >= a - Span PROVE Late(h, t) = {}
    <3>1. ASSUME NEW i \in Late(h, t) PROVE FALSE
      <4>1. i \in 1 .. Len(h)
        BY <1>0 DEF Late
      <4>2. PICK j \in 1 .. i : h[j] > t
        BY DEF Late
      <4>3. j \in DOMAIN h
        BY <1>0, <4>1
      <4>4. h[j] > a - Span
        BY <1>0, <2>4, <4>2, <4>3
      <4>5. QED
        BY <1>1, <1>3, <4>3, <4>4
    <3>2. QED
      BY <3>1
  <2>5. \A t \in Int : Cardinality(Late(h, t)) \in Nat
    BY LateFinite
  <2>6. Cardinality(Late(h, a - Span)) = 0
    <3>1. PICK t \in Int : t = a - Span
      BY <1>0
    <3>2. t >= a - Span
      BY <3>1
    <3>3. Late(h, t) = {}
      BY <2>4, <3>2
    <3>4. QED
      BY <2>3, <3>1, <3>3
  <2>7. /\ <<>> \in Seq(Nat) /\ Len(<<>>) = 0 /\ DOMAIN <<>> = {}
    OBVIOUS
  <2>8. \A t \in Int : Cardinality(Late(Pruned(h, a), t)) = 0
    BY <2>1, <2>2, <2>3
  <2>9. \A t \in Int : t >= a - Span => Cardinality(Late(h, t)) = 0
    BY <2>3, <2>4
  <2>10. \A t \in Int : Cardinality(Late(Pruned(h, a), t)) <= Cardinality(Late(h, t))
    BY <2>5, <2>8
  <2>11. QED
    BY <1>0, <2>1, <2>6, <2>7, <2>8, <2>9, <2>10
<1>4. CASE y # {}
  <2>1. PICK k : k = Min(y)
    OBVIOUS
  <2>2. k \in y /\ \A i \in y : k <= i
    BY <1>0, <1>2, <1>4, <2>1, SmallestIs
  <2>3. PICK n : n = Len(h)
    OBVIOUS
  <2>4. /\ n \in Nat /\ k \in 1 .. n /\ DOMAIN h = 1 .. n /\ h[k] > a - Span
        /\ \A i \in 1 .. n : h[i] > a - Span => k <= i
    BY <1>0, <1>1, <1>2, <2>2, <2>3
  <2>5. PICK g : g = Pruned(h, a)
    OBVIOUS
  <2>6. g = SubSeq(h, k, n)
    BY <1>1, <1>4, <2>1, <2>3, <2>5 DEF Pruned
  <2>7. /\ g \in Seq(Nat) /\ Len(g) = n - k + 1 /\ DOMAIN g = 1 .. n - k + 1
        /\ \A i \in 1 .. n - k + 1 : g[i] = h[i + k - 1]
    <3>1. k \in Nat /\ k \in Int /\ n \in Int /\ k <= n /\ n - k + 1 \in Nat
      BY <2>4
    <3>2. \A i \in k .. n : h[i] \in Nat
      BY <1>0, <2>3, <2>4
    <3>3. /\ g \in Seq(Nat) /\ Len(g) = IF k <= n THEN n - k + 1 ELSE 0
          /\ \A i \in 1 .. n - k + 1 : g[i] = h[k + i - 1]
      BY <2>6, <3>1, <3>2, SubSeqProperties
    <3>4. Len(g) = n - k + 1 /\ DOMAIN g = 1 .. n - k + 1
      BY <3>1, <3>3
    <3>5. ASSUME NEW i \in 1 .. n - k + 1 PROVE g[i] = h[i + k - 1]
      <4>1. k + i - 1 = i + k - 1
        BY <3>1
      <4>2. QED
        BY <3>3, <4>1
    <3>6. QED
      BY <3>3, <3>4, <3>5
  <2>8. \A i \in 1 .. n - k + 1 : i + k - 1 \in 1 .. n /\ k <= i + k - 1
    BY <2>4
  <2>9. ASSUME NEW t \in Int
        PROVE  /\ Cardinality(Late(g, t)) <= Cardinality(Late(h, t))
               /\ t >= a - Span => Cardinality(Late(g, t)) = Cardinality(Late(h, t))
    <3>1. PICK A : A = Late(g, t)
      OBVIOUS
    <3>2. PICK B : B = Late(h, t)
      OBVIOUS
    <3>3. PICK f : f = [i \in A |-> i + k - 1]
      OBVIOUS
    <3>4. ASSUME NEW i \in A PROVE i \in 1 .. n - k + 1 /\ i + k - 1 \in B
      <4>1. i \in 1 .. n - k + 1
        BY <2>7, <3>1 DEF Late
      <4>2. PICK j \in 1 .. i : g[j] > t
        BY <3>1 DEF Late
      <4>3. j \in 1 .. n - k + 1 /\ j + k - 1 \in 1 .. i + k - 1
        BY <2>4, <4>1
      <4>4. h[j + k - 1] > t
        BY <2>7, <4>2, <4>3
      <4>5. i + k - 1 \in DOMAIN h
        BY <2>4, <2>8, <4>1
      <4>6. QED
        BY <3>2, <4>1, <4>3, <4>4, <4>5 DEF Late
    <3>5. f \in [A -> B]
      BY <3>3, <3>4
    <3>6. \A i, j \in A : f[i] = f[j] => i = j
      BY <2>4, <3>3, <3>4
    <3>7. f \in Injection(A, B)
      BY <3>5, <3>6 DEF Injection, IsInjective
    <3>8. ASSUME t >= a - Span, NEW m \in B PROVE m - k + 1 \in A /\ f[m - k + 1] = m
      <4>1. m \in 1 .. n
        BY <2>4, <3>2 DEF Late
      <4>2. PICK j \in 1 .. m : h[j] > t
        BY <3>2 DEF Late
      <4>3. j \in 1 .. n /\ k <= j
        <5>1. j \in 1 .. n
          BY <2>4, <4>1
        <5>2. h[j] \in Nat
          BY <1>0, <2>4, <5>1
        <5>3. h[j] > a - Span
          BY <1>0, <3>8, <4>2, <5>2
        <5>4. QED
          BY <2>4, <5>1, <5>3
      <4>4. /\ m - k + 1 \in 1 .. n - k + 1 /\ (m - k + 1) + k - 1 = m
            /\ j - k + 1 \in 1 .. m - k + 1 /\ (j - k + 1) + k - 1 = j
            /\ j - k + 1 \in 1 .. n - k + 1
        BY <2>4, <4>1, <4>3
      <4>5. g[j - k + 1] = h[j]
        BY <2>7, <4>4
      <4>6. m - k + 1 \in A
        BY <2>7, <3>1, <4>2, <4>4, <4>5 DEF Late
      <4>7. QED
        BY <3>3, <4>4, <4>6
    <3>9. IsFiniteSet(B) /\ Cardinality(B) \in Nat
      BY <3>2, LateFinite
    <3>10. /\ Cardinality(A) <= Cardinality(B)
           /\ Cardinality(A) = Cardinality(B) <=> f \in Surjection(A, B)
      BY <3>7, <3>9, FS_Injection
    <3>11. t >= a - Span => f \in Surjection(A, B)
      BY <3>5, <3>8 DEF Surjection
    <3>12. QED
      BY <3>1, <3>2, <3>10, <3>11
  <2>10. Len(g) = Cardinality(Late(h, a - Span))
    <3>1. ASSUME NEW i \in 1 .. n - k + 1 PROVE i \in Late(g, a - Span)
      <4>1. 1 \in 1 .. i /\ 1 \in 1 .. n - k + 1 /\ 1 + k - 1 = k
        BY <2>4
      <4>2. g[1] > a - Span
        BY <2>4, <2>7, <4>1
      <4>3. QED
        BY <2>7, <4>1, <4>2 DEF Late
    <3>2. Late(g, a - Span) = 1 .. n - k + 1
      BY <2>7, <3>1 DEF Late
    <3>3. Cardinality(1 .. n - k + 1) = n - k + 1
      BY <2>4, FS_Interval
    <3>4. QED
      BY <1>0, <2>7, <2>9, <3>2, <3>3
  <2>11. ASSUME NEW i \in DOMAIN g PROVE \E j \in DOMAIN h : g[i] = h[j]
    <3>1. i + k - 1 \in DOMAIN h /\ g[i] = h[i + k - 1]
      BY <2>4, <2>7, <2>8
    <3>2. QED
      BY <3>1
  <2>12. Len(g) <= Len(h)
    BY <2>3, <2>4, <2>7
  <2>13. QED
    BY <2>5, <2>7, <2>9, <2>10, <2>11, <2>12
<1>5. QED
  BY <1>3, <1>4

-----------------------------------------------------------------------------
(* Any set of requests that are under way or ended can be counted. *)
LEMMA AllCounted ==
  ASSUME Finite, NEW S, \A c \in S : c \in Call /\ pc[c] # "idle"
  PROVE  IsFiniteSet(S) /\ Cardinality(S) \in Nat
<1>1. IsFiniteSet({c \in Call : pc[c] # "idle"}) /\ S \in SUBSET {c \in Call : pc[c] # "idle"}
  BY DEF Finite
<1>2. IsFiniteSet(S)
  BY <1>1, FS_Subset
<1>3. QED
  BY <1>2, FS_CardinalityType

(* The counts the invariant compares are numbers. *)
LEMMA Countable ==
  ASSUME Finite, NEW k
  PROVE  \A t : /\ IsFiniteSet(Owned(k, t)) /\ Cardinality(Owned(k, t)) \in Nat
                /\ IsFiniteSet(OwnedIn(k, t)) /\ Cardinality(OwnedIn(k, t)) \in Nat
<1>1. ASSUME NEW t
      PROVE  /\ \A c \in Owned(k, t) : c \in Call /\ pc[c] # "idle"
             /\ \A c \in OwnedIn(k, t) : c \in Call /\ pc[c] # "idle"
  BY DEF Owned, OwnedIn, Owners
<1>2. ASSUME NEW t PROVE IsFiniteSet(Owned(k, t)) /\ Cardinality(Owned(k, t)) \in Nat
  BY <1>1, AllCounted
<1>3. ASSUME NEW t PROVE IsFiniteSet(OwnedIn(k, t)) /\ Cardinality(OwnedIn(k, t)) \in Nat
  BY <1>1, AllCounted
<1>4. QED
  BY <1>2, <1>3

(* The same of the next state. *)
LEMMA CountableNext ==
  ASSUME Finite', NEW k
  PROVE  \A t : /\ IsFiniteSet(Owned(k, t)') /\ Cardinality(Owned(k, t)') \in Nat
                /\ IsFiniteSet(OwnedIn(k, t)') /\ Cardinality(OwnedIn(k, t)') \in Nat
<1>1. IsFiniteSet({c \in Call : pc'[c] # "idle"})
  BY DEF Finite
<1>2. ASSUME NEW t
      PROVE  /\ IsFiniteSet(Owned(k, t)') /\ Cardinality(Owned(k, t)') \in Nat
             /\ IsFiniteSet(OwnedIn(k, t)') /\ Cardinality(OwnedIn(k, t)') \in Nat
  <2>1. Owned(k, t)' \in SUBSET {c \in Call : pc'[c] # "idle"}
    BY DEF Owned, Owners
  <2>2. OwnedIn(k, t)' \in SUBSET {c \in Call : pc'[c] # "idle"}
    BY DEF OwnedIn, Owners
  <2>3. IsFiniteSet(Owned(k, t)') /\ IsFiniteSet(OwnedIn(k, t)')
    BY <1>1, <2>1, <2>2, FS_Subset
  <2>4. QED
    BY <2>3, FS_CardinalityType
<1>3. QED
  BY <1>2

(* A step of one request leaves finitely many. *)
LEMMA FiniteStays ==
  ASSUME Finite, NEW c \in Call, \A d \in Call : d # c => pc'[d] = pc[d]
  PROVE  Finite'
<1>1. IsFiniteSet({d \in Call : pc[d] # "idle"} \cup {c})
  BY FS_AddElement DEF Finite
<1>2. {d \in Call : pc'[d] # "idle"} \in SUBSET ({d \in Call : pc[d] # "idle"} \cup {c})
  OBVIOUS
<1>3. IsFiniteSet({d \in Call : pc'[d] # "idle"})
  BY <1>1, <1>2, FS_Subset
<1>4. QED
  BY <1>3 DEF Finite

(* Who has been at the limiter stays so, with the time it had there.       *)
ServedStays ==
    \A k \in Key : /\ Served(k) \subseteq Served(k)'
                   /\ \A d \in Served(k) : at'[d] = at[d]

LEMMA ServedStay ==
  ASSUME NEW c \in Call,
         \A d \in Call : d # c => pc'[d] = pc[d] /\ req'[d] = req[d] /\ at'[d] = at[d],
         pc[c] \in Done => req'[c] = req[c] /\ at'[c] = at[c] /\ pc'[c] \in Done
  PROVE  ServedStays
BY DEF ServedStays, Served, Done

(* A step that gives and takes no slot leaves the counts. *)
LEMMA QuietStep ==
  ASSUME GateInv, Finite', UNCHANGED <<now, hits, seen>>, ServedStays,
         \A k \in Key : Owners(k)' = Owners(k) /\ \A d \in Owners(k) : at'[d] = at[d]
  PROVE  Kept' /\ NoneLeft' /\ Covered' /\ Windows'
<1>1. ASSUME NEW k \in Key, NEW t
      PROVE  Owned(k, t)' = Owned(k, t) /\ OwnedIn(k, t)' = OwnedIn(k, t)
  BY DEF Owned, OwnedIn
<1>2. ASSUME NEW k \in Key, NEW t
      PROVE  /\ Late(hits[k], t)' = Late(hits[k], t)
             /\ Recent(k, t)' => Recent(k, t)
  BY DEF Late, Recent, ServedStays
<1>3. overtaken' = overtaken /\ behind' = behind /\ hits' = hits /\ now' = now
  BY DEF seen
<1>4. Kept'
  <2> SUFFICES ASSUME NEW k \in Key
               PROVE  /\ Len(hits[k]) <= Limit
                      /\ \A i \in DOMAIN hits[k] : \E d \in Served(k)' : at'[d] = hits[k][i]
    BY <1>3 DEF Kept
  <2>1. /\ Len(hits[k]) <= Limit
        /\ \A i \in DOMAIN hits[k] : \E d \in Served(k) : at[d] = hits[k][i]
    BY DEF GateInv, Kept
  <2>2. Served(k) \subseteq Served(k)' /\ \A d \in Served(k) : at'[d] = at[d]
    BY DEF ServedStays
  <2>3. QED
    BY <2>1, <2>2
<1>5. NoneLeft'
  BY <1>1, <1>2, <1>3 DEF GateInv, NoneLeft
<1>6. Covered'
  BY <1>1, <1>2, <1>3 DEF GateInv, Covered
<1>7. Windows'
  BY <1>1, <1>3 DEF GateInv, Windows
<1>8. QED
  BY <1>4, <1>5, <1>6, <1>7

(* A window that ends when nobody was later at the limiter is covered. *)
LEMMA WindowNow ==
  ASSUME GateTyped, Finite, Kept, Covered, NEW k \in Key, NEW t \in Nat, t >= now
  PROVE  /\ OwnedIn(k, t) = Owned(k, t - Span)
         /\ Cardinality(OwnedIn(k, t)) <= Limit + overtaken[k]
<1>1. now \in Nat /\ Span \in Nat /\ Limit \in Nat /\ \A c \in Call : at[c] \in Nat /\ at[c] <= now
  BY TradeGateAssumption DEF GateTyped
<1>2. OwnedIn(k, t) = Owned(k, t - Span)
  BY <1>1 DEF OwnedIn, Owned, Owners
<1>3. t - Span \in Int /\ Recent(k, t - Span)
  BY <1>1 DEF Recent, Served
<1>4. Cardinality(Owned(k, t - Span)) <= Cardinality(Late(hits[k], t - Span)) + overtaken[k]
  BY <1>3 DEF Covered
<1>5. /\ Cardinality(Late(hits[k], t - Span)) \in Nat
      /\ Cardinality(Late(hits[k], t - Span)) <= Len(hits[k])
      /\ Len(hits[k]) \in Nat /\ overtaken[k] \in Nat
  BY <1>3, LateFinite DEF GateTyped
<1>6. Len(hits[k]) <= Limit
  BY DEF Kept
<1>7. Cardinality(Owned(k, t - Span)) \in Nat
  BY Countable
<1>8. QED
  BY <1>1, <1>2, <1>4, <1>5, <1>6, <1>7

-----------------------------------------------------------------------------
(* The steps, one by one. *)

LEMMA EnterKeeps ==
  ASSUME GateInv, NEW c \in Call, Enter(c)
  PROVE  GateInv'
<1>1. PICK k \in Key, i \in Id : req' = [req EXCEPT ![c] = [key |-> k, id |-> i]]
  BY DEF Enter
<1>2. /\ pc[c] = "idle" /\ pc' = [pc EXCEPT ![c] = IF open THEN "entered" ELSE "refused"]
      /\ UNCHANGED <<now, open, hits, made, fresh, at, seen>>
  BY DEF Enter, To
<1>3. GateTyped /\ Finite /\ Traded
  BY DEF GateInv
<1>4. pc'[c] \in {"entered", "refused"} /\ \A d \in Call : d # c => pc'[d] = pc[d] /\ req'[d] = req[d]
  BY <1>1, <1>2, <1>3 DEF GateTyped
<1>5. GateTyped'
  BY <1>1, <1>2, <1>3, <1>4 DEF GateTyped, seen
<1>6. Finite'
  BY <1>3, <1>4, FiniteStays
<1>7. Traded'
  BY <1>2, <1>3, <1>4 DEF Traded, Name
<1>8. \A m \in Key : Owners(m)' = Owners(m)
  BY <1>2, <1>4 DEF Owners
<1>9. ServedStays
  BY <1>2, <1>4, ServedStay DEF Done
<1>10. Kept' /\ NoneLeft' /\ Covered' /\ Windows'
  BY <1>2, <1>6, <1>8, <1>9, QuietStep
<1>11. QED
  BY <1>5, <1>6, <1>7, <1>10 DEF GateInv

LEMMA LookKeeps ==
  ASSUME GateInv, NEW c \in Call, Look(c)
  PROVE  GateInv'
<1>1. /\ pc[c] = "entered"
      /\ fresh' = [fresh EXCEPT ![c] = Name(c) \notin DOMAIN made]
      /\ pc' = [pc EXCEPT ![c] = IF Name(c) \in DOMAIN made THEN "allowed" ELSE "new"]
      /\ UNCHANGED <<now, open, hits, made, req, at, seen>>
  BY DEF Look, To
<1>2. GateTyped /\ Finite /\ Traded
  BY DEF GateInv
<1>3. /\ \A d \in Call : d # c => pc'[d] = pc[d] /\ fresh'[d] = fresh[d]
      /\ \/ pc'[c] = "allowed" /\ fresh'[c] = FALSE /\ Name(c) \in DOMAIN made
         \/ pc'[c] = "new" /\ fresh'[c] = TRUE /\ Name(c) \notin DOMAIN made
  BY <1>1, <1>2 DEF GateTyped
<1>4. GateTyped'
  BY <1>1, <1>2, <1>3 DEF GateTyped, seen
<1>5. Finite'
  BY <1>2, <1>3, FiniteStays
<1>6. Traded'
  BY <1>1, <1>2, <1>3 DEF Traded, Name
<1>7. \A m \in Key : Owners(m)' = Owners(m)
  BY <1>1, <1>3 DEF Owners
<1>8. ServedStays
  BY <1>1, <1>3, ServedStay DEF Done
<1>9. Kept' /\ NoneLeft' /\ Covered' /\ Windows'
  BY <1>1, <1>5, <1>7, <1>8, QuietStep
<1>10. QED
  BY <1>4, <1>5, <1>6, <1>9 DEF GateInv

LEMMA ReadTimeKeeps ==
  ASSUME GateInv, NEW c \in Call, ReadTime(c)
  PROVE  GateInv'
<1>1. /\ pc[c] = "new" /\ at' = [at EXCEPT ![c] = now] /\ pc' = [pc EXCEPT ![c] = "timed"]
      /\ UNCHANGED <<now, open, hits, made, req, fresh, seen>>
  BY DEF ReadTime, To
<1>2. GateTyped /\ Finite /\ Traded
  BY DEF GateInv
<1>3. /\ pc'[c] = "timed" /\ at'[c] = now
      /\ \A d \in Call : d # c => pc'[d] = pc[d] /\ at'[d] = at[d]
  BY <1>1, <1>2 DEF GateTyped
<1>4. GateTyped'
  <2>1. at' \in [Call -> Nat] /\ \A d \in Call : at'[d] <= now
    BY <1>1, <1>2, <1>3 DEF GateTyped
  <2>2. QED
    BY <1>1, <1>2, <1>3, <2>1 DEF GateTyped, seen
<1>5. Finite'
  BY <1>2, <1>3, FiniteStays
<1>6. Traded'
  BY <1>1, <1>2, <1>3 DEF Traded, Name
<1>7. \A m \in Key : Owners(m)' = Owners(m) /\ \A d \in Owners(m) : at'[d] = at[d]
  BY <1>1, <1>3 DEF Owners
<1>8. ServedStays
  BY <1>1, <1>3, ServedStay DEF Done
<1>9. Kept' /\ NoneLeft' /\ Covered' /\ Windows'
  BY <1>1, <1>5, <1>7, <1>8, QuietStep
<1>10. QED
  BY <1>4, <1>5, <1>6, <1>9 DEF GateInv

LEMMA ExecuteKeeps ==
  ASSUME GateInv, NEW c \in Call, Execute(c)
  PROVE  GateInv'
<1>1. /\ pc[c] = "allowed" /\ Name(c) \notin DOMAIN made
      /\ made' = [n \in DOMAIN made \cup {Name(c)} |-> IF n = Name(c) THEN c ELSE made[n]]
      /\ pc' = [pc EXCEPT ![c] = "traded"]
      /\ UNCHANGED <<now, open, hits, req, fresh, at, seen>>
  BY DEF Execute, To
<1>2. GateTyped /\ Finite /\ Traded
  BY DEF GateInv
<1>3. pc'[c] = "traded" /\ \A d \in Call : d # c => pc'[d] = pc[d]
  BY <1>1, <1>2 DEF GateTyped
<1>4. GateTyped'
  BY <1>1, <1>2, <1>3 DEF GateTyped, seen
<1>5. Finite'
  BY <1>2, <1>3, FiniteStays
<1>6. fresh[c]
  BY <1>1, <1>2 DEF Traded, GateTyped
<1>7. \A d : Name(d)' = Name(d)
  BY <1>1 DEF Name
<1>8. Traded'
  <2>1. ASSUME NEW n \in DOMAIN made', NEW d, d = made'[n]
        PROVE  d \in Call /\ pc'[d] = "traded" /\ fresh'[d] /\ Name(d)' = n
    <3>1. CASE n = Name(c)
      <4>1. d = c
        BY <1>1, <2>1, <3>1
      <4>2. QED
        BY <1>1, <1>3, <1>6, <1>7, <3>1, <4>1
    <3>2. CASE n # Name(c)
      <4>1. n \in DOMAIN made /\ d = made[n]
        BY <1>1, <2>1, <3>2
      <4>2. d \in Call /\ pc[d] = "traded" /\ fresh[d] /\ Name(d) = n
        BY <1>2, <4>1 DEF Traded
      <4>3. d # c
        BY <1>1, <4>2
      <4>4. QED
        BY <1>1, <1>3, <1>7, <4>2, <4>3
    <3>3. QED
      BY <3>1, <3>2
  <2>2. ASSUME NEW d \in Call, pc'[d] = "traded"
        PROVE  Name(d)' \in DOMAIN made' /\ made'[Name(d)'] = d
    <3>1. CASE d = c
      BY <1>1, <1>7, <3>1
    <3>2. CASE d # c
      <4>1. Name(d) \in DOMAIN made /\ made[Name(d)] = d
        BY <1>2, <1>3, <2>2, <3>2 DEF Traded
      <4>2. Name(d) # Name(c)
        BY <1>1, <4>1
      <4>3. QED
        BY <1>1, <1>7, <4>1, <4>2
    <3>3. QED
      BY <3>1, <3>2
  <2>3. ASSUME NEW d \in Call
        PROVE  /\ pc'[d] = "allowed" /\ ~fresh'[d] => Name(d)' \in DOMAIN made'
               /\ pc'[d] \in {"new", "timed", "refunding"} => fresh'[d]
    BY <1>1, <1>2, <1>3, <1>7 DEF Traded
  <2>4. QED
    BY <2>1, <2>2, <2>3 DEF Traded, Name
<1>9. \A m \in Key : Owners(m)' = Owners(m)
  BY <1>1, <1>3 DEF Owners
<1>10. ServedStays
  BY <1>1, <1>3, ServedStay DEF Done
<1>11. Kept' /\ NoneLeft' /\ Covered' /\ Windows'
  BY <1>1, <1>5, <1>9, <1>10, QuietStep
<1>12. QED
  BY <1>4, <1>5, <1>8, <1>11 DEF GateInv

LEMMA NoTradeKeeps ==
  ASSUME GateInv, NEW c \in Call, NoTrade(c)
  PROVE  GateInv'
<1>1. /\ pc[c] = "allowed"
      /\ pc' = [pc EXCEPT ![c] = IF fresh[c] THEN "refunding" ELSE "ended"]
      /\ UNCHANGED <<now, open, hits, made, req, fresh, at, seen>>
  BY DEF NoTrade, To
<1>2. GateTyped /\ Finite /\ Traded
  BY DEF GateInv
<1>3. /\ \A d \in Call : d # c => pc'[d] = pc[d]
      /\ \/ pc'[c] = "refunding" /\ fresh[c] = TRUE
         \/ pc'[c] = "ended" /\ fresh[c] = FALSE
  BY <1>1, <1>2 DEF GateTyped
<1>4. GateTyped'
  BY <1>1, <1>2, <1>3 DEF GateTyped, seen
<1>5. Finite'
  BY <1>2, <1>3, FiniteStays
<1>6. Traded'
  BY <1>1, <1>2, <1>3 DEF Traded, Name
<1>7. \A m \in Key : Owners(m)' = Owners(m)
  BY <1>1, <1>3 DEF Owners
<1>8. ServedStays
  BY <1>1, <1>3, ServedStay DEF Done
<1>9. Kept' /\ NoneLeft' /\ Covered' /\ Windows'
  BY <1>1, <1>5, <1>7, <1>8, QuietStep
<1>10. QED
  BY <1>4, <1>5, <1>6, <1>9 DEF GateInv

(* Time goes on: a new window ends now, and it is covered. *)
LEMMA PassKeeps ==
  ASSUME GateInv, Pass
  PROVE  GateInv'
<1>1. now' = now + 1 /\ UNCHANGED <<open, hits, made, pc, req, fresh, at, seen>>
  BY DEF Pass
<1>2. GateTyped /\ Finite /\ Traded /\ Kept /\ NoneLeft /\ Covered /\ Windows /\ Span \in Nat
  BY TradeGateAssumption DEF GateInv
<1>3. overtaken' = overtaken /\ behind' = behind
  BY <1>1 DEF seen
<1>4. GateTyped'
  BY <1>1, <1>2, <1>3 DEF GateTyped
<1>5. \A k : /\ Owners(k)' = Owners(k) /\ Served(k)' = Served(k)
             /\ \A t : /\ Owned(k, t)' = Owned(k, t) /\ OwnedIn(k, t)' = OwnedIn(k, t)
                       /\ Late(hits[k], t)' = Late(hits[k], t)
                       /\ Recent(k, t)' = Recent(k, t)
  BY <1>1 DEF Owners, Served, Owned, OwnedIn, Late, Recent
<1>6. Finite' /\ Traded' /\ Kept'
  BY <1>1, <1>2, <1>5 DEF Finite, Traded, Name, Kept
<1>7. NoneLeft'
  BY <1>2, <1>3, <1>5 DEF NoneLeft
<1>8. Covered'
  BY <1>2, <1>3, <1>5 DEF Covered
<1>9. Windows'
  <2> SUFFICES ASSUME NEW k \in Key, NEW t \in 0 .. now'
               PROVE  Cardinality(OwnedIn(k, t)) <= Limit + overtaken[k] + behind[k]
    BY <1>3, <1>5 DEF Windows
  <2>1. CASE t = now'
    <3>1. t \in Nat /\ t >= now
      BY <1>1, <1>2, <2>1 DEF GateTyped
    <3>2. Cardinality(OwnedIn(k, t)) <= Limit + overtaken[k]
      BY <1>2, <3>1, WindowNow
    <3>3. /\ Cardinality(OwnedIn(k, t)) \in Nat /\ Limit \in Nat
          /\ overtaken[k] \in Nat /\ behind[k] \in Nat
      BY <1>2, Countable, TradeGateAssumption DEF GateTyped
    <3>4. QED
      BY <3>2, <3>3
  <2>2. CASE t # now'
    <3>1. t \in 0 .. now
      BY <1>1, <1>2, <2>2 DEF GateTyped
    <3>2. QED
      BY <1>2, <3>1 DEF Windows
  <2>3. QED
    BY <2>1, <2>2
<1>10. QED
  BY <1>4, <1>6, <1>7, <1>8, <1>9 DEF GateInv

(* What the limiter keeps of a key's list at a time: the same hits for     *)
(* every time in the window.                                               *)
Trimmed(g, k, a) ==
    /\ g \in Seq(Nat) /\ Len(g) <= Len(hits[k])
    /\ \A i \in DOMAIN g : \E d \in Served(k) : at[d] = g[i]
    /\ \A t \in Int : /\ Cardinality(Late(g, t)) \in Nat /\ Cardinality(Late(hits[k], t)) \in Nat
                      /\ Cardinality(Late(g, t)) <= Cardinality(Late(hits[k], t))
                      /\ t >= a - Span =>
                            Cardinality(Late(g, t)) = Cardinality(Late(hits[k], t))

LEMMA PrunedTrims ==
  ASSUME GateInv, NEW k \in Key, NEW a \in Nat
  PROVE  Trimmed(Pruned(hits[k], a), k, a)
<1>1. PICK g : g = Pruned(hits[k], a)
  OBVIOUS
<1>2. PICK h : h = hits[k]
  OBVIOUS
<1>3. h \in Seq(Nat) /\ Span \in Nat /\ \A i \in DOMAIN h : \E d \in Served(k) : at[d] = h[i]
  BY <1>2, TradeGateAssumption DEF GateInv, GateTyped, Kept
<1>4. /\ g \in Seq(Nat) /\ Len(g) <= Len(h)
      /\ \A i \in DOMAIN g : \E j \in DOMAIN h : g[i] = h[j]
      /\ \A t \in Int : /\ Cardinality(Late(g, t)) <= Cardinality(Late(h, t))
                        /\ t >= a - Span => Cardinality(Late(g, t)) = Cardinality(Late(h, t))
  BY <1>1, <1>2, <1>3, LatePruned
<1>5. \A i \in DOMAIN g : \E d \in Served(k) : at[d] = g[i]
  BY <1>3, <1>4
<1>6. \A t \in Int : Cardinality(Late(g, t)) \in Nat /\ Cardinality(Late(h, t)) \in Nat
  BY <1>3, <1>4, LateFinite
<1>7. QED
  BY <1>1, <1>2, <1>4, <1>5, <1>6 DEF Trimmed

LEMMA LimitedKeeps ==
  ASSUME GateInv, NEW c \in Call, Allow(c), ~Within(Pruned(hits[req[c].key], at[c]))
  PROVE  GateInv'
<1>1. PICK k, a : k = req[c].key /\ a = at[c]
  OBVIOUS
<1>2. PICK g : g = Pruned(hits[k], a)
  OBVIOUS
<1>3. /\ pc[c] = "timed" /\ hits' = [hits EXCEPT ![k] = g]
      /\ pc' = [pc EXCEPT ![c] = "limited"]
      /\ UNCHANGED <<now, open, made, req, fresh, at, overtaken, behind>>
  BY <1>1, <1>2 DEF Allow, To
<1>4. GateTyped /\ Finite /\ Traded /\ Kept /\ NoneLeft /\ Covered /\ Windows
  BY DEF GateInv
<1>5. k \in Key /\ a \in Nat /\ Trimmed(g, k, a)
  <2>1. k \in Key /\ a \in Nat
    BY <1>1, <1>3, <1>4 DEF GateTyped
  <2>2. QED
    BY <1>2, <2>1, PrunedTrims
<1>6. g \in Seq(Nat) /\ Len(g) <= Len(hits[k])
  BY <1>5 DEF Trimmed
<1>7. /\ pc'[c] = "limited" /\ hits'[k] = g
      /\ \A d \in Call : d # c => pc'[d] = pc[d]
      /\ \A m \in Key : m # k => hits'[m] = hits[m]
  BY <1>3, <1>4, <1>5 DEF GateTyped
<1>8. GateTyped'
  <2>1. hits' \in [Key -> Seq(Nat)]
    BY <1>3, <1>4, <1>6 DEF GateTyped
  <2>2. QED
    BY <1>3, <1>4, <2>1 DEF GateTyped
<1>9. Finite'
  BY <1>4, <1>7, FiniteStays
<1>10. Traded'
  BY <1>3, <1>4, <1>7 DEF Traded, Name
<1>11. ServedStays
  BY <1>3, <1>7, ServedStay DEF Done
<1>12. Kept'
  <2> SUFFICES ASSUME NEW m \in Key
               PROVE  /\ Len(hits'[m]) <= Limit
                      /\ \A i \in DOMAIN hits'[m] : \E d \in Served(m)' : at'[d] = hits'[m][i]
    BY DEF Kept
  <2>1. Served(m) \subseteq Served(m)' /\ at' = at
    BY <1>3, <1>11 DEF ServedStays
  <2>2. CASE m = k
    <3>1. Len(hits[k]) \in Nat /\ Len(hits[k]) <= Limit /\ Limit \in Nat
      BY <1>4, <1>5, TradeGateAssumption DEF Kept, GateTyped
    <3>2. \A i \in DOMAIN g : \E d \in Served(k) : at[d] = g[i]
      BY <1>5 DEF Trimmed
    <3>3. Len(g) <= Limit
      BY <1>6, <3>1
    <3>4. QED
      BY <1>7, <2>1, <2>2, <3>2, <3>3
  <2>3. CASE m # k
    BY <1>4, <1>7, <2>1, <2>3 DEF Kept
  <2>4. QED
    BY <2>2, <2>3
<1>13. \A m \in Key : \A t : Owned(m, t)' = Owned(m, t) /\ OwnedIn(m, t)' = OwnedIn(m, t)
  BY <1>3, <1>7 DEF Owned, OwnedIn, Owners
<1>14. ASSUME NEW m \in Key, NEW t \in Int
       PROVE  /\ Cardinality(Late(hits[m], t)') \in Nat /\ Cardinality(Late(hits[m], t)) \in Nat
              /\ Cardinality(Late(hits[m], t)') <= Cardinality(Late(hits[m], t))
              /\ \/ m = k /\ ~(t >= a - Span)
                 \/ Cardinality(Late(hits[m], t)') = Cardinality(Late(hits[m], t))
  <2>1. Late(hits[m], t)' = Late(hits'[m], t)
    BY DEF Late
  <2>2. Cardinality(Late(hits[m], t)) \in Nat
    BY <1>4, LateFinite DEF GateTyped
  <2>3. CASE m = k
    <3>1. Late(hits[m], t)' = Late(g, t)
      BY <1>7, <2>1, <2>3
    <3>2. QED
      BY <1>5, <2>3, <3>1 DEF Trimmed
  <2>4. CASE m # k
    <3>1. Late(hits[m], t)' = Late(hits[m], t)
      BY <1>7, <2>1, <2>4
    <3>2. QED
      BY <2>2, <3>1
  <2>5. QED
    BY <2>3, <2>4
<1>15. NoneLeft'
  <2> SUFFICES ASSUME NEW m \in Key, NEW t \in Int
               PROVE  Cardinality(Late(hits[m], t)') <= Cardinality(Owned(m, t)) + behind[m]
    BY <1>3, <1>13 DEF NoneLeft
  <2>1. /\ Cardinality(Late(hits[m], t)) <= Cardinality(Owned(m, t)) + behind[m]
        /\ Cardinality(Owned(m, t)) \in Nat /\ behind[m] \in Nat
    BY <1>4, Countable DEF NoneLeft, GateTyped
  <2>2. QED
    BY <1>14, <2>1
<1>16. Covered'
  <2> SUFFICES ASSUME NEW m \in Key, NEW t \in Int, Recent(m, t)'
               PROVE  Cardinality(Owned(m, t)) <= Cardinality(Late(hits[m], t)') + overtaken[m]
    BY <1>3, <1>13 DEF Covered
  <2>1. Recent(m, t)
    BY <1>11 DEF Recent, ServedStays
  <2>2. Cardinality(Owned(m, t)) <= Cardinality(Late(hits[m], t)) + overtaken[m]
    BY <1>4, <2>1 DEF Covered
  <2>3. m = k => t >= a - Span
    <3>1. c \in Served(k)'
      BY <1>1, <1>3, <1>7 DEF Served
    <3>2. QED
      BY <1>1, <1>3, <3>1 DEF Recent
  <2>4. Cardinality(Late(hits[m], t)') = Cardinality(Late(hits[m], t))
    BY <1>14, <2>3
  <2>5. QED
    BY <2>2, <2>4
<1>17. Windows'
  BY <1>3, <1>4, <1>13 DEF Windows
<1>18. QED
  BY <1>8, <1>9, <1>10, <1>12, <1>15, <1>16, <1>17 DEF GateInv

LEMMA AllowedKeeps ==
  ASSUME GateInv, NEW c \in Call, Allow(c), Within(Pruned(hits[req[c].key], at[c]))
  PROVE  GateInv'
<1>1. PICK k, a : k = req[c].key /\ a = at[c]
  OBVIOUS
<1>2. PICK g : g = Pruned(hits[k], a)
  OBVIOUS
<1>3. PICK f : f = Append(g, a)
  OBVIOUS
<1>4. /\ pc[c] = "timed" /\ hits' = [hits EXCEPT ![k] = f]
      /\ pc' = [pc EXCEPT ![c] = "allowed"] /\ Len(g) < Limit
      /\ behind' = IF \E d \in Served(k) : at[d] > a THEN [behind EXCEPT ![k] = @ + 1] ELSE behind
      /\ UNCHANGED <<now, open, made, req, fresh, at, overtaken>>
  BY <1>1, <1>2, <1>3 DEF Allow, To, Within
<1>5. /\ GateTyped /\ Finite /\ Traded /\ Kept /\ NoneLeft /\ Covered /\ Windows
      /\ now \in Nat /\ Limit \in Nat /\ Span \in Nat /\ Span > 0
  BY TradeGateAssumption DEF GateInv, GateTyped
<1>6. k \in Key /\ a \in Nat /\ Trimmed(g, k, a)
  <2>1. k \in Key /\ a \in Nat
    BY <1>1, <1>4, <1>5 DEF GateTyped
  <2>2. QED
    BY <1>2, <2>1, PrunedTrims
<1>7. g \in Seq(Nat) /\ \A i \in DOMAIN g : \E d \in Served(k) : at[d] = g[i]
  BY <1>6 DEF Trimmed
<1>8. /\ pc'[c] = "allowed" /\ hits'[k] = f
      /\ \A d \in Call : d # c => pc'[d] = pc[d]
      /\ \A m \in Key : m # k => hits'[m] = hits[m]
  BY <1>4, <1>5, <1>6 DEF GateTyped
<1>9. /\ f \in Seq(Nat) /\ Len(f) = Len(g) + 1 /\ Len(g) \in Nat /\ f[Len(g) + 1] = a
      /\ DOMAIN g = 1 .. Len(g) /\ DOMAIN f = 1 .. Len(g) + 1
      /\ \A i \in 1 .. Len(g) : f[i] = g[i] /\ g[i] \in Nat
  BY <1>3, <1>6, <1>7
<1>10. /\ behind' \in [Key -> Nat] /\ \A m \in Key : behind[m] \in Nat /\ overtaken[m] \in Nat
       /\ \A m \in Key : m # k => behind'[m] = behind[m]
       /\ (\E d \in Served(k) : at[d] > a) => behind'[k] = behind[k] + 1
       /\ behind'[k] >= behind[k]
  BY <1>4, <1>5, <1>6 DEF GateTyped
<1>11. GateTyped'
  <2>1. hits' \in [Key -> Seq(Nat)]
    BY <1>4, <1>5, <1>9 DEF GateTyped
  <2>2. QED
    BY <1>4, <1>5, <1>10, <2>1 DEF GateTyped
<1>12. Finite'
  BY <1>5, <1>8, FiniteStays
<1>13. fresh[c]
  BY <1>4, <1>5 DEF Traded
<1>14. Traded'
  BY <1>4, <1>5, <1>8, <1>13 DEF Traded, Name
<1>15. ServedStays
  BY <1>4, <1>8, ServedStay DEF Done
<1>16. c \in Served(k)' /\ \A d \in Served(k)' : d = c \/ d \in Served(k)
  BY <1>1, <1>4, <1>8 DEF Served
<1>17. Kept'
  <2> SUFFICES ASSUME NEW m \in Key
               PROVE  /\ Len(hits'[m]) <= Limit
                      /\ \A i \in DOMAIN hits'[m] : \E d \in Served(m)' : at'[d] = hits'[m][i]
    BY DEF Kept
  <2>1. Served(m) \subseteq Served(m)' /\ at' = at
    BY <1>4, <1>15 DEF ServedStays
  <2>2. CASE m = k
    <3>1. Len(f) <= Limit
      BY <1>4, <1>5, <1>9
    <3>2. ASSUME NEW i \in DOMAIN f PROVE \E d \in Served(k)' : at'[d] = f[i]
      <4>1. CASE i = Len(g) + 1
        BY <1>1, <1>9, <1>16, <2>1, <4>1
      <4>2. CASE i # Len(g) + 1
        <5>1. i \in DOMAIN g /\ f[i] = g[i]
          BY <1>9, <4>2
        <5>2. PICK d \in Served(k) : at[d] = g[i]
          BY <1>7, <5>1
        <5>3. QED
          BY <2>1, <2>2, <5>1, <5>2
      <4>3. QED
        BY <4>1, <4>2
    <3>3. QED
      BY <1>8, <2>2, <3>1, <3>2
  <2>3. CASE m # k
    BY <1>5, <1>8, <2>1, <2>3 DEF Kept
  <2>4. QED
    BY <2>2, <2>3
<1>18. ASSUME NEW m \in Key, m # k, NEW t
       PROVE  Owned(m, t)' = Owned(m, t) /\ OwnedIn(m, t)' = OwnedIn(m, t)
  BY <1>1, <1>4, <1>8, <1>18 DEF Owned, OwnedIn, Owners
<1>19. \A d : d \in Owners(k)' <=> d \in Owners(k) \/ d = c
  BY <1>1, <1>4, <1>8, <1>13 DEF Owners
<1>20. c \notin Owners(k)
  BY <1>4 DEF Owners
<1>21. ASSUME NEW t \in Int
       PROVE  /\ Cardinality(Owned(k, t)) \in Nat
              /\ a > t => Cardinality(Owned(k, t)') = Cardinality(Owned(k, t)) + 1
              /\ ~(a > t) => Cardinality(Owned(k, t)') = Cardinality(Owned(k, t))
  <2>1. \A d : d \in Owned(k, t)' <=> d \in Owned(k, t) \/ (d = c /\ a > t)
    BY <1>1, <1>4, <1>19 DEF Owned
  <2>2. c \notin Owned(k, t) /\ IsFiniteSet(Owned(k, t)) /\ Cardinality(Owned(k, t)) \in Nat
    BY <1>5, <1>20, Countable DEF Owned
  <2>3. Cardinality(Owned(k, t) \cup {c}) = Cardinality(Owned(k, t)) + 1
    BY <2>2, FS_AddElement
  <2>4. a > t => Owned(k, t)' = Owned(k, t) \cup {c}
    BY <2>1
  <2>5. ~(a > t) => Owned(k, t)' = Owned(k, t)
    BY <2>1
  <2>6. QED
    BY <2>2, <2>3, <2>4, <2>5
<1>22. ASSUME NEW t \in Int
       PROVE  /\ Cardinality(OwnedIn(k, t)) \in Nat
              /\ Cardinality(OwnedIn(k, t)') <= Cardinality(OwnedIn(k, t)) + 1
              /\ a > t => Cardinality(OwnedIn(k, t)') = Cardinality(OwnedIn(k, t))
  <2>1. \A d : d \in OwnedIn(k, t)' <=> d \in OwnedIn(k, t) \/ (d = c /\ a \in t - Span + 1 .. t)
    BY <1>1, <1>4, <1>19 DEF OwnedIn
  <2>2. c \notin OwnedIn(k, t) /\ IsFiniteSet(OwnedIn(k, t)) /\ Cardinality(OwnedIn(k, t)) \in Nat
    BY <1>5, <1>20, Countable DEF OwnedIn
  <2>3. Cardinality(OwnedIn(k, t) \cup {c}) = Cardinality(OwnedIn(k, t)) + 1
    BY <2>2, FS_AddElement
  <2>4. OwnedIn(k, t)' = OwnedIn(k, t) \cup {c} \/ OwnedIn(k, t)' = OwnedIn(k, t)
    BY <2>1
  <2>5. a > t => a \notin t - Span + 1 .. t
    BY <1>6
  <2>6. a > t => OwnedIn(k, t)' = OwnedIn(k, t)
    BY <2>1, <2>5
  <2>7. QED
    BY <2>2, <2>3, <2>4, <2>6
<1>23. ASSUME NEW t \in Int
       PROVE  /\ Late(hits[k], t)' = Late(f, t)
              /\ Cardinality(Late(g, t)) \in Nat /\ Cardinality(Late(f, t)) \in Nat
              /\ Cardinality(Late(hits[k], t)) \in Nat
              /\ Cardinality(Late(g, t)) <= Cardinality(Late(hits[k], t))
              /\ t >= a - Span => Cardinality(Late(g, t)) = Cardinality(Late(hits[k], t))
              /\ a > t => Cardinality(Late(f, t)) = Cardinality(Late(g, t)) + 1
              /\ Cardinality(Late(g, t)) <= Cardinality(Late(f, t))
              /\ Cardinality(Late(f, t)) <= Cardinality(Late(g, t)) + 1
              /\ Late(g, t) = {} /\ ~(a > t) => Cardinality(Late(f, t)) = 0
  <2>1. Late(hits[k], t)' = Late(f, t)
    BY <1>8 DEF Late
  <2>2. Cardinality(Late(f, t)) \in Nat
    BY <1>9, LateFinite
  <2>3. /\ Cardinality(Late(g, t)) \in Nat /\ Cardinality(Late(hits[k], t)) \in Nat
        /\ Cardinality(Late(g, t)) <= Cardinality(Late(hits[k], t))
        /\ t >= a - Span => Cardinality(Late(g, t)) = Cardinality(Late(hits[k], t))
    BY <1>6 DEF Trimmed
  <2>4. /\ a > t => Cardinality(Late(f, t)) = Cardinality(Late(g, t)) + 1
        /\ Cardinality(Late(g, t)) <= Cardinality(Late(f, t))
        /\ Cardinality(Late(f, t)) <= Cardinality(Late(g, t)) + 1
        /\ Late(g, t) = {} /\ ~(a > t) => Cardinality(Late(f, t)) = 0
    BY <1>3, <1>6, <1>7, LateAppend
  <2>5. QED
    BY <2>1, <2>2, <2>3, <2>4
<1>24. ASSUME NEW m \in Key, m # k, NEW t PROVE Late(hits[m], t)' = Late(hits[m], t)
  BY <1>8, <1>24 DEF Late
<1>25. NoneLeft'
  <2> SUFFICES ASSUME NEW m \in Key, NEW t \in Int
               PROVE  Cardinality(Late(hits[m], t)') <= Cardinality(Owned(m, t)') + behind'[m]
    BY DEF NoneLeft
  <2>1. Cardinality(Late(hits[m], t)) <= Cardinality(Owned(m, t)) + behind[m]
    BY <1>5 DEF NoneLeft
  <2>2. CASE m = k /\ a > t
    <3>1. Cardinality(Late(f, t)) <= Cardinality(Late(hits[k], t)) + 1
      BY <1>23
    <3>2. Cardinality(Owned(k, t)') = Cardinality(Owned(k, t)) + 1 /\ Cardinality(Owned(k, t)) \in Nat
      BY <1>21, <2>2
    <3>3. behind'[k] >= behind[k] /\ behind[k] \in Nat /\ behind'[k] \in Nat
      BY <1>6, <1>10
    <3>4. Cardinality(Late(f, t)) \in Nat /\ Cardinality(Late(hits[k], t)) \in Nat
      BY <1>23
    <3>5. Late(hits[k], t)' = Late(f, t)
      BY <1>23
    <3>6. Cardinality(Late(f, t)) <= Cardinality(Owned(k, t)') + behind'[k]
      BY <2>1, <2>2, <3>1, <3>2, <3>3, <3>4
    <3>7. QED
      BY <2>2, <3>5, <3>6
  <2>3. CASE m = k /\ ~(a > t)
    <3>1. /\ Cardinality(Owned(k, t)') = Cardinality(Owned(k, t)) /\ Cardinality(Owned(k, t)) \in Nat
          /\ Late(hits[k], t)' = Late(f, t)
      BY <1>21, <1>23, <2>3
    <3>2. behind'[k] >= behind[k] /\ behind[k] \in Nat /\ behind'[k] \in Nat
      BY <1>6, <1>10
    <3>3. CASE Late(g, t) = {}
      <4>1. Cardinality(Late(f, t)) = 0
        BY <1>23, <2>3, <3>3
      <4>2. QED
        BY <2>3, <3>1, <3>2, <4>1
    <3>4. CASE Late(g, t) # {}
      <4>1. PICK i \in Late(g, t) : TRUE
        BY <3>4
      <4>2. PICK j \in DOMAIN g : g[j] > t
        <5>1. i \in 1 .. Len(g)
          BY <1>9 DEF Late
        <5>2. PICK j \in 1 .. i : g[j] > t
          BY DEF Late
        <5>3. j \in DOMAIN g
          BY <1>9, <5>1
        <5>4. QED
          BY <5>2, <5>3
      <4>3. PICK d \in Served(k) : at[d] = g[j]
        BY <1>7, <4>2
      <4>4. at[d] > a
        BY <1>6, <1>9, <2>3, <4>2, <4>3
      <4>5. behind'[k] = behind[k] + 1
        BY <1>10, <4>4
      <4>6. /\ Cardinality(Late(f, t)) <= Cardinality(Late(hits[k], t)) + 1
            /\ Cardinality(Late(f, t)) \in Nat /\ Cardinality(Late(hits[k], t)) \in Nat
        BY <1>23
      <4>7. QED
        BY <2>1, <2>3, <3>1, <3>2, <4>5, <4>6
    <3>5. QED
      BY <3>3, <3>4
  <2>4. CASE m # k
    BY <1>10, <1>18, <1>24, <2>1, <2>4
  <2>5. QED
    BY <2>2, <2>3, <2>4
<1>26. Covered'
  <2> SUFFICES ASSUME NEW m \in Key, NEW t \in Int, Recent(m, t)'
               PROVE  Cardinality(Owned(m, t)') <= Cardinality(Late(hits[m], t)') + overtaken[m]
    BY <1>4 DEF Covered
  <2>1. Recent(m, t)
    BY <1>15 DEF Recent, ServedStays
  <2>2. Cardinality(Owned(m, t)) <= Cardinality(Late(hits[m], t)) + overtaken[m]
    BY <1>5, <2>1 DEF Covered
  <2>3. CASE m = k
    <3>1. t >= a - Span
      BY <1>1, <1>4, <1>16, <2>3 DEF Recent
    <3>2. /\ Late(hits[k], t)' = Late(f, t)
          /\ Cardinality(Late(f, t)) \in Nat /\ Cardinality(Late(hits[k], t)) \in Nat
          /\ a > t => Cardinality(Late(f, t)) = Cardinality(Late(hits[k], t)) + 1
          /\ Cardinality(Late(hits[k], t)) <= Cardinality(Late(f, t))
      BY <1>23, <3>1
    <3>3. /\ Cardinality(Owned(k, t)) \in Nat /\ overtaken[k] \in Nat
          /\ a > t => Cardinality(Owned(k, t)') = Cardinality(Owned(k, t)) + 1
          /\ ~(a > t) => Cardinality(Owned(k, t)') = Cardinality(Owned(k, t))
      BY <1>6, <1>10, <1>21
    <3>4. Cardinality(Owned(k, t)') <= Cardinality(Late(f, t)) + overtaken[k]
      BY <2>2, <2>3, <3>2, <3>3
    <3>5. QED
      BY <2>3, <3>2, <3>4
  <2>4. CASE m # k
    BY <1>18, <1>24, <2>2, <2>4
  <2>5. QED
    BY <2>3, <2>4
<1>27. Windows'
  <2> SUFFICES ASSUME NEW m \in Key, NEW t \in 0 .. now
               PROVE  Cardinality(OwnedIn(m, t)') <= Limit + overtaken[m] + behind'[m]
    BY <1>4 DEF Windows
  <2>1. Cardinality(OwnedIn(m, t)) <= Limit + overtaken[m] + behind[m]
    BY <1>5 DEF Windows
  <2>2. t \in Int /\ Cardinality(OwnedIn(m, t)) \in Nat /\ Cardinality(OwnedIn(m, t)') \in Nat
    BY <1>5, <1>12, Countable, CountableNext
  <2>3. behind[k] \in Nat /\ overtaken[k] \in Nat /\ behind'[k] \in Nat /\ behind'[k] >= behind[k]
    BY <1>6, <1>10
  <2>4. CASE m = k /\ (\E d \in Served(k) : at[d] > a)
    <3>1. behind'[k] = behind[k] + 1 /\ Cardinality(OwnedIn(k, t)') <= Cardinality(OwnedIn(k, t)) + 1
      BY <1>10, <1>22, <2>2, <2>4
    <3>2. QED
      BY <1>5, <2>1, <2>2, <2>3, <2>4, <3>1
  <2>5. CASE m = k /\ a > t
    <3>1. Cardinality(OwnedIn(k, t)') = Cardinality(OwnedIn(k, t))
      BY <1>22, <2>2, <2>5
    <3>2. QED
      BY <1>5, <2>1, <2>2, <2>3, <2>5, <3>1
  <2>6. CASE m = k /\ ~(a > t) /\ ~(\E d \in Served(k) : at[d] > a)
    <3>1. \A d \in Call : at[d] \in Nat
      BY <1>5 DEF GateTyped
    <3>2. \A d \in Served(k)' : at[d] <= t
      <4>1. \A d \in Served(k) : d \in Call
        BY DEF Served
      <4>2. QED
        BY <1>1, <1>6, <1>16, <2>2, <2>6, <3>1, <4>1
    <3>3. \A d \in Owners(k)' : d \in Served(k)' /\ d \in Call
      BY DEF Owners, Served
    <3>4. OwnedIn(k, t)' = Owned(k, t - Span)'
      <4>1. \A d \in Owners(k)' : at[d] \in Nat /\ at[d] <= t
        BY <3>1, <3>2, <3>3
      <4>2. \A d \in Owners(k)' : at'[d] \in t - Span + 1 .. t <=> at'[d] > t - Span
        BY <1>4, <1>5, <2>2, <4>1
      <4>3. QED
        BY <4>2 DEF OwnedIn, Owned
    <3>5. t - Span \in Int /\ Recent(k, t - Span)'
      <4>1. \A d \in Served(k)' : at[d] \in Nat
        BY <3>1 DEF Served
      <4>2. \A d \in Served(k)' : t - Span >= at[d] - Span
        BY <1>5, <2>2, <3>2, <4>1
      <4>3. QED
        BY <1>4, <1>5, <2>2, <4>2 DEF Recent
    <3>6. Cardinality(Owned(k, t - Span)') <= Cardinality(Late(hits[k], t - Span)') + overtaken[k]
      BY <1>4, <1>6, <1>26, <3>5 DEF Covered
    <3>7. Late(hits[k], t - Span)' = Late(f, t - Span)
      BY <1>23, <3>5
    <3>8. Cardinality(Late(f, t - Span)) \in Nat /\ Cardinality(Late(f, t - Span)) <= Len(f)
      BY <1>9, <3>5, LateFinite
    <3>9. Len(f) <= Limit /\ Len(f) \in Nat
      BY <1>4, <1>5, <1>9
    <3>10. Cardinality(Owned(k, t - Span)') \in Nat
      BY <1>12, CountableNext
    <3>11. Cardinality(OwnedIn(k, t)') <= Limit + overtaken[k]
      BY <1>5, <2>3, <3>4, <3>6, <3>7, <3>8, <3>9, <3>10
    <3>12. QED
      BY <1>5, <2>2, <2>3, <2>6, <3>11
  <2>7. CASE m # k
    BY <1>10, <1>18, <2>1, <2>7
  <2>8. QED
    BY <2>4, <2>5, <2>6, <2>7
<1>28. QED
  BY <1>11, <1>12, <1>14, <1>17, <1>25, <1>26, <1>27 DEF GateInv

(* A refund: one slot less for the times before the request, and one hit   *)
(* less for every time for which a hit counts; where only the second is    *)
(* true, the request has found a newer hit than its own.                   *)
LEMMA RefundKeeps ==
  ASSUME GateInv, NEW c \in Call, Refund(c)
  PROVE  GateInv'
<1>1. PICK k, h : k = req[c].key /\ h = hits[k]
  OBVIOUS
<1>2. PICK f : f = Refunded(h)
  OBVIOUS
<1>3. /\ pc[c] = "refunding" /\ hits' = [hits EXCEPT ![k] = f]
      /\ pc' = [pc EXCEPT ![c] = "ended"]
      /\ overtaken' = IF Newer(h, at[c]) THEN [overtaken EXCEPT ![k] = @ + 1] ELSE overtaken
      /\ UNCHANGED <<now, open, made, req, fresh, at, behind>>
  BY <1>1, <1>2 DEF Refund, To
<1>4. /\ GateTyped /\ Finite /\ Traded /\ Kept /\ NoneLeft /\ Covered /\ Windows
      /\ now \in Nat /\ Limit \in Nat /\ \A d \in Call : at[d] \in Nat
  BY TradeGateAssumption DEF GateInv, GateTyped
<1>5. k \in Key /\ h \in Seq(Nat) /\ fresh[c]
  BY <1>1, <1>3, <1>4 DEF GateTyped, Traded
<1>6. /\ f \in Seq(Nat) /\ Len(f) <= Len(h) /\ \A i \in DOMAIN f : i \in DOMAIN h /\ f[i] = h[i]
  <2>1. CASE h = <<>>
    BY <1>5, <1>2, <2>1 DEF Refunded
  <2>2. CASE h # <<>>
    <3>1. f = SubSeq(h, 1, Len(h) - 1) /\ Len(h) \in Nat /\ Len(h) > 0
      BY <1>5, <1>2, <2>2 DEF Refunded, Front
    <3>2. QED
      BY <1>5, <3>1
  <2>3. QED
    BY <2>1, <2>2
<1>7. /\ pc'[c] = "ended" /\ hits'[k] = f
      /\ \A d \in Call : d # c => pc'[d] = pc[d]
      /\ \A m \in Key : m # k => hits'[m] = hits[m]
  BY <1>3, <1>4, <1>5 DEF GateTyped
<1>8. /\ overtaken' \in [Key -> Nat] /\ \A m \in Key : behind[m] \in Nat /\ overtaken[m] \in Nat
      /\ \A m \in Key : m # k => overtaken'[m] = overtaken[m]
      /\ Newer(h, at[c]) => overtaken'[k] = overtaken[k] + 1
      /\ overtaken'[k] >= overtaken[k]
  BY <1>3, <1>4, <1>5 DEF GateTyped
<1>9. GateTyped'
  <2>1. hits' \in [Key -> Seq(Nat)]
    BY <1>3, <1>4, <1>6 DEF GateTyped
  <2>2. QED
    BY <1>3, <1>4, <1>7, <1>8, <2>1 DEF GateTyped
<1>10. Finite'
  BY <1>4, <1>7, FiniteStays
<1>11. Traded'
  BY <1>3, <1>4, <1>7 DEF Traded, Name
<1>12. ServedStays
  BY <1>3, <1>7, ServedStay DEF Done
<1>13. Kept'
  <2> SUFFICES ASSUME NEW m \in Key
               PROVE  /\ Len(hits'[m]) <= Limit
                      /\ \A i \in DOMAIN hits'[m] : \E d \in Served(m)' : at'[d] = hits'[m][i]
    BY DEF Kept
  <2>1. Served(m) \subseteq Served(m)' /\ at' = at
    BY <1>3, <1>12 DEF ServedStays
  <2>2. /\ Len(hits[m]) <= Limit
        /\ \A i \in DOMAIN hits[m] : \E d \in Served(m) : at[d] = hits[m][i]
    BY <1>4 DEF Kept
  <2>3. CASE m = k
    <3>1. Len(h) <= Limit /\ \A i \in DOMAIN h : \E d \in Served(k) : at[d] = h[i]
      BY <1>1, <2>2, <2>3
    <3>2. Len(f) \in Nat /\ Len(h) \in Nat
      BY <1>5, <1>6
    <3>3. Len(f) <= Limit
      BY <1>4, <1>6, <3>1, <3>2
    <3>4. QED
      BY <1>6, <1>7, <2>1, <2>3, <3>1, <3>3
  <2>4. CASE m # k
    BY <1>7, <2>1, <2>2, <2>4
  <2>5. QED
    BY <2>3, <2>4
<1>14. ASSUME NEW m \in Key, m # k, NEW t
       PROVE  /\ Owned(m, t)' = Owned(m, t) /\ OwnedIn(m, t)' = OwnedIn(m, t)
              /\ Late(hits[m], t)' = Late(hits[m], t)
  BY <1>1, <1>3, <1>7, <1>14 DEF Owned, OwnedIn, Owners, Late
<1>15. ASSUME NEW t \in Int
       PROVE  /\ Cardinality(Owned(k, t)) \in Nat
              /\ at[c] > t => Cardinality(Owned(k, t)') = Cardinality(Owned(k, t)) - 1
              /\ ~(at[c] > t) => Cardinality(Owned(k, t)') = Cardinality(Owned(k, t))
              /\ OwnedIn(k, t)' \subseteq OwnedIn(k, t)
  <2>1. Owned(k, t)' = Owned(k, t) \ {c}
    BY <1>3, <1>7 DEF Owned, Owners
  <2>2. c \in Owned(k, t) <=> at[c] > t
    BY <1>1, <1>3, <1>5 DEF Owned, Owners
  <2>3. IsFiniteSet(Owned(k, t)) /\ Cardinality(Owned(k, t)) \in Nat
    BY <1>4, Countable
  <2>4. Cardinality(Owned(k, t) \ {c}) =
           IF c \in Owned(k, t) THEN Cardinality(Owned(k, t)) - 1 ELSE Cardinality(Owned(k, t))
    BY <2>3, FS_RemoveElement
  <2>5. OwnedIn(k, t)' \subseteq OwnedIn(k, t)
    BY <1>3, <1>7 DEF OwnedIn, Owners
  <2>6. QED
    BY <2>1, <2>2, <2>3, <2>4, <2>5
<1>16. ASSUME NEW t \in Int
       PROVE  /\ Late(hits[k], t)' = Late(f, t) /\ Late(hits[k], t) = Late(h, t)
              /\ Cardinality(Late(h, t)) \in Nat /\ Cardinality(Late(f, t)) \in Nat
              /\ \/ Cardinality(Late(h, t)) = 0 /\ Cardinality(Late(f, t)) = 0
                 \/ /\ Cardinality(Late(f, t)) = Cardinality(Late(h, t)) - 1
                    /\ ~(at[c] > t) => Newer(h, at[c])
  <2>1. Late(hits[k], t)' = Late(f, t) /\ Late(hits[k], t) = Late(h, t)
    BY <1>1, <1>7 DEF Late
  <2>2. Cardinality(Late(f, t)) \in Nat /\ Cardinality(Late(h, t)) \in Nat
    BY <1>5, <1>6, LateFinite
  <2>3. /\ Late(h, t) = {} => Cardinality(Late(f, t)) = 0
        /\ Late(h, t) # {} => Cardinality(Late(f, t)) = Cardinality(Late(h, t)) - 1
    BY <1>2, <1>5, LateRefunded
  <2>4. Cardinality({}) = 0
    BY FS_EmptySet
  <2>5. ASSUME Late(h, t) # {}, ~(at[c] > t) PROVE Newer(h, at[c])
    <3>1. PICK i \in Late(h, t) : TRUE
      BY <2>5
    <3>2. DOMAIN h = 1 .. Len(h) /\ Len(h) \in Nat
      BY <1>5
    <3>3. i \in 1 .. Len(h)
      BY <3>2 DEF Late
    <3>4. PICK j \in 1 .. i : h[j] > t
      BY DEF Late
    <3>5. j \in DOMAIN h /\ h[j] \in Nat
      BY <1>5, <3>2, <3>3
    <3>6. h[j] > at[c]
      BY <1>4, <2>5, <3>4, <3>5
    <3>7. QED
      BY <3>5, <3>6 DEF Newer
  <2>6. QED
    BY <2>1, <2>2, <2>3, <2>4, <2>5
<1>17. NoneLeft'
  <2> SUFFICES ASSUME NEW m \in Key, NEW t \in Int
               PROVE  Cardinality(Late(hits[m], t)') <= Cardinality(Owned(m, t)') + behind[m]
    BY <1>3 DEF NoneLeft
  <2>1. Cardinality(Late(hits[m], t)) <= Cardinality(Owned(m, t)) + behind[m]
    BY <1>4 DEF NoneLeft
  <2>2. Cardinality(Owned(m, t)') \in Nat
    BY <1>10, CountableNext
  <2>3. CASE m = k
    <3>1. Cardinality(Owned(k, t)') >= Cardinality(Owned(k, t)) - 1 /\ Cardinality(Owned(k, t)) \in Nat
      BY <1>15
    <3>2. behind[k] \in Nat
      BY <1>5, <1>8
    <3>3. /\ Late(hits[k], t)' = Late(f, t) /\ Late(hits[k], t) = Late(h, t)
          /\ Cardinality(Late(h, t)) \in Nat /\ Cardinality(Late(f, t)) \in Nat
          /\ \/ Cardinality(Late(f, t)) = 0
             \/ Cardinality(Late(f, t)) = Cardinality(Late(h, t)) - 1
      BY <1>16
    <3>4. Cardinality(Late(f, t)) <= Cardinality(Owned(k, t)') + behind[k]
      BY <2>1, <2>2, <2>3, <3>1, <3>2, <3>3
    <3>5. QED
      BY <2>3, <3>3, <3>4
  <2>4. CASE m # k
    BY <1>14, <2>1, <2>4
  <2>5. QED
    BY <2>3, <2>4
<1>18. Covered'
  <2> SUFFICES ASSUME NEW m \in Key, NEW t \in Int, Recent(m, t)'
               PROVE  Cardinality(Owned(m, t)') <= Cardinality(Late(hits[m], t)') + overtaken'[m]
    BY DEF Covered
  <2>1. Recent(m, t)
    BY <1>12 DEF Recent, ServedStays
  <2>2. Cardinality(Owned(m, t)) <= Cardinality(Late(hits[m], t)) + overtaken[m]
    BY <1>4, <2>1 DEF Covered
  <2>3. CASE m = k
    <3>1. /\ overtaken[k] \in Nat /\ overtaken'[k] \in Nat /\ overtaken'[k] >= overtaken[k]
          /\ Newer(h, at[c]) => overtaken'[k] = overtaken[k] + 1
      BY <1>5, <1>8
    <3>2. /\ Cardinality(Owned(k, t)) \in Nat
          /\ at[c] > t => Cardinality(Owned(k, t)') = Cardinality(Owned(k, t)) - 1
          /\ ~(at[c] > t) => Cardinality(Owned(k, t)') = Cardinality(Owned(k, t))
      BY <1>15
    <3>3. /\ Late(hits[k], t)' = Late(f, t) /\ Late(hits[k], t) = Late(h, t)
          /\ Cardinality(Late(h, t)) \in Nat /\ Cardinality(Late(f, t)) \in Nat
          /\ \/ Cardinality(Late(h, t)) = 0 /\ Cardinality(Late(f, t)) = 0
             \/ /\ Cardinality(Late(f, t)) = Cardinality(Late(h, t)) - 1
                /\ ~(at[c] > t) => Newer(h, at[c])
      BY <1>16
    <3>4. Cardinality(Owned(k, t)) <= Cardinality(Late(h, t)) + overtaken[k]
      BY <2>2, <2>3, <3>3
    <3>5. Cardinality(Owned(k, t)') <= Cardinality(Late(f, t)) + overtaken'[k]
      BY <3>1, <3>2, <3>3, <3>4
    <3>6. QED
      BY <2>3, <3>3, <3>5
  <2>4. CASE m # k
    BY <1>8, <1>14, <2>2, <2>4
  <2>5. QED
    BY <2>3, <2>4
<1>19. Windows'
  <2> SUFFICES ASSUME NEW m \in Key, NEW t \in 0 .. now
               PROVE  Cardinality(OwnedIn(m, t)') <= Limit + overtaken'[m] + behind[m]
    BY <1>3 DEF Windows
  <2>1. Cardinality(OwnedIn(m, t)) <= Limit + overtaken[m] + behind[m]
    BY <1>4 DEF Windows
  <2>2. /\ Cardinality(OwnedIn(m, t)) \in Nat /\ IsFiniteSet(OwnedIn(m, t))
        /\ Cardinality(OwnedIn(m, t)') \in Nat
    BY <1>4, <1>10, Countable, CountableNext
  <2>3. OwnedIn(m, t)' \in SUBSET OwnedIn(m, t)
    <3>1. t \in Int
      BY <1>4
    <3>2. QED
      BY <1>14, <1>15, <3>1
  <2>4. Cardinality(OwnedIn(m, t)') <= Cardinality(OwnedIn(m, t))
    BY <2>2, <2>3, FS_Subset
  <2>5. overtaken[m] \in Nat /\ behind[m] \in Nat /\ overtaken'[m] \in Nat
        /\ overtaken'[m] >= overtaken[m]
    BY <1>8
  <2>6. QED
    BY <1>4, <2>1, <2>2, <2>4, <2>5
<1>20. QED
  BY <1>9, <1>10, <1>11, <1>13, <1>17, <1>18, <1>19 DEF GateInv

LEMMA InitStarts == GateInit => GateInv
<1> SUFFICES ASSUME GateInit PROVE GateInv
  OBVIOUS
<1>1. GateTyped
  BY DEF GateInit, GateTyped
<1>2. {c \in Call : pc[c] # "idle"} = {}
  BY DEF GateInit
<1>3. Finite
  BY <1>2, FS_EmptySet DEF Finite
<1>4. DOMAIN made = {}
  BY DEF GateInit
<1>5. Traded
  BY <1>4 DEF GateInit, Traded
<1>6. \A k \in Key : hits[k] = <<>> /\ overtaken[k] = 0 /\ behind[k] = 0
  BY DEF GateInit
<1>7. Kept
  BY <1>6, TradeGateAssumption DEF Kept
<1>8. \A k, t : Owned(k, t) = {} /\ OwnedIn(k, t) = {}
  BY DEF GateInit, Owned, OwnedIn, Owners
<1>9. \A k \in Key, t \in Int : Late(hits[k], t) = {}
  BY <1>6 DEF Late
<1>10. Cardinality({}) = 0
  BY FS_EmptySet
<1>11. NoneLeft /\ Covered
  <2>1. ASSUME NEW k \in Key, NEW t \in Int
        PROVE  /\ Cardinality(Late(hits[k], t)) = 0 /\ Cardinality(Owned(k, t)) = 0
               /\ overtaken[k] = 0 /\ behind[k] = 0
    BY <1>6, <1>8, <1>9, <1>10
  <2>2. QED
    BY <2>1 DEF NoneLeft, Covered
<1>12. Windows
  <2>1. ASSUME NEW k \in Key, NEW t \in 0 .. now
        PROVE  Cardinality(OwnedIn(k, t)) <= Limit + overtaken[k] + behind[k]
    <3>1. Cardinality(OwnedIn(k, t)) = 0
      BY <1>8, <1>10
    <3>2. overtaken[k] = 0 /\ behind[k] = 0 /\ Limit \in Nat
      BY <1>6, TradeGateAssumption
    <3>3. QED
      BY <3>1, <3>2
  <2>2. QED
    BY <2>1 DEF Windows
<1>13. QED
  BY <1>1, <1>3, <1>5, <1>7, <1>11, <1>12 DEF GateInv

LEMMA StepKeeps == GateInv /\ [GateNext]_gateVars => GateInv'
<1> SUFFICES ASSUME GateInv, [GateNext]_gateVars PROVE GateInv'
  OBVIOUS
<1>1. ASSUME NEW c \in Call, Enter(c) PROVE GateInv'
  BY <1>1, EnterKeeps
<1>2. ASSUME NEW c \in Call, GateStep(c) PROVE GateInv'
  BY <1>2, LookKeeps, ReadTimeKeeps, LimitedKeeps, AllowedKeeps, ExecuteKeeps, NoTradeKeeps,
     RefundKeeps DEF GateStep
<1>3. CASE Pass
  BY <1>3, PassKeeps
<1>4. ASSUME UNCHANGED <<now, hits, made, pc, req, fresh, at, seen>> PROVE GateInv'
  <2>1. /\ now' = now /\ hits' = hits /\ made' = made /\ pc' = pc /\ req' = req
        /\ fresh' = fresh /\ at' = at /\ overtaken' = overtaken /\ behind' = behind
    BY <1>4 DEF seen
  <2>2. GateTyped' /\ Finite' /\ Traded'
    BY <2>1 DEF GateInv, GateTyped, Finite, Traded, Name
  <2>3. ServedStays /\ \A k : Owners(k)' = Owners(k)
    BY <2>1 DEF Owners, Served, ServedStays
  <2>4. Kept' /\ NoneLeft' /\ Covered' /\ Windows'
    BY <1>4, <2>1, <2>2, <2>3, QuietStep
  <2>5. QED
    BY <2>2, <2>4 DEF GateInv
<1>5. CASE Switch
  BY <1>4, <1>5 DEF Switch
<1>6. CASE UNCHANGED gateVars
  BY <1>4, <1>6 DEF gateVars
<1>7. QED
  BY <1>1, <1>2, <1>3, <1>5, <1>6 DEF GateNext

(* What the invariant says of the trades made. *)
LEMMA SlotsAgree == GateInv => SlotsRight
<1> SUFFICES ASSUME GateInv PROVE SlotsRight
  OBVIOUS
<1>1. /\ GateTyped /\ Finite /\ Traded /\ Kept /\ NoneLeft /\ Covered /\ Windows
      /\ now \in Nat /\ Limit \in Nat /\ Span \in Nat
      /\ \A k \in Key : overtaken[k] \in Nat /\ behind[k] \in Nat
  BY TradeGateAssumption DEF GateInv, GateTyped
<1>2. ASSUME NEW k, NEW t
      PROVE  /\ IsFiniteSet(TradesIn(k, t))
             /\ Cardinality(TradesIn(k, t)) \in Nat
             /\ Cardinality(TradesIn(k, t)) <= Cardinality(OwnedIn(k, t))
             /\ (\A c \in Call : req[c].key = k => pc[c] \notin {"allowed", "refunding"})
                   => Cardinality(TradesIn(k, t)) = Cardinality(OwnedIn(k, t))
  <2>1. PICK A : A = TradesIn(k, t)
    OBVIOUS
  <2>2. PICK B : B = OwnedIn(k, t)
    OBVIOUS
  <2>3. PICK f : f = [n \in A |-> made[n]]
    OBVIOUS
  <2>4. \A n \in A : /\ n \in DOMAIN made /\ n[1] = k /\ at[made[n]] \in t - Span + 1 .. t
                     /\ made[n] \in Call /\ pc[made[n]] = "traded" /\ fresh[made[n]]
                     /\ n = Name(made[n])
    BY <1>1, <2>1 DEF TradesIn, Traded
  <2>5. \A n \in A : made[n] \in B
    BY <2>2, <2>4 DEF OwnedIn, Owners, Name
  <2>6. f \in Injection(A, B)
    BY <2>3, <2>4, <2>5 DEF Injection, IsInjective
  <2>7. IsFiniteSet(B) /\ Cardinality(B) \in Nat
    BY <1>1, <2>2, Countable
  <2>8. IsFiniteSet(A) /\ Cardinality(A) <= Cardinality(B)
        /\ (Cardinality(A) = Cardinality(B) <=> f \in Surjection(A, B))
    BY <2>6, <2>7, FS_Injection
  <2>9. ASSUME \A c \in Call : req[c].key = k => pc[c] \notin {"allowed", "refunding"}
        PROVE  f \in Surjection(A, B)
    <3>1. ASSUME NEW c \in B PROVE Name(c) \in A /\ f[Name(c)] = c
      <4>1. c \in Call /\ req[c].key = k /\ pc[c] = "traded" /\ at[c] \in t - Span + 1 .. t
        BY <2>2, <2>9 DEF OwnedIn, Owners
      <4>2. Name(c) \in DOMAIN made /\ made[Name(c)] = c /\ Name(c)[1] = k
        BY <1>1, <4>1 DEF Traded, Name
      <4>3. QED
        BY <2>1, <2>3, <4>1, <4>2 DEF TradesIn
    <3>2. f \in [A -> B]
      BY <2>3, <2>5
    <3>3. QED
      BY <3>1, <3>2 DEF Surjection
  <2>10. Cardinality(A) \in Nat
    BY <2>8, FS_CardinalityType
  <2>11. QED
    BY <2>1, <2>2, <2>8, <2>9, <2>10
<1>3. RollingLimit
  <2> SUFFICES ASSUME NEW k \in Key, NEW t \in 0 .. now
               PROVE  Cardinality(TradesIn(k, t)) <= Limit + overtaken[k] + behind[k]
    BY DEF RollingLimit
  <2>1. Cardinality(OwnedIn(k, t)) <= Limit + overtaken[k] + behind[k]
    BY <1>1 DEF Windows
  <2>2. Cardinality(OwnedIn(k, t)) \in Nat
    BY <1>1, Countable
  <2>3. Cardinality(TradesIn(k, t)) <= Cardinality(OwnedIn(k, t)) /\ Cardinality(TradesIn(k, t)) \in Nat
    BY <1>2
  <2>4. QED
    BY <1>1, <2>1, <2>2, <2>3
<1>4. RefusedCostsNothing
  <2> SUFFICES ASSUME NEW k \in Key,
                      \A c \in Call : req[c].key = k => pc[c] \notin {"allowed", "refunding"}
               PROVE  Len(Pruned(hits[k], now)) <= Cardinality(TradesIn(k, now)) + behind[k]
    BY DEF RefusedCostsNothing
  <2>1. Len(Pruned(hits[k], now)) = Cardinality(Late(hits[k], now - Span))
    <3>1. hits[k] \in Seq(Nat)
      BY <1>1 DEF GateTyped
    <3>2. QED
      BY <1>1, <3>1, LatePruned
  <2>2. Cardinality(Late(hits[k], now - Span)) <= Cardinality(Owned(k, now - Span)) + behind[k]
    BY <1>1 DEF NoneLeft
  <2>3. OwnedIn(k, now) = Owned(k, now - Span)
    BY <1>1, now >= now, WindowNow
  <2>4. Cardinality(TradesIn(k, now)) = Cardinality(OwnedIn(k, now))
    BY <1>2
  <2>5. QED
    BY <2>1, <2>2, <2>3, <2>4
<1>5. QED
  BY <1>3, <1>4 DEF SlotsRight

(* At most the limit of trades in any window, but for refunds that found a *)
(* newer hit than their own and requests that were late for the lock, and  *)
(* no slot kept without a trade but theirs, however requests, refusals and *)
(* retries are interleaved (Limiter.Allow, Limiter.Refund, App.Trade).     *)
THEOREM SlotsAndTrades == GateSpec => []SlotsRight
<1>1. GateInit => GateInv
  BY InitStarts
<1>2. GateInv /\ [GateNext]_gateVars => GateInv'
  BY StepKeeps
<1>3. GateInv => SlotsRight
  BY SlotsAgree
<1>4. QED
  BY <1>1, <1>2, <1>3, PTL DEF GateSpec
=============================================================================
