------------------------------ MODULE Newsroom ------------------------------
(***************************************************************************)
(* The price simulation (package sim), the news dispatcher (package news)  *)
(* and how app.go puts them together: the scenario's stories are fired     *)
(* when their time has come or when an organiser says so, fund managers    *)
(* get each story at once and everybody else after a head start, and the   *)
(* prices follow.  Both keep their state in the log and carry on from it   *)
(* after a kill.                                                           *)
(*                                                                         *)
(* A moment is the step of the dispatcher's wait, and the simulation's     *)
(* second.  Threads interleave, and may take longer than a moment; timers  *)
(* may be late, and a timer's callback is one step.  The clock is another  *)
(* component's, and goes on while the process is down.  One company is     *)
(* followed; wordings are left out.                                        *)
(***************************************************************************)
EXTENDS Integers, FiniteSets, Lists, Functions

CONSTANTS
    Schedule,      \* the scenario's stories, in its order
    Story,         \* what each is: [event, news, at, phase2, shock, ramp]
    Desk,          \* stories that organisers publish by hand
    Table,         \* the price table: a price for each step, or <<>>
    Drift,         \* how the price moves by itself at each later step
    Opening, Least, Floor, Cap, Grid,    \* of prices
    TickSeconds,   \* moments of open market from one price to the next
    MarketClock,   \* are the stories' times moments of open market?
    Lead,          \* the head start of the fund managers, in moments
    Poll,          \* how long a waiting story waits while the event is paused
    Phase2, Close, \* when Phase 2 starts, and when the event is over
    Organiser,     \* they make requests
    Wants,         \* what a request may ask for
    MaxWall, MaxCalls, MaxItems,   \* bounds; MaxUpsets is of pauses, kills, resets,
    MaxUpsets                      \* disk faults, and moments of delay

ASSUME NewsAssumption ==
    /\ Lead \in Nat \ {0} /\ Poll \in Nat \ {0} /\ TickSeconds \in Nat \ {0}
    /\ Phase2 \in Nat /\ Close \in Nat /\ Phase2 <= Close /\ MaxWall \in Nat
    /\ \A id \in DOMAIN Story :
          /\ {Story[id].event, Story[id].news, Story[id].phase2} \subseteq BOOLEAN
          /\ Story[id].at \in Nat /\ Story[id].shock \in Int /\ Story[id].ramp \in Nat
    /\ Schedule \in Seq(DOMAIN Story) /\ IsInjective(Schedule)
    /\ Desk \subseteq DOMAIN Story /\ Desk \cap ToSet(Schedule) = {}
    /\ Table \in Seq(Nat) /\ Drift \in Int /\ Opening \in Nat
    /\ Least \in Nat \ {0} /\ Floor \in Nat /\ Cap \in Nat /\ Grid \in Nat
    /\ Cap > 0 => Floor <= Cap /\ Least <= Cap
    /\ \A w \in Wants :
          /\ w.op \in {"fire", "overdue", "manual", "skip", "edit", "shift", "publish"}
          /\ w.op \in {"fire", "skip", "edit"} => w.id \in ToSet(Schedule)
          /\ w.op = "publish" => w.id \in Desk
          /\ w.op \in {"manual", "skip"} => w.on \in BOOLEAN
          /\ w.op = "edit" => w.at \in Nat
          /\ w.op = "shift" => w.by \in Int

VARIABLES
    elapsed, wall,     \* moments the event has run, and moments in all
    paused, up,        \* the event; the process
    second,            \* a second for the simulation to work off
    sim,               \* the engine's state
    price,             \* of the company
    items,             \* all that was ever published: [story, life, staggered]
    rel,               \* the dispatcher's releases: [fm, pub] of each item
    waited,            \* moments since the fund managers got the item, up to Lead
    timer,             \* of the items that wait: [left, step, wait]
    arming,            \* items whose first timer is not in the dispatcher's cancels
    missed,            \* items whose timer went off before it was there
    thread,            \* the engine's loop, the organisers' requests
    late,              \* items whose public release is still to be stored
    log, broken,       \* the newest record of each item, and of the engine
    life,              \* how often the engine's state has been made anew
    calls, upsets, killed

clock  == <<elapsed, wall, paused, second>>
news   == <<items, rel, waited, timer, arming, missed, late>>
disk   == <<log, broken>>
bounds == <<calls, upsets, killed>>
vars   == <<clock, up, sim, price, news, thread, disk, life, bounds>>

Thread == {"run"} \cup Organiser

Stage == IF elapsed < Phase2 THEN "phase1" ELSE IF elapsed < Close THEN "phase2" ELSE "closing"

MarketOpen == ~paused /\ Stage # "closing"

(* App.newsLead. *)
NewsLead == IF Stage = "phase2" THEN Lead ELSE 0

NewSim == [fired |-> {}, manual |-> FALSE, skipped |-> {}, edits |-> <<>>,
           market |-> 0, tick |-> 0, pending |-> <<>>, shocks |-> <<>>]

Pending == [story : DOMAIN Story, when : Nat]
Shock   == [each : Int, left : Nat]

Idle == [at |-> "idle", out |-> <<>>, item |-> 0, sim |-> NewSim, price |-> 0, moves |-> FALSE,
         saves |-> FALSE, copies |-> FALSE]

Init ==
    /\ elapsed = 0 /\ wall = 0 /\ paused = FALSE /\ up = TRUE /\ second = FALSE
    /\ sim = NewSim /\ price = Opening
    /\ items = <<>> /\ rel = <<>> /\ waited = <<>> /\ timer = <<>> /\ late = {}
    /\ arming = {} /\ missed = {}
    /\ thread = [t \in Thread |-> Idle]
    /\ log = [news |-> <<>>, sim |-> NewSim, price |-> Opening] /\ broken = FALSE
    /\ life = 0
    /\ calls = 0 /\ upsets = 0 /\ killed = FALSE

Lesser(a, b)  == IF a < b THEN a ELSE b
Greater(a, b) == IF a > b THEN a ELSE b

-----------------------------------------------------------------------------
(* Prices.  A definition named ...Mutant is a plausible bug in the one     *)
(* after it; only the mutation runs use it.                                *)

OnGrid(p) == IF Grid > 0 THEN ((2 * p + Grid) \div (2 * Grid)) * Grid ELSE p

BoundMutant(p) ==
    LET low  == Greater(p, Floor)
        high == IF Cap > 0 THEN Lesser(low, Cap) ELSE low
    IN  OnGrid(Greater(high, Least))

(* On the grid, then inside the floor and the cap, and never free. *)
Bound(p) ==
    LET low  == Greater(OnGrid(p), Floor)
        high == IF Cap > 0 THEN Lesser(low, Cap) ELSE low
    IN  Greater(high, Least)

(* By how much a price moves that is on its own. *)
Push(s) == FoldLeft(LAMBDA n, sh : n + sh.each, Drift, s.shocks)

(* stepLocked: the table while it lasts, which has the news' effects in it *)
(* already; then the price's own drift and what is left of the shocks.     *)
Stepped(s) ==
    IF s.tick < Len(Table)
    THEN [price |-> Table[s.tick + 1], shocks |-> <<>>]
    ELSE LET on == Among(s.shocks, {sh \in Shock : sh.left > 1})
         IN  [price  |-> Bound(price + Push(s)),
              shocks |-> [i \in DOMAIN on |-> [on[i] EXCEPT !.left = @ - 1]]]

(* applyPendingLocked: effects whose moment has come are played out over   *)
(* the next steps, as many as their ramp begins.                           *)
Applied(s) ==
    LET due == Among(s.pending, {p \in Pending : p.when <= wall})
        spread(p) == LET n == Greater((Story[p.story].ramp + TickSeconds - 1) \div TickSeconds, 1)
                     IN  [each |-> Story[p.story].shock \div n, left |-> n]
    IN  [s EXCEPT !.pending = Among(@, {p \in Pending : p.when > wall}),
                  !.shocks  = @ \o [i \in DOMAIN due |-> spread(due[i])]]

-----------------------------------------------------------------------------
(* Firing stories. *)

AtMoment(s, id) == IF id \in DOMAIN s.edits THEN s.edits[id] ELSE Story[id].at

FiringMutant(s, ids) ==
    LET moved == Among(ids, {id \in DOMAIN Story : Story[id].shock # 0})
    IN  [s EXCEPT !.pending = @ \o [i \in DOMAIN moved |->
                        [story |-> moved[i], when |-> Lesser(wall + NewsLead, MaxWall)]]]

(* fireEventLocked for each: marked as fired, and its effect is due when   *)
(* the public sees it.                                                     *)
Firing(s, ids) ==
    LET moved == Among(ids, {id \in DOMAIN Story : Story[id].shock # 0})
    IN  [s EXCEPT !.fired = @ \cup ToSet(ids),
                  !.pending = @ \o [i \in DOMAIN moved |->
                        [story |-> moved[i], when |-> Lesser(wall + NewsLead, MaxWall)]]]

Waiting(s, id) == id \notin s.fired /\ id \notin s.skipped

Minutes(s) == IF MarketClock THEN s.market ELSE elapsed

(* fireDueLocked: with a table news goes out early, so that the public     *)
(* reads it as the price moves; what was written for Phase 2 waits for it. *)
Due(s) ==
    IF s.manual THEN <<>>
    ELSE Among(Schedule, {id \in DOMAIN Story :
            /\ Minutes(s) >= AtMoment(s, id) -
                   (IF Story[id].news /\ Table # <<>> THEN NewsLead ELSE 0)
            /\ Waiting(s, id)
            /\ Story[id].phase2 => Stage # "phase1"})

Queue(ids) == [i \in DOMAIN ids |-> [story |-> ids[i], life |-> life]]

Goes(t, th) == thread' = [thread EXCEPT ![t] = th]

(* A thread's news, then what it saves. *)
Busy(ids, saved, saves) ==
    [Idle EXCEPT !.at = "publish", !.out = Queue(ids), !.sim = saved, !.saves = saves]

(* Engine.Advance, under the engine's lock: each \E only names what is     *)
(* worked out there.                                                       *)
Advance ==
    /\ up /\ second /\ thread["run"].at = "idle"
    /\ second' = FALSE
    /\ LET trading == MarketOpen
           count   == IF trading THEN [sim EXCEPT !.market = @ + 1] ELSE sim
           steps   == trading /\ count.market % TickSeconds = 0
           timed   == IF steps THEN [count EXCEPT !.tick = @ + 1] ELSE count
       IN  \E next \in {Stepped(timed)} :
           \E moved \in {IF steps THEN [timed EXCEPT !.shocks = next.shocks] ELSE timed} :
           \E ids \in {Due(moved)} :
           \E fired \in {Firing(moved, ids)} :
           \E done \in {Applied(fired)} :
              /\ sim' = done
              /\ IF steps \/ ids # <<>> \/ done.pending # fired.pending
                 THEN Goes("run", [Busy(ids, done, TRUE) EXCEPT !.moves = steps,
                                                                !.price = next.price])
                 ELSE UNCHANGED thread
    /\ UNCHANGED <<elapsed, wall, paused, up, price, news, disk, life, bounds>>

(* FireEvent, ReleaseOverdue, the switches and the edits, which are saved  *)
(* in full; PublishNews has nothing to save.                               *)
MayFire(w) == w.id \notin sim.fired
MayEdit(w) == w.id \notin sim.fired /\ (w.op = "edit" => Story[w.id].event)

Overdue(s) == Among(Schedule, {id \in DOMAIN Story :
                 Story[id].event /\ Minutes(s) >= AtMoment(s, id) /\ Waiting(s, id)})

Moved(s, by) ==
    LET left == {id \in ToSet(Schedule) : Story[id].event /\ id \notin s.fired}
    IN  [s EXCEPT !.edits = [id \in left \cup DOMAIN @ |->
            IF id \in left THEN Greater(AtMoment(s, id) + by, 0) ELSE @[id]]]

(* What a request fires, and what it makes of the engine's state. *)
Fires(w) ==
    CASE w.op = "fire"    -> <<w.id>>
      [] w.op = "overdue" -> Overdue(sim)
      [] w.op = "publish" -> <<w.id>>
      [] OTHER            -> <<>>

Changed(w) ==
    CASE w.op \in {"fire", "overdue"} -> Firing(sim, Fires(w))
      [] w.op = "manual"  -> [sim EXCEPT !.manual = w.on]
      [] w.op = "skip"    -> [sim EXCEPT !.skipped = IF w.on THEN @ \cup {w.id} ELSE @ \ {w.id}]
      [] w.op = "edit"    -> [sim EXCEPT !.edits = [id \in DOMAIN @ \cup {w.id} |->
                                                     IF id = w.id THEN w.at ELSE @[id]]]
      [] w.op = "shift"   -> Moved(sim, w.by)
      [] w.op = "publish" -> sim

Request(c, w) ==
    /\ up /\ thread[c].at = "idle" /\ calls < MaxCalls
    /\ w.op = "fire" => MayFire(w)
    /\ w.op \in {"skip", "edit"} => MayEdit(w)
    /\ calls' = calls + 1
    /\ sim' = Changed(w)
    /\ Goes(c, [Busy(Fires(w), Changed(w), w.op # "publish")
                   EXCEPT !.copies = w.op \notin {"fire", "publish"}])
    /\ UNCHANGED <<clock, up, price, news, disk, life, upsets, killed>>

-----------------------------------------------------------------------------
(* The dispatcher. *)

Tiered(id) == Story[id].news /\ Stage = "phase2"

(* A delivery marks the release; an item that a reset has forgotten is not *)
(* delivered.                                                              *)
Deliver(feed, i) == rel' = IF i \in DOMAIN rel THEN [rel EXCEPT ![i][feed] = TRUE] ELSE rel

(* onNews: what the release is now goes into the log. *)
Note(i) ==
    log' = IF ~broken /\ i \in DOMAIN rel
           THEN [log EXCEPT !.news = [j \in DOMAIN @ \cup {i} |->
                                        IF j = i THEN rel[i] ELSE @[j]]]
           ELSE log

(* Publish: an item of its own, for the fund managers at once.             *)
Publish(t) ==
    /\ thread[t].at = "publish" /\ thread[t].out # <<>>
    /\ LET n == Len(items) + 1
           s == Head(thread[t].out)
       IN  /\ items' = Append(items, [story |-> s.story, life |-> s.life, staggered |-> FALSE])
           /\ rel' = [i \in DOMAIN rel \cup {n} |->
                        IF i = n THEN [fm |-> TRUE, pub |-> FALSE] ELSE rel[i]]
           /\ waited' = Append(waited, 0)
           /\ Goes(t, [thread[t] EXCEPT !.at = "public", !.item = n, !.out = Tail(@)])
    /\ UNCHANGED <<clock, up, sim, price, timer, arming, missed, late, disk, life, bounds>>

(* The wait for the next look at an item that has so long left. *)
Wait(left) ==
    LET step == IF paused THEN Poll ELSE 1
    IN  [left |-> left, step |-> step, wait |-> step]

WithTimer(f, i, w) == [j \in DOMAIN f \cup {i} |-> IF j = i THEN w ELSE f[j]]

(* What the fund managers have is noted; the public gets the item at once *)
(* or after the head start: its timer runs from here on.  The stage is     *)
(* looked at only now.                                                     *)
Everyone(t) ==
    /\ thread[t].at = "public"
    /\ LET i == thread[t].item
       IN  /\ Note(i)
           /\ IF Tiered(items[i].story)
              THEN /\ timer' = WithTimer(timer, i, Wait(Lead))
                   /\ items' = [items EXCEPT ![i].staggered = TRUE]
                   /\ arming' = arming \cup {i}
                   /\ Goes(t, [thread[t] EXCEPT !.at = "arming"])
                   /\ UNCHANGED rel
              ELSE /\ Deliver("pub", i)
                   /\ Goes(t, [thread[t] EXCEPT !.at = "noting"])
                   /\ UNCHANGED <<timer, arming, items>>
    /\ UNCHANGED <<clock, up, sim, price, waited, missed, late, broken, life, bounds>>

(* setCancel: the dispatcher knows the timer, and its thread goes on. *)
Register(i) ==
    /\ i \in arming
    /\ arming' = arming \ {i}
    /\ thread' = [t \in Thread |-> IF thread[t].at = "arming" /\ thread[t].item = i
                                   THEN [thread[t] EXCEPT !.at = "publish"] ELSE thread[t]]
    /\ UNCHANGED <<clock, up, sim, price, items, rel, waited, timer, missed, late, disk,
                   life, bounds>>

NotePublic(t) ==
    /\ thread[t].at = "noting"
    /\ Note(thread[t].item)
    /\ Goes(t, [thread[t] EXCEPT !.at = "publish"])
    /\ UNCHANGED <<clock, up, sim, price, news, broken, life, bounds>>

(* Engine.save: what will be saved is read only when the news is out. *)
Copy(t) ==
    /\ thread[t].at = "publish" /\ thread[t].out = <<>> /\ thread[t].copies
    /\ Goes(t, [thread[t] EXCEPT !.sim = sim, !.copies = FALSE])
    /\ UNCHANGED <<clock, up, sim, price, news, disk, life, bounds>>

(* Prices are set when the news is out, and the state is saved as it was   *)
(* when the thread left the engine's lock.                                 *)
Finish(t) ==
    /\ thread[t].at = "publish" /\ thread[t].out = <<>> /\ ~thread[t].copies
    /\ price' = IF thread[t].moves THEN thread[t].price ELSE price
    /\ log' = IF broken \/ ~thread[t].saves THEN log
              ELSE [log EXCEPT !.sim = thread[t].sim, !.price = price']
    /\ Goes(t, Idle)
    /\ UNCHANGED <<clock, up, sim, news, broken, life, bounds>>


(* A timer's callback.  The wait counts down only while the event runs.    *)
Wake(i) ==
    /\ i \in DOMAIN timer \ arming /\ timer[i].wait = 0
    /\ LET left == IF paused THEN timer[i].left ELSE timer[i].left - timer[i].step
       IN  IF left <= 0 /\ ~paused
           THEN /\ timer' = [j \in DOMAIN timer \ {i} |-> timer[j]]
                /\ Deliver("pub", i)
                /\ late' = late \cup {i}
           ELSE /\ timer' = [timer EXCEPT ![i] = Wait(left)]
                /\ UNCHANGED <<rel, late>>
    /\ UNCHANGED <<clock, up, sim, price, items, waited, arming, missed, thread, disk,
                   life, bounds>>

NoteLate(i) ==
    /\ i \in late
    /\ Note(i)
    /\ late' = late \ {i}
    /\ UNCHANGED <<clock, up, sim, price, items, rel, waited, arming, missed, timer, thread,
                   broken, life, bounds>>

(* The callback of a timer that the dispatcher does not know yet takes it  *)
(* for one that was stopped, and the item's wait ends here.                *)
Overslept(i) ==
    /\ i \in DOMAIN timer \cap arming /\ timer[i].wait = 0
    /\ timer' = [j \in DOMAIN timer \ {i} |-> timer[j]]
    /\ missed' = missed \cup ({i} \cap DOMAIN rel)
    /\ UNCHANGED <<clock, up, sim, price, items, rel, waited, arming, late, thread, disk,
                   life, bounds>>

-----------------------------------------------------------------------------
(* The clock, kills, and a new event. *)

(* Nothing that could go on at once is left to do. *)
Settled ==
    /\ \A t \in Thread : thread[t] = Idle
    /\ arming = {} /\ late = {} /\ ~second
    /\ \A i \in DOMAIN timer : timer[i].wait > 0

(* A moment goes by.  Threads may be slow - an append waits as long as the *)
(* database is away - and timers late: so many moments are bounded.  Of    *)
(* seconds only one is kept.                                               *)
Tick ==
    /\ wall < MaxWall \/ timer # <<>>
    /\ Settled \/ upsets < MaxUpsets
    /\ upsets' = IF Settled THEN upsets ELSE upsets + 1
    /\ wall' = Lesser(wall + 1, MaxWall)
    /\ elapsed' = IF paused THEN elapsed ELSE Lesser(elapsed + 1, Close)
    /\ second' = up
    /\ timer' = [i \in DOMAIN timer |-> [timer[i] EXCEPT !.wait = Greater(@ - 1, 0)]]
    /\ waited' = [i \in DOMAIN waited |-> Lesser(waited[i] + 1, Lead)]
    /\ UNCHANGED <<paused, up, sim, price, items, rel, arming, missed, late, thread, disk,
                   life, calls, killed>>

Pause ==
    /\ ~paused /\ up /\ upsets < MaxUpsets
    /\ paused' = TRUE /\ upsets' = upsets + 1
    /\ UNCHANGED <<elapsed, wall, second, up, sim, price, news, thread, disk, life,
                   calls, killed>>

Resume ==
    /\ paused /\ up /\ paused' = FALSE
    /\ UNCHANGED <<elapsed, wall, second, up, sim, price, news, thread, disk, life, bounds>>

Kill ==
    /\ up /\ upsets < MaxUpsets
    /\ up' = FALSE /\ upsets' = upsets + 1 /\ killed' = TRUE
    /\ second' = FALSE /\ timer' = <<>> /\ rel' = <<>> /\ late' = {}
    /\ arming' = {} /\ missed' = {}
    /\ thread' = [t \in Thread |-> Idle]
    /\ UNCHANGED <<elapsed, wall, paused, sim, price, items, waited, disk, life, calls>>

(* The disk fails an append: the log takes no more until a restart.        *)
DiskFault ==
    /\ up /\ ~broken /\ upsets < MaxUpsets
    /\ broken' = TRUE /\ upsets' = upsets + 1
    /\ UNCHANGED <<clock, up, sim, price, news, thread, log, life, calls, killed>>

(* Recover: what is left of the head start on the wall clock; without one  *)
(* any more, the public gets it now.                                       *)
LeftOver(i) == IF Tiered(items[i].story) THEN Lead - waited[i] ELSE 0

RecoverMutant(unread) == {i \in unread : LeftOver(i) <= 0}

(* Of the items the public has not got, those it gets right now.           *)
Recover(unread) == {i \in unread : LeftOver(i) <= 0 /\ ~paused}

(* restore: nobody is told of what Recover delivers, and it is not stored. *)
Restart ==
    /\ ~up /\ up' = TRUE /\ broken' = FALSE
    /\ sim' = log.sim /\ price' = log.price
    /\ LET unread == {i \in DOMAIN log.news : ~log.news[i].pub}
           ready  == Recover(unread)
       IN  /\ rel' = [i \in DOMAIN log.news |->
                        IF i \in ready THEN [log.news[i] EXCEPT !.pub = TRUE] ELSE log.news[i]]
           /\ timer' = [i \in unread \ ready |-> Wait(Greater(LeftOver(i), 0))]
           /\ arming' = unread \ ready
    /\ UNCHANGED <<clock, items, waited, missed, late, thread, log, life, bounds>>

(* resetState, of these parts, and its record; requests are not waited for, *)
(* and a timer that the dispatcher does not know yet is not stopped.        *)
Reset ==
    /\ up /\ upsets < MaxUpsets
    /\ upsets' = upsets + 1 /\ life' = life + 1
    /\ elapsed' = 0 /\ paused' = FALSE
    /\ sim' = NewSim /\ price' = Opening
    /\ rel' = <<>> /\ missed' = {}
    /\ timer' = [i \in DOMAIN timer \cap arming |-> timer[i]]
    /\ ~broken /\ log' = [news |-> <<>>, sim |-> NewSim, price |-> Opening]
    /\ UNCHANGED <<wall, second, up, items, waited, arming, late, thread, broken, calls,
                   killed>>

Step(t) == Publish(t) \/ Everyone(t) \/ NotePublic(t) \/ Copy(t) \/ Finish(t)

ItemStep(i) == Register(i) \/ Wake(i) \/ Overslept(i) \/ NoteLate(i)

Next ==
    \/ Advance \/ Tick \/ Pause \/ Resume \/ Kill \/ DiskFault \/ Restart \/ Reset
    \/ \E c \in Organiser, w \in Wants : Request(c, w)
    \/ \E t \in Thread : Step(t)
    \/ \E i \in DOMAIN items : ItemStep(i)

Spec == Init /\ [][Next]_vars

(* Time goes by, threads and timers run, and a paused event is resumed. *)
FairSpec ==
    /\ Spec
    /\ WF_vars(Tick) /\ WF_vars(Advance) /\ WF_vars(Resume) /\ WF_vars(Restart)
    /\ WF_vars(\E t \in Thread : Step(t))
    /\ WF_vars(\E i \in DOMAIN items : ItemStep(i))

-----------------------------------------------------------------------------
(* Properties *)

TypeOK ==
    /\ elapsed \in 0 .. Close /\ wall \in 0 .. MaxWall
    /\ {paused, up, second, broken} \subseteq BOOLEAN
    /\ DOMAIN rel \subseteq DOMAIN items /\ DOMAIN timer \subseteq DOMAIN items
    /\ DOMAIN waited = DOMAIN items /\ arming \cup missed \subseteq DOMAIN items
    /\ Len(items) <= MaxItems
    /\ \A t \in Thread : thread[t].at \in
          {"idle", "publish", "public", "arming", "noting"}
    /\ sim.fired \subseteq Desk \cup ToSet(Schedule)

(* A story is published once in an event, whoever fires it - its time, an  *)
(* organiser, or the list of what is overdue - unless the process was      *)
(* killed before the engine's state was saved.                             *)
FiredOnce ==
    \A i, j \in DOMAIN items :
        i # j /\ items[i].story \notin Desk /\ items[i].story = items[j].story
            => items[i].life # items[j].life \/ killed

(* "Exactly once" (fireDueLocked), kills or not. *)
ExactlyOnce ==
    \A i, j \in DOMAIN items :
        i # j /\ items[i].story \notin Desk => items[i].story # items[j].story
                                                \/ items[i].life # items[j].life

(* The public gets a story of Phase 2 no earlier than the whole head start *)
(* after the fund managers did, and never while the event is paused;       *)
(* unless Phase 2 was over when a restart found the story waiting.         *)
HeadStart ==
    [][\A i \in DOMAIN rel' :
         /\ (i \in DOMAIN rel /\ ~rel[i].pub /\ rel'[i].pub /\ items[i].staggered)
            => ~paused /\ (waited[i] >= Lead \/ (killed /\ ~Tiered(items[i].story)))
         /\ (~up /\ rel'[i].pub /\ ~log.news[i].pub)
            => ~paused /\ (waited[i] >= Lead \/ ~Tiered(items[i].story))]_vars


(* In no run, and not true: "every news item goes ... to the public feed   *)
(* ... with ... no exceptions" (news.go:1-3).                              *)
NobodyMissesOut == []<>(\A i \in DOMAIN rel : rel[i].pub)

(* No price is ever off the scenario's limits, whatever shocks meet: never *)
(* below one rupee, and no cap or floor lost to rounding.                  *)
PriceInside ==
    price \notin {Opening} \cup ToSet(Table) =>
        price >= Greater(Floor, Least) /\ (Cap > 0 => price <= Cap)
=============================================================================
