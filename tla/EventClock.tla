------------------------------ MODULE EventClock ------------------------------
(***************************************************************************)
(* The event's clock (eventclock.Clock) and what app does around it: the   *)
(* organisers' operations, each of which changes the clock and then saves  *)
(* it, the ticks that announce the blocks entered (App.onTransition: the   *)
(* freeze of the standings, the checkpoints, another save), the death of   *)
(* the process and the restart from what was saved.                        *)
(*                                                                         *)
(* Indices count from 1: 0 is before the start, one more than the number   *)
(* of blocks is after the end.  A block is [id, len, window, freeze];      *)
(* window and freeze may be None.                                          *)
(***************************************************************************)
EXTENDS Integers, Sequences, SequencesExt, FiniteSets

CONSTANTS
    Template,    \* the rulebook's timeline
    Organiser,   \* the organisers' requests, one operation each
    Plan,        \* what each of them asks for, [Organiser -> [do, ...]]: the choices
    Window,      \* the numbers of the allocation windows
    Runner,      \* the goroutine that ticks once a second
    None,
    MaxTime, MaxKills, MayBreak     \* bounds on the environment

Actor == Organiser \cup {Runner}

IsTimeline(blocks) ==
    blocks \in Seq(Range(blocks)) /\ \A i \in DOMAIN blocks : blocks[i].len \in Nat

ASSUME EventClockAssumption ==
    /\ Runner \notin Organiser
    /\ IsTimeline(Template)
    /\ \A p \in Plan : \A o \in Organiser :
          /\ p[o].do = "schedule" => IsTimeline(p[o].blocks)
          /\ p[o].do = "length" => p[o].len \in Nat
    /\ MaxTime \in Nat /\ MaxKills \in Nat /\ MayBreak \in BOOLEAN

VARIABLES
    now,
    clock,     \* the live clock: the fields of eventclock.State
    saved,     \* the clock in the log's newest clock record, a fresh one if there is none
    snaps,     \* App.snapshots: name -> when the values were taken
    stored,    \* the snapshots in the log
    checks,    \* the checkpoints taken, oldest first: [name, at]
    formed,    \* the funds are formed
    broken,    \* the log takes no more records
    order,     \* what each organiser asks for
    pc,        \* where each actor is
    target,    \* ClockNext's local: the block it read as the next one
    due,       \* the transitions each actor has still to deliver
    told,      \* the indices delivered to the listener since the start
    kills

event == <<snaps, stored, checks, formed>>
vars  == <<now, clock, saved, event, broken, order, pc, target, due, told, kills>>

Lengths(blocks) == [i \in DOMAIN blocks |-> blocks[i].len]

NoOverride == [frozen |-> FALSE, market |-> None, windows |-> [w \in Window |-> None]]

FreshClock ==
    [started |-> FALSE, startedAt |-> 0, offset |-> 0, paused |-> FALSE,
     pausedAt |-> 0, dur |-> Lengths(Template), last |-> 0, ov |-> NoOverride,
     blocks |-> Template]

Init ==
    /\ now = 0
    /\ clock = FreshClock /\ saved = FreshClock
    /\ snaps = <<>> /\ stored = <<>> /\ checks = <<>> /\ formed = FALSE
    /\ broken = FALSE
    /\ order \in Plan
    /\ pc = [x \in Actor |-> "idle"]
    /\ target = [o \in Organiser |-> None]
    /\ due = [x \in Actor |-> <<>>]
    /\ told = <<>>
    /\ kills = 0

-----------------------------------------------------------------------------
(* Where the event is.  A definition named ...Mutant is a plausible bug in *)
(* the one after it; only the mutation runs use it.                        *)
Elapsed(c, t) == (IF c.paused THEN c.pausedAt ELSE t) - c.startedAt + c.offset

(* When block i starts: the length of the blocks before it. *)
StartOf(c, i) == FoldLeft(+, 0, SubSeq(c.dur, 1, i - 1))

Index(c, t) ==
    IF ~c.started THEN 0
    ELSE LET entered == {i \in DOMAIN c.dur : StartOf(c, i + 1) <= Elapsed(c, t)}
         IN  Cardinality(entered) + 1

IndexOf(c, id) == {i \in DOMAIN c.blocks : c.blocks[i].id = id}

Running(c) == c.started /\ ~c.paused

Ended(c, t) == Index(c, t) > Len(c.dur)

(* Allocation window w takes money: its block is on, or it is forced. *)
WindowOpen(c, t, w) ==
    /\ Running(c)
    /\ IF c.ov.windows[w] # None THEN c.ov.windows[w] = "open"
       ELSE ~Ended(c, t) /\ c.blocks[Index(c, t)].window = w

WindowCount(blocks) ==
    LET held == {blocks[i].window : i \in DOMAIN blocks} \ {None}
    IN  IF held = {} THEN 0 ELSE 1 + CHOOSE w \in held : \A v \in held : v <= w

-----------------------------------------------------------------------------
(* The operations of the clock: what each does when it is allowed.  What   *)
(* is refused changes nothing and is left out.                             *)
To(x, state) == pc' = [pc EXCEPT ![x] = state]

(* The organiser's operation changes the clock, and will save it. *)
Change(o, c) ==
    /\ clock' = c
    /\ To(o, "changed")
    /\ UNCHANGED <<now, saved, event, broken, order, target, due, told, kills>>

Asks(o, what) == pc[o] = "idle" /\ order[o].do = what

Start(o) ==
    /\ Asks(o, "start") /\ ~clock.started
    /\ Change(o, [clock EXCEPT !.started = TRUE, !.startedAt = now])

(* Start at a chosen block: those before it count as done. *)
AtBlock(c, i) ==
    [c EXCEPT !.started = TRUE, !.paused = FALSE, !.startedAt = now,
              !.offset = StartOf(c, i), !.last = i - 1]

StartAt(o) ==
    /\ Asks(o, "startAt") /\ ~clock.started
    /\ \E i \in IndexOf(clock, order[o].block) : Change(o, AtBlock(clock, i))

Pause(o) ==
    /\ Asks(o, "pause") /\ Running(clock)
    /\ Change(o, [clock EXCEPT !.paused = TRUE, !.pausedAt = now])

UnpausedMutant(c) == [c EXCEPT !.paused = FALSE]

(* The origin moves by the time lost, so that elapsed time stood still. *)
Unpaused(c) == [c EXCEPT !.paused = FALSE, !.startedAt = @ + (now - c.pausedAt)]

(* The time lost may be taken from a later block, down to one minute. *)
Resume(o) ==
    /\ Asks(o, "resume") /\ clock.started /\ clock.paused
    /\ \/ /\ order[o].compress = None
          /\ Change(o, Unpaused(clock))
       \/ \E i \in IndexOf(clock, order[o].compress) :
             LET lost == now - clock.pausedAt
                 room == clock.dur[i] - 1
             IN  /\ i > Index(clock, now)
                 /\ Change(o, [Unpaused(clock) EXCEPT !.dur[i] =
                                   @ - (IF lost < room THEN lost ELSE room)])

JumpedTo(c, i) == [c EXCEPT !.offset = @ + StartOf(c, i) - Elapsed(c, now)]

JumpTo(o) ==
    /\ Asks(o, "jump") /\ clock.started
    /\ \E i \in IndexOf(clock, order[o].block) : Change(o, JumpedTo(clock, i))

Nudge(o) ==
    /\ Asks(o, "nudge") /\ clock.started
    /\ Change(o, [clock EXCEPT !.offset = @ + order[o].by])

ChangeableMutant(i, d) == TRUE

(* A finished block is fixed, and the one in progress has run so long. *)
Changeable(i, d) ==
    clock.started => /\ ~Ended(clock, now) /\ i >= Index(clock, now)
                     /\ i = Index(clock, now) =>
                            d >= Elapsed(clock, now) - StartOf(clock, i)

SetBlockDuration(o) ==
    /\ Asks(o, "length")
    /\ \E i \in IndexOf(clock, order[o].block) :
          /\ Changeable(i, order[o].len)
          /\ Change(o, [clock EXCEPT !.dur[i] = order[o].len])

End(o) ==
    /\ Asks(o, "end") /\ clock.started
    /\ Change(o, JumpedTo(clock, Len(clock.dur) + 1))

SetFrozen(o) ==
    /\ Asks(o, "frozen")
    /\ Change(o, [clock EXCEPT !.ov.frozen = order[o].on])

SetMarketOverride(o) ==
    /\ Asks(o, "market")
    /\ Change(o, [clock EXCEPT !.ov.market = order[o].open])

SetWindowOverride(o) ==
    /\ Asks(o, "window") /\ order[o].window < WindowCount(clock.blocks)
    /\ Change(o, [clock EXCEPT !.ov.windows[order[o].window] = order[o].open])

(* validateBlocks: the names and the windows are given once each. *)
Valid(blocks) ==
    LET windowed == {i \in DOMAIN blocks : blocks[i].window # None}
    IN  /\ blocks # <<>> /\ \A i \in DOMAIN blocks : blocks[i].len >= 1
        /\ \A i, j \in DOMAIN blocks : blocks[i].id = blocks[j].id => i = j
        /\ \A i, j \in windowed : blocks[i].window = blocks[j].window => i = j

(* The organiser's blocks, or the rulebook's. *)
Wanted(o) == IF order[o].do = "template" THEN Template ELSE order[o].blocks

(* A new schedule: the clock stays where it is in time, and what is behind *)
(* it, or on now, is not announced.                                        *)
SetSchedule(o) ==
    LET blocks == Wanted(o)
        kept   == [clock.ov EXCEPT !.windows =
                      [w \in Window |-> IF w < WindowCount(blocks) THEN @[w] ELSE None]]
        moved  == [clock EXCEPT !.blocks = blocks, !.dur = Lengths(blocks), !.ov = kept]
        at     == Index(moved, now)
    IN  /\ Asks(o, "schedule") \/ Asks(o, "template")
        /\ Valid(blocks)
        /\ Change(o, [moved EXCEPT !.last = IF at > Len(blocks) THEN Len(blocks) ELSE at])

-----------------------------------------------------------------------------
(* App.ClockNext: one step on, under a lock of its own. *)
StepLockedMutant == FALSE

StepLocked == \E o \in Organiser :
    /\ order[o].do = "next"
    /\ pc[o] \notin {"idle", "done", "refused", "lost"}

(* The event has not moved on since the button for this step was shown. *)
IsNext(to) ==
    LET n == Index(clock, now) + 1
    IN  to # None => n \in DOMAIN clock.blocks /\ clock.blocks[n].id = to

ReadNext(o) ==
    LET n == Index(clock, now) + 1
    IN  /\ Asks(o, "next") /\ ~StepLocked
        /\ IF IsNext(order[o].to) /\ ~clock.paused /\ n \in DOMAIN clock.blocks
              /\ (clock.started /\ clock.blocks[n].window # None => formed)
           THEN /\ target' = [target EXCEPT ![o] = clock.blocks[n].id]
                /\ To(o, IF clock.started THEN "stepping" ELSE "starting")
           ELSE To(o, "refused") /\ UNCHANGED target
        /\ UNCHANGED <<now, clock, saved, event, broken, order, due, told, kills>>

(* The step itself: start at the first block, or jump to the block read. *)
Step(o) ==
    \/ /\ pc[o] = "starting" /\ ~clock.started
       /\ Change(o, AtBlock(clock, 1))
    \/ /\ pc[o] = "stepping" /\ clock.started
       /\ \E i \in IndexOf(clock, target[o]) : Change(o, JumpedTo(clock, i))
    \/ /\ \/ pc[o] = "starting" /\ clock.started
          \/ pc[o] = "stepping" /\ (~clock.started \/ IndexOf(clock, target[o]) = {})
       /\ To(o, "refused")
       /\ UNCHANGED <<now, clock, saved, event, broken, order, target, due, told, kills>>

-----------------------------------------------------------------------------
(* Saving and announcing *)

PersistedMutant(x) ==
    IF x = Runner THEN saved ELSE clock

(* persistClock: what the log's newest clock record says of the clock. *)
Persisted(x) == clock

TicksItself(o) == order[o].do \in {"startAt", "next"}

(* The operation saves the clock it changed; a step is announced at once. *)
Persist(o) ==
    /\ pc[o] = "changed"
    /\ saved' = IF broken THEN saved ELSE Persisted(o)
    /\ To(o, IF TicksItself(o) THEN "ticking" ELSE "done")
    /\ UNCHANGED <<now, clock, event, broken, order, target, due, told, kills>>

Rest(x) == IF x = Runner THEN "idle" ELSE "done"

LastAnnouncedMutant(upto) == clock.last

(* The newest block whose transition has been handed out. *)
LastAnnounced(upto) == IF upto > clock.last THEN upto ELSE clock.last

(* Tick: every block entered since the last one is due, in order. *)
Tick(x) ==
    LET at   == Index(clock, now)
        upto == IF at > Len(clock.dur) THEN Len(clock.dur) ELSE at
        new  == IF upto > clock.last THEN upto - clock.last ELSE 0
    IN  /\ \/ x = Runner /\ pc[x] = "idle" /\ clock.started /\ new > 0
           \/ x # Runner /\ pc[x] = "ticking"
        /\ clock' = [clock EXCEPT !.last = LastAnnounced(upto)]
        /\ due' = [due EXCEPT ![x] =
                      [k \in 1 .. new |-> [index |-> clock.last + k, values |-> None,
                                           block |-> clock.blocks[clock.last + k]]]]
        /\ To(x, IF new > 0 THEN "announcing" ELSE Rest(x))
        /\ UNCHANGED <<now, saved, event, broken, order, target, told, kills>>

Block(x) == Head(due[x]).block
Place(x) == Head(due[x]).index

TakenMutant(name) == FALSE

Taken(name) == name \in DOMAIN snaps

(* onTransition begins.  takeSnapshot first asks if it has been taken. *)
Announce(x) ==
    /\ pc[x] = "announcing"
    /\ told' = IF Place(x) = 0 THEN told ELSE Append(told, Place(x))
    /\ To(x, IF Block(x).freeze = None \/ Taken(Block(x).freeze)
             THEN "window" ELSE "freezing")
    /\ UNCHANGED <<now, clock, saved, event, broken, order, target, due, kills>>

With(f, k, v) == [j \in DOMAIN f \cup {k} |-> IF j = k THEN v ELSE f[j]]

(* The values of now become the snapshot ... *)
Freeze(x) ==
    /\ pc[x] = "freezing"
    /\ snaps' = With(snaps, Block(x).freeze, now)
    /\ due' = [due EXCEPT ![x][1].values = now]
    /\ To(x, "storing")
    /\ UNCHANGED <<now, clock, saved, stored, checks, formed, broken, order, target,
                   told, kills>>

(* ... and the log has it, unless the append fails, which is only noted. *)
StoreSnapshot(x) ==
    /\ pc[x] = "storing"
    /\ stored' = IF broken THEN stored
                 ELSE With(stored, Block(x).freeze, Head(due[x]).values)
    /\ To(x, "window")
    /\ UNCHANGED <<now, clock, saved, snaps, checks, formed, broken, order, target,
                   due, told, kills>>

CheckpointedMutant(name) == FALSE

Checkpointed(name) == \E i \in DOMAIN checks : checks[i].name = name

(* takeCheckpoint, under the funds' lock: once per name. *)
TakeCheckpoint(name) ==
    checks' = IF formed /\ ~broken /\ ~Checkpointed(name)
              THEN Append(checks, [name |-> name, at |-> now]) ELSE checks

ClosedBlockMutant(x) == Place(x)

(* The block that ended when this one was entered. *)
ClosedBlock(x) == Place(x) - 1

(* It was a window, in the schedule of this moment: its close is a         *)
(* checkpoint.                                                             *)
CloseWindow(x) ==
    LET i == ClosedBlock(x)
    IN  /\ pc[x] = "window"
        /\ IF i > 0 /\ i <= Len(clock.blocks) /\ clock.blocks[i].window # None
           THEN TakeCheckpoint(<<"window", clock.blocks[i].window>>) ELSE UNCHANGED checks
        /\ To(x, "final")
        /\ UNCHANGED <<now, clock, saved, snaps, stored, formed, broken, order, target,
                       due, told, kills>>

(* The final freeze is a checkpoint too; then the clock is saved and the   *)
(* next transition is delivered.                                           *)
Finish(x) ==
    /\ pc[x] = "final"
    /\ IF Block(x).freeze = "final" THEN TakeCheckpoint(<<"final", 0>>) ELSE UNCHANGED checks
    /\ saved' = IF broken \/ Place(x) = 0 THEN saved ELSE Persisted(x)
    /\ due' = [due EXCEPT ![x] = Tail(@)]
    /\ To(x, IF Len(due[x]) > 1 THEN "announcing" ELSE Rest(x))
    /\ UNCHANGED <<now, clock, snaps, stored, formed, broken, order, target, told, kills>>

(* TakeSnapshot: an organiser freezes the standings by hand. *)
TakeSnapshot(o) ==
    /\ Asks(o, "freeze") /\ order[o].name \notin DOMAIN snaps
    /\ due' = [due EXCEPT ![o] =
                  <<[index |-> 0, values |-> None, block |-> [freeze |-> order[o].name]]>>]
    /\ To(o, "announcing")
    /\ UNCHANGED <<now, clock, saved, event, broken, order, target, told, kills>>

-----------------------------------------------------------------------------
(* The world around it *)
Pass ==
    /\ now < MaxTime
    /\ now' = now + 1
    /\ UNCHANGED <<clock, saved, event, broken, order, pc, target, due, told, kills>>

(* FormFunds, from pairs the organisers chose or from the Phase 1 freeze. *)
FormFunds ==
    /\ ~formed /\ ~broken
    /\ formed' = TRUE
    /\ UNCHANGED <<now, clock, saved, snaps, stored, checks, broken, order, pc,
                   target, due, told, kills>>

Break ==
    /\ MayBreak /\ ~broken
    /\ broken' = TRUE
    /\ UNCHANGED <<now, clock, saved, event, order, pc, target, due, told, kills>>

(* The process dies and starts again from the log. *)
Kill ==
    /\ kills < MaxKills
    /\ kills' = kills + 1
    /\ clock' = saved
    /\ snaps' = stored
    /\ broken' = FALSE
    /\ pc' = [x \in Actor |-> IF x = Runner THEN "idle"
                              ELSE IF pc[x] \in {"idle", "done", "refused"} THEN pc[x]
                              ELSE "lost"]
    /\ target' = [o \in Organiser |-> None]
    /\ due' = [x \in Actor |-> <<>>]
    /\ told' = <<>>
    /\ UNCHANGED <<now, saved, stored, checks, formed, order>>

-----------------------------------------------------------------------------
Operation(o) ==
    \/ Start(o) \/ StartAt(o) \/ Pause(o) \/ Resume(o) \/ JumpTo(o) \/ Nudge(o)
    \/ SetBlockDuration(o) \/ End(o) \/ SetSchedule(o)
    \/ SetFrozen(o) \/ SetMarketOverride(o) \/ SetWindowOverride(o)
    \/ ReadNext(o) \/ TakeSnapshot(o)

Deliver(x) ==
    \/ Tick(x) \/ Announce(x) \/ Freeze(x) \/ StoreSnapshot(x) \/ CloseWindow(x)
    \/ Finish(x)

Next ==
    \/ \E o \in Organiser : Operation(o) \/ Step(o) \/ Persist(o)
    \/ \E x \in Actor : Deliver(x)
    \/ Pass \/ FormFunds \/ Break \/ Kill

Spec == Init /\ [][Next]_vars

(* Goroutines that can run do: the runner ticks, and an operation that has *)
(* begun goes on.                                                          *)
Fairness == /\ \A o \in Organiser : WF_vars(Step(o) \/ Persist(o))
            /\ \A x \in Actor : WF_vars(Deliver(x))

FairSpec == Spec /\ Fairness
-----------------------------------------------------------------------------
(* Properties *)

Stages == {"announcing", "freezing", "storing", "window", "final"}

TypeOK ==
    /\ now \in 0 .. MaxTime /\ kills \in 0 .. MaxKills
    /\ clock.last \in 0 .. Len(clock.blocks)
    /\ Len(clock.dur) = Len(clock.blocks) /\ \A i \in DOMAIN clock.dur : clock.dur[i] >= 1
    /\ clock.started => clock.startedAt \in 0 .. now
    /\ clock.paused => clock.started /\ clock.pausedAt \in clock.startedAt .. now
    /\ DOMAIN stored \subseteq {"phase1", "final"}
    /\ formed \in BOOLEAN /\ broken \in BOOLEAN
    /\ pc[Runner] \in {"idle"} \cup Stages
    /\ \A o \in Organiser :
          pc[o] \in {"idle", "starting", "stepping", "changed", "ticking", "done",
                    "refused", "lost"} \cup Stages
    /\ \A x \in Actor : pc[x] \in Stages <=> due[x] # <<>>

(* Nobody is in the middle of anything, and the log works. *)
Settled ==
    /\ ~broken
    /\ pc[Runner] = "idle"
    /\ \A o \in Organiser : pc[o] \in {"idle", "done", "refused", "lost"}

(* Whatever the organisers' operations and the ticks did, and in whatever  *)
(* order they saved it, a restart would find the clock as it is (Restore   *)
(* of the newest persistClock) and the snapshots as they are.              *)
ClockSaved ==
    Settled => clock = saved /\ snaps = stored

(* The start of a block the event is in, or has been through, never moves, *)
(* but for a new schedule: lengths change only ahead of the clock          *)
(* (SetBlockDuration, Resume).                                             *)
PastFixed ==
    [][ /\ clock.started /\ clock'.started
        /\ ~(\E o \in Organiser : SetSchedule(o)) /\ kills' = kills
        => \A i \in 1 .. Index(clock, now) : StartOf(clock', i) = StartOf(clock, i) ]_vars

(* No time passes for the event between a pause and the end of a pause:    *)
(* only an operation that moves the clock on purpose moves it (Resume).    *)
PauseHolds ==
    [][ /\ clock.paused /\ clock'.offset = clock.offset /\ kills' = kills
        => Elapsed(clock', now') = Elapsed(clock, now) ]_vars

(* "A freeze-snapshot block can never be missed" (eventclock.go:43-44):    *)
(* the snapshot of a block counted as announced was taken, or is due from  *)
(* somebody.  A kill and a new schedule both break it.                     *)
NeverMissed ==
    \A i \in 1 .. clock.last :
        clock.blocks[i].freeze = None
        \/ clock.blocks[i].freeze \in DOMAIN snaps
        \/ \E x \in Actor : \E k \in DOMAIN due[x] : due[x][k].index = i

(* The event only goes forward, in one life of the server. *)
Stepping ==
    /\ kills = 0
    /\ \A o \in Organiser :
          order[o].do \in {"startAt", "next", "pause", "resume", "freeze"}

(* A block is announced once, and its freeze is not lost, although the     *)
(* runner and the organisers who step may all tick at the same time and    *)
(* deliver outside the lock (Tick takes what is due under the lock).       *)
EveryBlockOnce ==
    Stepping => /\ NeverMissed
                /\ \A i, j \in DOMAIN told : told[i] = told[j] => i = j

(* "Emitted once for every block the event enters, in order." *)
InOrder == \A i, j \in DOMAIN told : i < j => told[i] < told[j]

(* A stored snapshot is final: no later delivery, of the same block after  *)
(* a crash or by another goroutine, replaces it (takeSnapshot).            *)
FrozenStands == [][\A n \in DOMAIN stored : stored'[n] = stored[n]]_vars

(* Each checkpoint is taken once, however often its transition is          *)
(* delivered (takeCheckpoint): fees are not charged twice.                 *)
CheckpointsOnce ==
    \A i, j \in DOMAIN checks : checks[i].name = checks[j].name => i = j

(* Two organisers who press the button of one step make one step, as long  *)
(* as the event is not moved back (ClockNext: the name of the step it is   *)
(* for, and the lock that is held to the end of it).                       *)
PressedOnce ==
    Stepping =>
        \A o, p \in Organiser :
            /\ order[o].do = "next" /\ pc[o] = "done"
            /\ order[p].do = "next" /\ pc[p] = "done"
            /\ order[o].to = order[p].to /\ order[o].to # None
            => o = p

(* A window whose checkpoint has been taken is shut, as long as the event  *)
(* only goes forward: the close is a hard close (onTransition after        *)
(* WindowOpen has become false).                                           *)
WindowsShut ==
    Stepping =>
        \A w \in Window : Checkpointed(<<"window", w>>) => ~WindowOpen(clock, now, w)

(* The standings of every freeze block the event has entered are frozen    *)
(* and stored, again and again: no tick and no step is lost.               *)
ResultsFreeze ==
    []<>(\A i \in DOMAIN clock.blocks :
            i <= Index(clock, now) /\ clock.blocks[i].freeze # None
            => clock.blocks[i].freeze \in DOMAIN stored)
=============================================================================
