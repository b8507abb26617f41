--------------------------- MODULE EventClockProofs ---------------------------
(***************************************************************************)
(* That no checkpoint is taken twice, no time passes in a pause and the    *)
(* past of the timeline is fixed, for any timeline, organisers, requests   *)
(* and number of kills; and what more holds when the runner alone          *)
(* delivers, or when the event only goes forward.                          *)
(***************************************************************************)
EXTENDS EventClock, Induction, FiniteSetTheorems, SequenceTheorems, TLAPS

(* The blocks of any schedule. *)
Scheduled ==
    Range(Template)
    \cup UNION {UNION {Range(p[o].blocks) : o \in {q \in Organiser : p[q].do = "schedule"}}
                : p \in Plan}

Fields == {"started", "startedAt", "offset", "paused", "pausedAt", "dur", "last", "ov", "blocks"}

(* What a clock is, live or saved. *)
ClockOK(c) ==
    /\ c = [f \in Fields |-> c[f]]
    /\ c.started \in BOOLEAN /\ c.paused \in BOOLEAN /\ (c.paused => c.started)
    /\ c.startedAt \in Int /\ c.pausedAt \in Int
    /\ c.dur \in Seq(Int) /\ c.blocks \in Seq(Scheduled) /\ Len(c.dur) = Len(c.blocks)
    /\ c.last \in Nat

Name == ({"window"} \X {b.window : b \in Scheduled}) \cup {<<"final", 0>>}

Check == [name : Name, at : Nat]

Item == [index : Nat, values : Nat \cup {None}, block : Scheduled]
        \cup [index : {0}, values : Nat \cup {None}, block : [freeze : {p[o].name : p \in Plan, o \in Organiser}]]

State ==
    {"idle", "starting", "stepping", "changed", "ticking", "done", "refused", "lost"} \cup Stages

TypeInv ==
    /\ now \in Nat /\ kills \in Nat
    /\ ClockOK(clock)
    /\ ClockOK(saved)
    /\ checks \in Seq(Check)
    /\ order \in Plan
    /\ pc \in [Actor -> State]
    /\ due \in [Actor -> Seq(Item)]
    /\ \A x \in Actor : pc[x] \in Stages <=> due[x] # <<>>

-----------------------------------------------------------------------------
(* The blocks of a schedule that is asked for are of the kind expected. *)
LEMMA BlocksKnown ==
  /\ Template \in Seq(Scheduled)
  /\ \A b \in Scheduled : b.len \in Nat
  /\ \A p \in Plan, o \in Organiser : p[o].do = "schedule" => p[o].blocks \in Seq(Scheduled)
<1>1. ASSUME NEW s, s \in Seq(Range(s)), Range(s) \subseteq Scheduled PROVE s \in Seq(Scheduled)
  BY <1>1
<1>2. Template \in Seq(Scheduled)
  BY <1>1, EventClockAssumption DEF IsTimeline, Scheduled
<1>3. ASSUME NEW p \in Plan, NEW o \in Organiser, p[o].do = "schedule"
      PROVE  p[o].blocks \in Seq(Scheduled)
  <2>1. p[o].blocks \in Seq(Range(p[o].blocks))
    BY <1>3, EventClockAssumption DEF IsTimeline
  <2>2. Range(p[o].blocks) \subseteq Scheduled
    BY <1>3 DEF Scheduled
  <2>3. QED
    BY <1>1, <2>1, <2>2
<1>4. ASSUME NEW s, IsTimeline(s), NEW b \in Range(s) PROVE b.len \in Nat
  BY <1>4 DEF IsTimeline, Range
<1>5. ASSUME NEW b \in Scheduled PROVE b.len \in Nat
  <2>1. CASE b \in Range(Template)
    BY <1>4, <2>1, EventClockAssumption
  <2>2. CASE \E p \in Plan : \E o \in Organiser : p[o].do = "schedule" /\ b \in Range(p[o].blocks)
    <3>1. PICK p \in Plan : \E o \in Organiser : p[o].do = "schedule" /\ b \in Range(p[o].blocks)
      BY <2>2
    <3>2. PICK o \in Organiser : p[o].do = "schedule" /\ b \in Range(p[o].blocks)
      BY <3>1
    <3>3. IsTimeline(p[o].blocks)
      BY <3>2, EventClockAssumption
    <3>4. QED
      BY <1>4, <3>2, <3>3
  <2>3. QED
    BY <1>5, <2>1, <2>2 DEF Scheduled
<1>6. QED
  BY <1>2, <1>3, <1>5

(* A new schedule's lengths are numbers. *)
LEMMA LengthsOK ==
  ASSUME NEW blocks \in Seq(Scheduled)
  PROVE  Lengths(blocks) \in Seq(Int) /\ Len(Lengths(blocks)) = Len(blocks)
<1>1. \A i \in 1 .. Len(blocks) : blocks[i].len \in Int
  BY BlocksKnown
<1>2. Lengths(blocks) = [i \in 1 .. Len(blocks) |-> blocks[i].len] /\ Len(blocks) \in Nat
  BY DEF Lengths
<1>3. QED
  BY <1>1, <1>2

(* The position of the event is a number, whatever the clock says. *)
LEMMA IndexOK ==
  ASSUME NEW c, ClockOK(c), NEW t
  PROVE  Index(c, t) \in Nat
<1>1. DOMAIN c.dur = 1 .. Len(c.dur) /\ Len(c.dur) \in Nat
  BY DEF ClockOK
<1> DEFINE E == {i \in DOMAIN c.dur : StartOf(c, i + 1) <= Elapsed(c, t)}
<1>2. IsFiniteSet(DOMAIN c.dur)
  BY <1>1, FS_Interval
<1>3. Cardinality(E) \in Nat
  BY <1>2, FS_Subset, FS_CardinalityType
<1>4. Index(c, t) = IF ~c.started THEN 0 ELSE Cardinality(E) + 1
  BY DEF Index
<1> HIDE DEF E
<1>5. QED
  BY <1>3, <1>4

-----------------------------------------------------------------------------
(* Whatever is done to a clock leaves a clock. *)
LEMMA FreshOK == ClockOK(FreshClock)
<1>1. /\ Lengths(Template) \in Seq(Int) /\ Template \in Seq(Scheduled)
      /\ Len(Lengths(Template)) = Len(Template)
  BY BlocksKnown, LengthsOK
<1> DEFINE e == FreshClock
<1>2. e = [f \in Fields |-> e[f]]
  BY DEF FreshClock, Fields
<1>3. /\ e.started = FALSE /\ e.paused = FALSE /\ e.startedAt = 0 /\ e.last = 0
      /\ e.pausedAt = 0 /\ e.dur = Lengths(Template) /\ e.blocks = Template
  BY DEF FreshClock
<1> HIDE DEF e
<1>4. e.started \in BOOLEAN /\ e.paused \in BOOLEAN /\ (e.paused => e.started)
  BY <1>3, Zenon
<1>5. ClockOK(e)
  BY <1>1, <1>2, <1>3, <1>4 DEF ClockOK
<1>6. QED
  BY <1>5 DEF e

(* A start at a block (StartAt, the first step). *)
LEMMA AtBlockOK ==
  ASSUME NEW c, ClockOK(c), now \in Nat, NEW i \in Nat \ {0}
  PROVE  ClockOK(AtBlock(c, i)) /\ AtBlock(c, i).started
<1> DEFINE e == AtBlock(c, i)
<1>1. i - 1 \in Nat /\ now \in Int
  OBVIOUS
<1>2. e = [f \in Fields |-> e[f]]
  BY DEF AtBlock, ClockOK, Fields
<1>3. /\ e.started = TRUE /\ e.paused = FALSE /\ e.startedAt = now /\ e.last = i - 1
      /\ e.pausedAt = c.pausedAt /\ e.dur = c.dur /\ e.blocks = c.blocks
  BY DEF AtBlock, ClockOK, Fields
<1> HIDE DEF e
<1>4. ClockOK(e)
  BY <1>1, <1>2, <1>3 DEF ClockOK
<1>5. QED
  BY <1>3, <1>4 DEF e

(* The start. *)
LEMMA StartOK ==
  ASSUME NEW c, ClockOK(c), now \in Nat
  PROVE  ClockOK([c EXCEPT !.started = TRUE, !.startedAt = now])
<1> DEFINE e == [c EXCEPT !.started = TRUE, !.startedAt = now]
<1>1. e = [f \in Fields |-> e[f]]
  BY DEF ClockOK, Fields
<1>2. /\ e.started = TRUE /\ e.paused = c.paused /\ e.startedAt = now /\ e.last = c.last
      /\ e.pausedAt = c.pausedAt /\ e.dur = c.dur /\ e.blocks = c.blocks
  BY DEF ClockOK, Fields
<1> HIDE DEF e
<1>3. e.started \in BOOLEAN /\ e.paused \in BOOLEAN /\ (e.paused => e.started)
  BY <1>2, Zenon DEF ClockOK
<1>4. ClockOK(e)
  BY <1>1, <1>2, <1>3 DEF ClockOK
<1>5. QED
  BY <1>4 DEF e

(* A pause. *)
LEMMA PauseOK ==
  ASSUME NEW c, ClockOK(c), c.started, now \in Nat
  PROVE  ClockOK([c EXCEPT !.paused = TRUE, !.pausedAt = now])
<1> DEFINE e == [c EXCEPT !.paused = TRUE, !.pausedAt = now]
<1>1. e = [f \in Fields |-> e[f]]
  BY DEF ClockOK, Fields
<1>2. /\ e.started = c.started /\ e.paused = TRUE /\ e.startedAt = c.startedAt /\ e.last = c.last
      /\ e.pausedAt = now /\ e.dur = c.dur /\ e.blocks = c.blocks
  BY DEF ClockOK, Fields
<1> HIDE DEF e
<1>3. e.started \in BOOLEAN /\ e.paused \in BOOLEAN /\ (e.paused => e.started)
  BY <1>2, Zenon DEF ClockOK
<1>4. ClockOK(e)
  BY <1>1, <1>2, <1>3 DEF ClockOK
<1>5. QED
  BY <1>4 DEF e

(* A jump. *)
LEMMA JumpedToOK ==
  ASSUME NEW c, ClockOK(c), NEW i
  PROVE  ClockOK(JumpedTo(c, i))
BY DEF JumpedTo, ClockOK, Fields

(* The end of a pause. *)
LEMMA UnpausedOK ==
  ASSUME NEW c, ClockOK(c), now \in Nat
  PROVE  ClockOK(Unpaused(c)) /\ Unpaused(c).dur = c.dur /\ Unpaused(c).blocks = c.blocks
<1>1. c.startedAt + (now - c.pausedAt) \in Int
  BY DEF ClockOK
<1>2. QED
  BY <1>1 DEF Unpaused, ClockOK, Fields

(* A block's new length. *)
LEMMA LengthOK ==
  ASSUME NEW c, ClockOK(c), NEW i \in 1 .. Len(c.blocks), NEW d \in Int
  PROVE  ClockOK([c EXCEPT !.dur[i] = d])
<1>1. [c.dur EXCEPT ![i] = d] \in Seq(Int) /\ Len([c.dur EXCEPT ![i] = d]) = Len(c.dur)
  BY DEF ClockOK
<1>2. QED
  BY <1>1 DEF ClockOK, Fields

(* What a tick does to the clock. *)
LEMMA AnnouncedOK ==
  ASSUME NEW c, ClockOK(c), NEW l \in Nat
  PROVE  ClockOK([c EXCEPT !.last = l])
BY DEF ClockOK, Fields

(* An organiser's operation, or the second half of ClockNext. *)
LEMMA OperationClock ==
  ASSUME TypeInv, NEW o \in Organiser, Operation(o) \/ Step(o)
  PROVE  ClockOK(clock')
<1> DEFINE c == clock
<1>0. ClockOK(c) /\ now \in Nat
  BY DEF TypeInv
<1>1. CASE Start(o)
  BY <1>0, <1>1, StartOK DEF Start, Change
<1>2. CASE StartAt(o)
  <2>1. PICK i \in IndexOf(c, order[o].block) : clock' = AtBlock(c, i)
    BY <1>2 DEF StartAt, Change
  <2>2. i \in Nat \ {0}
    BY <1>0 DEF IndexOf, ClockOK
  <2>3. QED
    BY <1>0, <2>1, <2>2, AtBlockOK
<1>3. CASE Pause(o)
  BY <1>0, <1>3, PauseOK DEF Pause, Running, Change
<1>4. CASE Resume(o)
  <2>1. CASE clock' = Unpaused(c)
    BY <1>0, <2>1, UnpausedOK
  <2>2. CASE \E i \in IndexOf(c, order[o].compress) :
             LET lost == now - c.pausedAt
                 room == c.dur[i] - 1
             IN  clock' = [Unpaused(c) EXCEPT !.dur[i] =
                                   @ - (IF lost < room THEN lost ELSE room)]
    <3>1. PICK i \in IndexOf(c, order[o].compress) :
             LET lost == now - c.pausedAt
                 room == c.dur[i] - 1
             IN  clock' = [Unpaused(c) EXCEPT !.dur[i] =
                                   @ - (IF lost < room THEN lost ELSE room)]
      BY <2>2
    <3>2. i \in 1 .. Len(c.blocks)
      BY <1>0 DEF IndexOf, ClockOK
    <3> DEFINE u == Unpaused(c)
    <3>3. PICK d : d = u.dur[i] - (IF now - c.pausedAt < c.dur[i] - 1 THEN now - c.pausedAt
                                   ELSE c.dur[i] - 1)
      OBVIOUS
    <3>4. clock' = [u EXCEPT !.dur[i] = d]
      BY <3>1, <3>3
    <3>5. ClockOK(u) /\ u.dur = c.dur /\ u.blocks = c.blocks
      BY <1>0, UnpausedOK
    <3> HIDE DEF u
    <3>6. c.dur[i] \in Int /\ now - c.pausedAt \in Int
      BY <1>0, <3>2 DEF ClockOK
    <3>7. d \in Int /\ i \in 1 .. Len(u.blocks)
      BY <3>2, <3>3, <3>5, <3>6
    <3>8. QED
      BY <3>4, <3>5, <3>7, LengthOK
  <2>3. QED
    BY <1>4, <2>1, <2>2 DEF Resume, Change
<1>5. CASE JumpTo(o)
  BY <1>0, <1>5, JumpedToOK DEF JumpTo, Change
<1>6. CASE Nudge(o)
  BY <1>0, <1>6 DEF Nudge, Change, ClockOK, Fields
<1>7. CASE SetBlockDuration(o)
  <2>1. order[o].len \in Int
    BY <1>7, EventClockAssumption DEF SetBlockDuration, Asks, TypeInv
  <2>2. PICK i \in IndexOf(c, order[o].block) : clock' = [c EXCEPT !.dur[i] = order[o].len]
    BY <1>7 DEF SetBlockDuration, Change
  <2>3. i \in 1 .. Len(c.blocks)
    BY <1>0 DEF IndexOf, ClockOK
  <2>4. QED
    BY <1>0, <2>1, <2>2, <2>3, LengthOK
<1>8. CASE End(o)
  BY <1>0, <1>8, JumpedToOK DEF End, Change
<1>9. CASE SetSchedule(o)
  <2>1. Wanted(o) \in Seq(Scheduled)
    BY <1>9, BlocksKnown DEF SetSchedule, Wanted, Asks, TypeInv
  <2>2. /\ Lengths(Wanted(o)) \in Seq(Int) /\ Len(Lengths(Wanted(o))) = Len(Wanted(o))
        /\ Len(Wanted(o)) \in Nat
    BY <2>1, LengthsOK
  <2>3. PICK m, l : /\ m.blocks = Wanted(o) /\ clock' = [m EXCEPT !.last = l]
                    /\ ClockOK(m) /\ l \in Nat
    <3>1. PICK ov : ov = [c.ov EXCEPT !.windows =
                      [w \in Window |-> IF w < WindowCount(Wanted(o)) THEN @[w] ELSE None]]
      OBVIOUS
    <3>2. PICK m : m = [c EXCEPT !.blocks = Wanted(o), !.dur = Lengths(Wanted(o)), !.ov = ov]
      OBVIOUS
    <3>3. ClockOK(m) /\ m.blocks = Wanted(o)
      <4>1. m = [f \in Fields |-> m[f]]
        BY <1>0, <3>2 DEF ClockOK, Fields
      <4>2. /\ m.started = c.started /\ m.paused = c.paused /\ m.startedAt = c.startedAt
            /\ m.last = c.last /\ m.pausedAt = c.pausedAt
            /\ m.dur = Lengths(Wanted(o)) /\ m.blocks = Wanted(o)
        BY <1>0, <3>2 DEF ClockOK, Fields
      <4>3. m.started \in BOOLEAN /\ m.paused \in BOOLEAN /\ (m.paused => m.started)
        BY <1>0, <4>2, Zenon DEF ClockOK
      <4>4. QED
        BY <1>0, <2>1, <2>2, <4>1, <4>2, <4>3 DEF ClockOK
    <3>4. PICK l : l = IF Index(m, now) > Len(Wanted(o)) THEN Len(Wanted(o)) ELSE Index(m, now)
      OBVIOUS
    <3>5. l \in Nat
      BY <2>2, <3>3, <3>4, IndexOK
    <3>6. clock' = [m EXCEPT !.last = l]
      BY <1>9, <3>1, <3>2, <3>4 DEF SetSchedule, Change
    <3>7. QED
      BY <3>3, <3>5, <3>6
  <2>4. QED
    BY <2>3, AnnouncedOK
<1>10. CASE SetFrozen(o)
  BY <1>0, <1>10 DEF SetFrozen, Change, ClockOK, Fields
<1>11. CASE SetMarketOverride(o)
  BY <1>0, <1>11 DEF SetMarketOverride, Change, ClockOK, Fields
<1>12. CASE SetWindowOverride(o)
  BY <1>0, <1>12 DEF SetWindowOverride, Change, ClockOK, Fields
<1>13. CASE ReadNext(o) \/ TakeSnapshot(o)
  BY <1>0, <1>13 DEF ReadNext, TakeSnapshot
<1>14. CASE Step(o)
  <2>1. CASE clock' = AtBlock(c, 1)
    BY <1>0, <2>1, AtBlockOK
  <2>2. CASE \E i : clock' = JumpedTo(c, i)
    BY <1>0, <2>2, JumpedToOK
  <2>3. CASE clock' = clock
    BY <1>0, <2>3
  <2>4. QED
    BY <1>14, <2>1, <2>2, <2>3 DEF Step, Change
<1>15. QED
  BY <1>1, <1>2, <1>3, <1>4, <1>5, <1>6, <1>7, <1>8, <1>9, <1>10, <1>11, <1>12, <1>13, <1>14
     DEF Operation

-----------------------------------------------------------------------------
(* Something follows the first of several. *)
LEMMA TailLeft ==
  ASSUME NEW S, NEW s \in Seq(S), s # <<>>
  PROVE  Len(s) > 1 <=> Tail(s) # <<>>
<1>1. Len(s) \in Nat /\ Len(s) # 0 /\ Len(Tail(s)) = Len(s) - 1 /\ Tail(s) \in Seq(S)
  OBVIOUS
<1>2. \A n \in Nat : n # 0 => (n > 1 <=> n - 1 # 0)
  OBVIOUS
<1>3. Len(s) > 1 <=> Len(s) - 1 # 0
  BY <1>1, <1>2, Zenon
<1>4. Len(Tail(s)) # 0 <=> Tail(s) # <<>>
  BY <1>1, EmptySeq
<1>5. QED
  BY <1>1, <1>3, <1>4, Zenon

(* What an actor has to deliver. *)
LEMMA Delivering ==
  ASSUME TypeInv, NEW x \in Actor, pc[x] \in Stages
  PROVE  /\ due[x] \in Seq(Item) /\ due[x] # <<>> /\ Len(due[x]) \in Nat \ {0}
         /\ Head(due[x]) = due[x][1] /\ due[x][1] \in Item
         /\ Place(x) \in Nat /\ Place(x) = due[x][1].index /\ Block(x) = due[x][1].block
         /\ due[x][1].values \in Nat \cup {None}
         /\ Tail(due[x]) \in Seq(Item) /\ (Len(due[x]) > 1 <=> Tail(due[x]) # <<>>)
<1>1. due[x] \in Seq(Item) /\ due[x] # <<>>
  BY DEF TypeInv
<1>2. /\ Len(due[x]) \in Nat \ {0} /\ Head(due[x]) = due[x][1] /\ due[x][1] \in Item
      /\ Tail(due[x]) \in Seq(Item) /\ Len(Tail(due[x])) = Len(due[x]) - 1
  BY <1>1
<1>3. due[x][1].index \in Nat /\ due[x][1].values \in Nat \cup {None}
  BY <1>2 DEF Item
<1>4. Len(due[x]) > 1 <=> Tail(due[x]) # <<>>
  BY <1>1, TailLeft
<1>5. QED
  BY <1>1, <1>2, <1>3, <1>4 DEF Place, Block

(* The transitions a tick hands out. *)
LEMMA Handed ==
  ASSUME TypeInv, NEW x \in Actor, Tick(x)
  PROVE  \E upto \in 0 .. Len(clock.blocks), new \in Nat :
            /\ upto = (IF Index(clock, now) > Len(clock.dur) THEN Len(clock.dur)
                       ELSE Index(clock, now))
            /\ new = IF upto > clock.last THEN upto - clock.last ELSE 0
            /\ clock' = [clock EXCEPT !.last = clock.last + new]
            /\ due' = [due EXCEPT ![x] =
                         [k \in 1 .. new |-> [index |-> clock.last + k, values |-> None,
                                              block |-> clock.blocks[clock.last + k]]]]
            /\ pc' = [pc EXCEPT ![x] = IF new > 0 THEN "announcing" ELSE Rest(x)]
            /\ \/ x = Runner /\ pc[x] = "idle" /\ clock.started /\ new > 0
               \/ x # Runner /\ pc[x] = "ticking"
            /\ \A k \in 1 .. new : clock.last + k \in 1 .. upto
            /\ UNCHANGED <<now, saved, event, broken, order, target, told, kills>>
<1>1. PICK upto : upto = IF Index(clock, now) > Len(clock.dur) THEN Len(clock.dur)
                         ELSE Index(clock, now)
  OBVIOUS
<1>2. PICK new : new = IF upto > clock.last THEN upto - clock.last ELSE 0
  OBVIOUS
<1>3. /\ Len(clock.dur) \in Nat /\ Len(clock.dur) = Len(clock.blocks) /\ clock.last \in Nat
      /\ Index(clock, now) \in Nat
  <2>1. ClockOK(clock)
    BY DEF TypeInv
  <2>2. clock.dur \in Seq(Int) /\ Len(clock.dur) = Len(clock.blocks) /\ clock.last \in Nat
    BY <2>1 DEF ClockOK
  <2>3. Index(clock, now) \in Nat
    BY <2>1, IndexOK
  <2>4. QED
    BY <2>2, <2>3
<1>4. upto \in 0 .. Len(clock.blocks)
  BY <1>1, <1>3
<1>5. new \in Nat /\ \A k \in 1 .. new : clock.last + k \in 1 .. upto
  BY <1>2, <1>3, <1>4
<1>6. LastAnnounced(upto) = clock.last + new
  BY <1>2, <1>3, <1>4 DEF LastAnnounced
<1>7. /\ clock' = [clock EXCEPT !.last = LastAnnounced(upto)]
      /\ due' = [due EXCEPT ![x] =
                   [k \in 1 .. new |-> [index |-> clock.last + k, values |-> None,
                                        block |-> clock.blocks[clock.last + k]]]]
      /\ pc' = [pc EXCEPT ![x] = IF new > 0 THEN "announcing" ELSE Rest(x)]
      /\ \/ x = Runner /\ pc[x] = "idle" /\ clock.started /\ new > 0
         \/ x # Runner /\ pc[x] = "ticking"
      /\ UNCHANGED <<now, saved, event, broken, order, target, told, kills>>
  BY <1>1, <1>2 DEF Tick, To
<1>8. QED
  BY <1>1, <1>2, <1>4, <1>5, <1>6, <1>7

(* A tick hands out transitions of blocks of the schedule. *)
LEMMA TickType ==
  ASSUME TypeInv, NEW x \in Actor, Tick(x)
  PROVE  TypeInv'
<1>1. PICK upto \in 0 .. Len(clock.blocks), new \in Nat :
            /\ clock' = [clock EXCEPT !.last = clock.last + new]
            /\ due' = [due EXCEPT ![x] =
                         [k \in 1 .. new |-> [index |-> clock.last + k, values |-> None,
                                              block |-> clock.blocks[clock.last + k]]]]
            /\ pc' = [pc EXCEPT ![x] = IF new > 0 THEN "announcing" ELSE Rest(x)]
            /\ \A k \in 1 .. new : clock.last + k \in 1 .. upto
            /\ UNCHANGED <<now, saved, event, broken, order, target, told, kills>>
  BY Handed
<1>2. ClockOK(clock) /\ clock.last + new \in Nat
  <2>1. ClockOK(clock)
    BY DEF TypeInv
  <2>2. clock.last \in Nat
    BY <2>1 DEF ClockOK
  <2>3. QED
    BY <2>1, <2>2
<1>3. ClockOK(clock')
  BY <1>1, <1>2, AnnouncedOK
<1> DEFINE s == [k \in 1 .. new |-> [index |-> clock.last + k, values |-> None,
                                     block |-> clock.blocks[clock.last + k]]]
<1>4. s \in Seq(Item) /\ Len(s) = new
  <2>1. ASSUME NEW k \in 1 .. new
        PROVE  [index |-> clock.last + k, values |-> None,
                block |-> clock.blocks[clock.last + k]] \in Item
    <3>1. clock.blocks \in Seq(Scheduled) /\ clock.last \in Nat
      BY <1>2 DEF ClockOK
    <3>2. clock.last + k \in 1 .. Len(clock.blocks)
      BY <1>1, <3>1
    <3>3. clock.last + k \in Nat /\ clock.blocks[clock.last + k] \in Scheduled
      BY <3>1, <3>2
    <3>4. QED
      BY <3>3 DEF Item
  <2>2. Len(s) = new /\ \A k \in 1 .. new : s[k] \in Item
    BY <2>1
  <2>3. s = [k \in 1 .. new |-> s[k]]
    OBVIOUS
  <2> HIDE DEF s
  <2>4. s \in Seq(Item)
    BY <2>2, <2>3
  <2>5. QED
    BY <2>2, <2>4
<1> HIDE DEF s
<1>5. due' = [due EXCEPT ![x] = s]
  BY <1>1 DEF s
<1>6. due' \in [Actor -> Seq(Item)]
  BY <1>4, <1>5 DEF TypeInv
<1>7. pc' \in [Actor -> State] /\ \A y \in Actor : pc'[y] \in Stages <=> due'[y] # <<>>
  <2>1. pc' \in [Actor -> State]
    BY <1>1 DEF TypeInv, State, Stages, Rest
  <2>2. ASSUME NEW y \in Actor PROVE pc'[y] \in Stages <=> due'[y] # <<>>
    <3>1. CASE y # x
      BY <1>1, <1>5, <3>1 DEF TypeInv
    <3>2. CASE y = x /\ new > 0
      <4>1. pc'[y] = "announcing" /\ due'[y] = s
        BY <1>1, <1>5, <3>2 DEF TypeInv
      <4>2. QED
        BY <1>4, <3>2, <4>1 DEF Stages
    <3>3. CASE y = x /\ ~(new > 0)
      <4>1. pc'[y] \in {"idle", "done"} /\ due'[y] = s
        BY <1>1, <1>5, <3>3 DEF TypeInv, Rest
      <4>2. s = <<>>
        BY <1>4, <3>3
      <4>3. QED
        BY <4>1, <4>2 DEF Stages
    <3>4. QED
      BY <3>1, <3>2, <3>3
  <2>3. QED
    BY <2>1, <2>2
<1>8. QED
  BY <1>1, <1>3, <1>6, <1>7 DEF TypeInv, event

(* A checkpoint is one of a window or the final one. *)
LEMMA CheckType ==
  ASSUME TypeInv, NEW name \in Name, TakeCheckpoint(name)
  PROVE  /\ checks' \in Seq(Check)
         /\ CheckpointsOnce => CheckpointsOnce'
<1>1. checks \in Seq(Check) /\ Len(checks) \in Nat /\ DOMAIN checks = 1 .. Len(checks)
  BY DEF TypeInv
<1> DEFINE new == [name |-> name, at |-> now]
<1>2. new \in Check
  BY DEF Check, TypeInv
<1>3. CASE checks' = checks
  BY <1>1, <1>3 DEF CheckpointsOnce
<1>4. CASE checks' = Append(checks, new) /\ ~Checkpointed(name)
  <2>1. /\ checks' \in Seq(Check) /\ Len(checks') = Len(checks) + 1
        /\ \A i \in 1 .. Len(checks) : checks'[i] = checks[i]
        /\ checks'[Len(checks) + 1] = new
        /\ DOMAIN checks' = 1 .. Len(checks) + 1
    BY <1>1, <1>2, <1>4
  <2>2. \A i \in 1 .. Len(checks) : checks[i].name # name
    BY <1>1, <1>4 DEF Checkpointed
  <2>3. new.name = name
    OBVIOUS
  <2> HIDE DEF new
  <2>4. ASSUME CheckpointsOnce, NEW i \in DOMAIN checks', NEW j \in DOMAIN checks',
               checks'[i].name = checks'[j].name
        PROVE  i = j
    <3>1. \A k \in DOMAIN checks' : k \in 1 .. Len(checks) \/ k = Len(checks) + 1
      BY <1>1, <2>1
    <3>2. CASE i \in 1 .. Len(checks) /\ j \in 1 .. Len(checks)
      BY <1>1, <2>1, <2>4, <3>2 DEF CheckpointsOnce
    <3>3. CASE i = Len(checks) + 1 /\ j \in 1 .. Len(checks)
      BY <2>1, <2>2, <2>3, <2>4, <3>3
    <3>4. CASE j = Len(checks) + 1 /\ i \in 1 .. Len(checks)
      BY <2>1, <2>2, <2>3, <2>4, <3>4
    <3>5. QED
      BY <3>1, <3>2, <3>3, <3>4
  <2>5. QED
    BY <2>1, <2>4 DEF CheckpointsOnce
<1>5. QED
  BY <1>3, <1>4 DEF TakeCheckpoint

-----------------------------------------------------------------------------
(* The first transition of an actor, with the values of its snapshot. *)
LEMMA Valued ==
  ASSUME TypeInv, NEW x \in Actor, pc[x] \in Stages, Freeze(x)
  PROVE  /\ due' \in [Actor -> Seq(Item)] /\ Len(due'[x]) = Len(due[x]) /\ due'[x] # <<>>
         /\ Block(x)' = Block(x) /\ Place(x)' = Place(x) /\ due'[x][1].values = now
         /\ \A i \in 1 .. Len(due[x]) : /\ due'[x][i].index = due[x][i].index
                                        /\ due'[x][i].block = due[x][i].block
         /\ \A y \in Actor \ {x} : due'[y] = due[y]
<1> DEFINE e == [due[x][1] EXCEPT !.values = now]
           d == [due[x] EXCEPT ![1] = e]
<1>1. /\ due[x] \in Seq(Item) /\ Len(due[x]) \in Nat \ {0} /\ due[x][1] \in Item
      /\ Place(x) = due[x][1].index /\ Block(x) = due[x][1].block
  BY Delivering
<1>2. now \in Nat \cup {None}
  BY DEF TypeInv
<1>3. /\ e \in Item /\ e.values = now /\ e.index = due[x][1].index /\ e.block = due[x][1].block
  <2> DEFINE N == {p[o].name : p \in Plan, o \in Organiser}
  <2>1. \/ due[x][1] \in [index : Nat, values : Nat \cup {None}, block : Scheduled]
        \/ due[x][1] \in [index : {0}, values : Nat \cup {None}, block : [freeze : N]]
    BY <1>1 DEF Item
  <2> HIDE DEF N
  <2>2. CASE due[x][1] \in [index : Nat, values : Nat \cup {None}, block : Scheduled]
    <3>1. /\ e \in [index : Nat, values : Nat \cup {None}, block : Scheduled]
          /\ e.values = now /\ e.index = due[x][1].index /\ e.block = due[x][1].block
      BY <1>2, <2>2
    <3>2. QED
      BY <3>1 DEF Item
  <2>3. CASE due[x][1] \in [index : {0}, values : Nat \cup {None}, block : [freeze : N]]
    <3>1. /\ e \in [index : {0}, values : Nat \cup {None}, block : [freeze : N]]
          /\ e.values = now /\ e.index = due[x][1].index /\ e.block = due[x][1].block
      BY <1>2, <2>3
    <3>2. QED
      BY <3>1 DEF Item, N
  <2>4. QED
    BY <2>1, <2>2, <2>3
<1> HIDE DEF e
<1>4. /\ d \in Seq(Item) /\ Len(d) = Len(due[x]) /\ d[1] = e
      /\ \A i \in 1 .. Len(due[x]) : i # 1 => d[i] = due[x][i]
  BY <1>1, <1>3
<1>5. due' = [due EXCEPT ![x] = d]
  BY DEF Freeze, e
<1>6. due[x] \in Seq(Item) /\ due \in [Actor -> Seq(Item)]
  BY <1>1 DEF TypeInv
<1> HIDE DEF d
<1>7. due' \in [Actor -> Seq(Item)] /\ due'[x] = d /\ \A y \in Actor \ {x} : due'[y] = due[y]
  BY <1>4, <1>5, <1>6
<1>8. Len(d) \in Nat \ {0}
  BY <1>1, <1>4
<1>9. d # <<>> /\ Head(d) = d[1]
  BY <1>4, <1>8
<1>10. Block(x)' = e.block /\ Place(x)' = e.index
  BY <1>4, <1>7, <1>9 DEF Block, Place
<1>11. ASSUME NEW i \in 1 .. Len(due[x])
       PROVE  d[i].index = due[x][i].index /\ d[i].block = due[x][i].block
  BY <1>3, <1>4
<1>12. QED
  BY <1>1, <1>3, <1>4, <1>7, <1>9, <1>10, <1>11

(* A delivery leaves everything of its type, and charges once. *)
LEMMA DeliverType ==
  ASSUME TypeInv, NEW x \in Actor, Deliver(x)
  PROVE  TypeInv' /\ (CheckpointsOnce => CheckpointsOnce')
<1>1. CASE Tick(x)
  <2>1. checks' = checks
    BY <1>1 DEF Tick, event
  <2>2. QED
    BY <1>1, <2>1, TickType DEF CheckpointsOnce
<1>2. CASE Announce(x)
  BY <1>2 DEF Announce, To, TypeInv, State, Stages, event, CheckpointsOnce
<1>3. CASE Freeze(x)
  <2>1. pc[x] \in Stages /\ pc' = [pc EXCEPT ![x] = "storing"]
        /\ UNCHANGED <<now, clock, saved, stored, checks, formed, broken, order, target, told, kills>>
    BY <1>3 DEF Freeze, To, Stages
  <2>2. due' \in [Actor -> Seq(Item)] /\ due'[x] # <<>> /\ \A y \in Actor \ {x} : due'[y] = due[y]
    BY <1>3, <2>1, Valued
  <2>3. QED
    BY <2>1, <2>2 DEF TypeInv, State, Stages, CheckpointsOnce
<1>4. CASE StoreSnapshot(x)
  BY <1>4 DEF StoreSnapshot, To, TypeInv, State, Stages, CheckpointsOnce
<1>5. CASE CloseWindow(x)
  <2>1. pc[x] \in Stages
    BY <1>5 DEF CloseWindow, Stages
  <2>2. checks' \in Seq(Check) /\ (CheckpointsOnce => CheckpointsOnce')
    <3>1. CASE checks' = checks
      BY <3>1 DEF CheckpointsOnce, TypeInv
    <3>2. CASE LET i == ClosedBlock(x)
               IN  /\ i > 0 /\ i <= Len(clock.blocks)
                   /\ TakeCheckpoint(<<"window", clock.blocks[i].window>>)
      <4>0. Place(x) \in Nat
        BY <2>1, Delivering
      <4>1. PICK i : /\ i = Place(x) - 1 /\ i > 0 /\ i <= Len(clock.blocks)
                     /\ TakeCheckpoint(<<"window", clock.blocks[i].window>>)
        BY <3>2 DEF ClosedBlock
      <4>2. clock.blocks \in Seq(Scheduled)
        BY DEF TypeInv, ClockOK
      <4>3. clock.blocks[i] \in Scheduled
        BY <4>0, <4>1, <4>2
      <4>4. <<"window", clock.blocks[i].window>> \in Name
        BY <4>3 DEF Name
      <4>5. QED
        BY <4>1, <4>4, CheckType
    <3>3. QED
      BY <1>5, <3>1, <3>2 DEF CloseWindow
  <2>3. /\ pc' = [pc EXCEPT ![x] = "final"]
        /\ UNCHANGED <<now, clock, saved, snaps, stored, formed, broken, order, target,
                       due, told, kills>>
    BY <1>5 DEF CloseWindow, To
  <2>4. QED
    BY <2>1, <2>2, <2>3 DEF TypeInv, State, Stages
<1>6. CASE Finish(x)
  <2>1. pc[x] \in Stages
    BY <1>6 DEF Finish, Stages
  <2>2. /\ Tail(due[x]) \in Seq(Item) /\ (Len(due[x]) > 1 <=> Tail(due[x]) # <<>>)
    BY <2>1, Delivering
  <2>3. checks' \in Seq(Check) /\ (CheckpointsOnce => CheckpointsOnce')
    <3>1. CASE checks' = checks
      BY <3>1 DEF CheckpointsOnce, TypeInv
    <3>2. CASE TakeCheckpoint(<<"final", 0>>)
      BY <3>2, CheckType DEF Name
    <3>3. QED
      BY <1>6, <3>1, <3>2 DEF Finish
  <2>4. /\ pc' = [pc EXCEPT ![x] = IF Len(due[x]) > 1 THEN "announcing" ELSE Rest(x)]
        /\ due' = [due EXCEPT ![x] = Tail(due[x])]
        /\ saved' = saved \/ saved' = clock
        /\ UNCHANGED <<now, clock, snaps, stored, formed, broken, order, target, told, kills>>
    BY <1>6 DEF Finish, To, Persisted
  <2>5. due' \in [Actor -> Seq(Item)]
    BY <2>2, <2>4 DEF TypeInv
  <2>6. pc' \in [Actor -> State]
    BY <2>4 DEF TypeInv, State, Stages, Rest
  <2>7. ASSUME NEW y \in Actor PROVE pc'[y] \in Stages <=> due'[y] # <<>>
    BY <2>2, <2>4 DEF TypeInv, Stages, Rest
  <2>8. ClockOK(saved')
    BY <2>4 DEF TypeInv
  <2>9. QED
    BY <2>3, <2>4, <2>5, <2>6, <2>7, <2>8 DEF TypeInv
<1>7. QED
  BY <1>1, <1>2, <1>3, <1>4, <1>5, <1>6 DEF Deliver

-----------------------------------------------------------------------------
(* So do the organisers' operations, steps and saves. *)
LEMMA OrganiserType ==
  ASSUME TypeInv, NEW o \in Organiser, Operation(o) \/ Step(o) \/ Persist(o)
  PROVE  TypeInv' /\ checks' = checks /\ snaps' = snaps /\ stored' = stored /\ broken' = broken
         /\ told' = told /\ kills' = kills
<1>1. CASE TakeSnapshot(o)
  <2> DEFINE s == [index |-> 0, values |-> None, block |-> [freeze |-> order[o].name]]
  <2>1. s \in Item
    BY DEF Item, TypeInv
  <2>2. <<s>> \in Seq(Item) /\ <<s>> # <<>>
    BY <2>1
  <2> HIDE DEF s
  <2>3. due' = [due EXCEPT ![o] = <<s>>] /\ pc' = [pc EXCEPT ![o] = "announcing"]
        /\ UNCHANGED <<now, clock, saved, event, broken, order, target, told, kills>>
    BY <1>1 DEF TakeSnapshot, To, s
  <2>4. due' \in [Actor -> Seq(Item)]
    BY <2>2, <2>3 DEF TypeInv
  <2>5. pc' \in [Actor -> State]
    BY <2>3 DEF TypeInv, State, Stages
  <2>6. ASSUME NEW y \in Actor PROVE pc'[y] \in Stages <=> due'[y] # <<>>
    BY <2>2, <2>3 DEF TypeInv, Actor, Stages
  <2>7. QED
    BY <2>3, <2>4, <2>5, <2>6 DEF TypeInv, event
<1>2. CASE ReadNext(o)
  <2>1. /\ \E s \in {"stepping", "starting", "refused"} : pc' = [pc EXCEPT ![o] = s]
        /\ pc[o] = "idle"
        /\ UNCHANGED <<now, clock, saved, event, broken, order, due, told, kills>>
    BY <1>2 DEF ReadNext, To, Asks
  <2>2. pc' \in [Actor -> State] /\ \A y \in Actor : pc'[y] \in Stages <=> pc[y] \in Stages
    BY <2>1 DEF TypeInv, State, Stages
  <2>3. QED
    BY <2>1, <2>2 DEF TypeInv, event
<1>3. CASE Persist(o)
  BY <1>3 DEF Persist, Persisted, To, TypeInv, State, Stages, event
<1>4. CASE (Operation(o) /\ ~TakeSnapshot(o) /\ ~ReadNext(o)) \/ Step(o)
  <2>1. ClockOK(clock')
    BY <1>4, OperationClock
  <2>2. /\ \E s \in {"changed", "refused"} : pc' = [pc EXCEPT ![o] = s]
        /\ UNCHANGED <<now, saved, event, broken, order, target, due, told, kills>>
    BY <1>4 DEF Operation, Step, Change, To, Start, StartAt, Pause, Resume, JumpTo, Nudge,
                SetBlockDuration, End, SetSchedule, SetFrozen, SetMarketOverride, SetWindowOverride
  <2>3. pc' \in [Actor -> State] /\ \A y \in Actor : pc'[y] \in Stages <=> pc[y] \in Stages
    <3>1. pc[o] \notin Stages
      BY <1>4 DEF Operation, Step, Asks, Stages, Start, StartAt, Pause, Resume, JumpTo, Nudge,
                  SetBlockDuration, End, SetSchedule, SetFrozen, SetMarketOverride,
                  SetWindowOverride
    <3>2. QED
      BY <2>2, <3>1 DEF TypeInv, State, Stages
  <2>4. QED
    BY <2>1, <2>2, <2>3 DEF TypeInv, event
<1>5. QED
  BY <1>1, <1>2, <1>3, <1>4

(* What a restart finds is of its type: it was saved. *)
LEMMA KillType ==
  ASSUME TypeInv, Kill
  PROVE  TypeInv' /\ checks' = checks
<1>1. ClockOK(clock')
  BY DEF Kill, TypeInv
<1>2. pc' \in [Actor -> State] /\ \A x \in Actor : pc'[x] \notin Stages
  BY DEF Kill, TypeInv, State, Stages
<1>3. due' \in [Actor -> Seq(Item)]
  BY DEF Kill
<1>4. QED
  BY <1>1, <1>2, <1>3 DEF Kill, TypeInv

(* So is everything at the start. *)
LEMMA InitType == Init => TypeInv /\ CheckpointsOnce
<1> SUFFICES ASSUME Init PROVE TypeInv /\ CheckpointsOnce
  OBVIOUS
<1>1. ClockOK(clock)
  BY FreshOK DEF Init
<1>2. pc \in [Actor -> State] /\ due \in [Actor -> Seq(Item)] /\ checks \in Seq(Check)
  BY DEF Init, State
<1>3. QED
  BY <1>1, <1>2 DEF Init, TypeInv, CheckpointsOnce, Stages

(* The types, and the checkpoints, over any step. *)
LEMMA NextType == TypeInv /\ [Next]_vars => TypeInv' /\ (CheckpointsOnce => CheckpointsOnce')
<1> SUFFICES ASSUME TypeInv, [Next]_vars PROVE TypeInv' /\ (CheckpointsOnce => CheckpointsOnce')
  OBVIOUS
<1>1. CASE \E o \in Organiser : Operation(o) \/ Step(o) \/ Persist(o)
  BY <1>1, OrganiserType DEF CheckpointsOnce
<1>2. CASE \E x \in Actor : Deliver(x)
  BY <1>2, DeliverType
<1>3. CASE Pass
  BY <1>3 DEF Pass, TypeInv, event, CheckpointsOnce
<1>4. CASE FormFunds \/ Break
  BY <1>4 DEF FormFunds, Break, TypeInv, event, CheckpointsOnce
<1>5. CASE Kill
  BY <1>5, KillType DEF CheckpointsOnce
<1>6. CASE UNCHANGED vars
  BY <1>6 DEF vars, event, TypeInv, CheckpointsOnce
<1>7. QED
  BY <1>1, <1>2, <1>3, <1>4, <1>5, <1>6 DEF Next

(* Every variable that a proof below speaks of keeps its kind; above all   *)
(* the clock is a clock, whatever organisers do to it and whichever saved  *)
(* one a restart takes up, and a paused clock has started.                 *)
THEOREM ClockStands == Spec => []TypeInv
<1>1. QED
  BY InitType, NextType, PTL DEF Spec

(* Each checkpoint is taken once, however often and by however many        *)
(* goroutines its transition is delivered (funds.go takeCheckpoint).       *)
THEOREM ChargedOnce == Spec => []CheckpointsOnce
<1>1. TypeInv /\ CheckpointsOnce /\ [Next]_vars => CheckpointsOnce'
  BY NextType
<1>2. QED
  BY <1>1, InitType, ClockStands, PTL DEF Spec

-----------------------------------------------------------------------------
(* What the organisers' operations and the steps do to the times of the    *)
(* clock: they start it, pause it, resume it, or leave them.               *)
LEMMA TimesMove ==
  ASSUME TypeInv, NEW o \in Organiser, Operation(o) \/ Step(o) \/ Persist(o)
  PROVE  \/ ~clock.started
         \/ ~clock.paused
         \/ /\ clock'.paused = clock.paused /\ clock'.pausedAt = clock.pausedAt
            /\ clock'.startedAt = clock.startedAt
         \/ /\ clock'.paused = FALSE /\ clock'.offset = clock.offset
            /\ clock'.startedAt = clock.startedAt + (now - clock.pausedAt)
<1> DEFINE c == clock
           Same(e) == e.paused = c.paused /\ e.pausedAt = c.pausedAt /\ e.startedAt = c.startedAt
<1>0. c = [f \in Fields |-> c[f]]
  BY DEF TypeInv, ClockOK
<1>1. \A i : Same(JumpedTo(c, i))
  BY <1>0 DEF JumpedTo, Fields
<1>2. /\ Unpaused(c).paused = FALSE /\ Unpaused(c).offset = c.offset
      /\ Unpaused(c).startedAt = c.startedAt + (now - c.pausedAt)
  BY <1>0 DEF Unpaused, Fields
<1>3. CASE Start(o) \/ StartAt(o) \/ (Step(o) /\ pc[o] = "starting" /\ ~c.started)
  BY <1>3 DEF Start, StartAt
<1>4. CASE Pause(o)
  BY <1>4 DEF Pause, Running
<1>5. CASE Resume(o)
  <2>1. CASE clock' = Unpaused(c)
    BY <1>2, <2>1
  <2>2. CASE \E i, d : clock' = [Unpaused(c) EXCEPT !.dur[i] = d]
    <3>1. PICK u : u = Unpaused(c)
      OBVIOUS
    <3>2. u = [f \in Fields |-> u[f]]
      BY <1>0, <3>1 DEF Unpaused, Fields
    <3>3. PICK i, d : clock' = [u EXCEPT !.dur[i] = d]
      BY <2>2, <3>1
    <3>4. clock'.paused = u.paused /\ clock'.offset = u.offset /\ clock'.startedAt = u.startedAt
      BY <3>2, <3>3 DEF Fields
    <3>5. QED
      BY <1>2, <3>1, <3>4
  <2>3. QED
    BY <1>5, <2>1, <2>2 DEF Resume, Change
<1>6. CASE JumpTo(o) \/ End(o) \/ (Step(o) /\ ~(pc[o] = "starting" /\ ~c.started))
  <2>1. (\E i : clock' = JumpedTo(c, i)) \/ clock' = clock
    BY <1>6 DEF JumpTo, End, Step, Change
  <2>2. QED
    BY <1>1, <2>1
<1>7. CASE SetSchedule(o)
  <2>1. \E m, l : clock' = [m EXCEPT !.last = l] /\ Same(m) /\ m = [f \in Fields |-> m[f]]
    <3>1. PICK ov : ov = [c.ov EXCEPT !.windows =
                      [w \in Window |-> IF w < WindowCount(Wanted(o)) THEN @[w] ELSE None]]
      OBVIOUS
    <3>2. PICK m : m = [c EXCEPT !.blocks = Wanted(o), !.dur = Lengths(Wanted(o)), !.ov = ov]
      OBVIOUS
    <3>3. Same(m) /\ m = [f \in Fields |-> m[f]]
      BY <1>0, <3>2 DEF Fields
    <3>4. \E l : clock' = [m EXCEPT !.last = l]
      BY <1>7, <3>1, <3>2 DEF SetSchedule, Change
    <3>5. QED
      BY <3>3, <3>4
  <2>2. PICK m, l : clock' = [m EXCEPT !.last = l] /\ Same(m) /\ m = [f \in Fields |-> m[f]]
    BY <2>1
  <2>3. QED
    BY <2>2 DEF Fields
<1>8. CASE Nudge(o) \/ SetBlockDuration(o)
  BY <1>0, <1>8 DEF Nudge, SetBlockDuration, Change, Fields
<1>9. CASE SetFrozen(o) \/ SetMarketOverride(o) \/ SetWindowOverride(o)
  BY <1>0, <1>9 DEF SetFrozen, SetMarketOverride, SetWindowOverride, Change, Fields
<1>10. CASE ReadNext(o) \/ TakeSnapshot(o) \/ Persist(o)
  BY <1>10 DEF ReadNext, TakeSnapshot, Persist
<1>11. QED
  BY <1>3, <1>4, <1>5, <1>6, <1>7, <1>8, <1>9, <1>10 DEF Operation

(* No time passes for the event from a pause to its end, whoever does what *)
(* to the clock meanwhile and however long the pause is, unless an         *)
(* operation moves the clock on purpose (eventclock.go Resume).            *)
THEOREM PauseLasts == Spec => PauseHolds
<1>1. ASSUME TypeInv, [Next]_vars, clock.paused, clock'.offset = clock.offset, kills' = kills
      PROVE  Elapsed(clock', now') = Elapsed(clock, now)
  <2>1. /\ now \in Nat /\ kills \in Nat /\ clock.started
        /\ clock.startedAt \in Int /\ clock.pausedAt \in Int
    BY <1>1 DEF TypeInv, ClockOK
  <2>2. CASE /\ clock'.paused = clock.paused /\ clock'.pausedAt = clock.pausedAt
             /\ clock'.startedAt = clock.startedAt
    BY <1>1, <2>2 DEF Elapsed
  <2>3. CASE /\ clock'.paused = FALSE /\ now' = now
             /\ clock'.startedAt = clock.startedAt + (now - clock.pausedAt)
    <3>1. now' - clock'.startedAt = clock.pausedAt - clock.startedAt
      BY <2>1, <2>3
    <3>2. QED
      BY <1>1, <2>3, <3>1, Zenon DEF Elapsed
  <2>4. CASE \E o \in Organiser : Operation(o) \/ Step(o) \/ Persist(o)
    <3>1. now' = now
      BY <2>4 DEF Operation, Step, Persist, Change, Start, StartAt, Pause, Resume, JumpTo, Nudge,
                  SetBlockDuration, End, SetSchedule, SetFrozen, SetMarketOverride,
                  SetWindowOverride, ReadNext, TakeSnapshot
    <3>2. QED
      BY <1>1, <2>1, <2>2, <2>3, <2>4, <3>1, TimesMove
  <2>5. CASE \E x \in Actor : Deliver(x)
    <3>1. clock' = clock \/ \E l : clock' = [clock EXCEPT !.last = l]
      BY <2>5 DEF Deliver, Tick, Announce, Freeze, StoreSnapshot, CloseWindow, Finish
    <3>2. clock = [f \in Fields |-> clock[f]]
      BY <1>1 DEF TypeInv, ClockOK
    <3>3. QED
      BY <2>2, <3>1, <3>2 DEF Fields
  <2>6. CASE Pass \/ FormFunds \/ Break \/ UNCHANGED vars
    BY <2>2, <2>6 DEF Pass, FormFunds, Break, vars
  <2>7. CASE Kill
    BY <1>1, <2>1, <2>7 DEF Kill
  <2>8. QED
    BY <1>1, <2>4, <2>5, <2>6, <2>7 DEF Next
<1>2. QED
  BY <1>1, ClockStands, PTL DEF Spec, PauseHolds

-----------------------------------------------------------------------------
(* What the blocks before one take depends on their lengths only. *)
LEMMA SamePast ==
  ASSUME NEW c, ClockOK(c), NEW e, NEW i \in Nat, NEW d, e.dur = [c.dur EXCEPT ![i] = d],
         NEW j \in 1 .. i
  PROVE  StartOf(e, j) = StartOf(c, j)
<1>1. c.dur \in Seq(Int) /\ j - 1 \in Nat /\ i \notin 1 .. j - 1
  BY DEF ClockOK
<1>2. SubSeq(e.dur, 1, j - 1) = SubSeq(c.dur, 1, j - 1)
  <2>1. \A k \in 1 .. j - 1 : e.dur[k] = c.dur[k]
    BY <1>1
  <2>2. SubSeq(e.dur, 1, j - 1) = [k \in 1 .. j - 1 |-> e.dur[k]]
    BY <1>1
  <2>3. SubSeq(c.dur, 1, j - 1) = [k \in 1 .. j - 1 |-> c.dur[k]]
    BY <1>1
  <2>4. QED
    BY <2>1, <2>2, <2>3
<1>3. QED
  BY <1>2, Zenon DEF StartOf

(* The start of a block that is on or over never moves, but for a new      *)
(* schedule (eventclock.go SetBlockDuration, Resume).                      *)
THEOREM PastStands == Spec => PastFixed
<1>1. ASSUME TypeInv, [Next]_vars, clock.started, clock'.started,
             ~(\E o \in Organiser : SetSchedule(o)), kills' = kills
      PROVE  \A j \in 1 .. Index(clock, now) : StartOf(clock', j) = StartOf(clock, j)
  <2> SUFFICES ASSUME NEW j \in 1 .. Index(clock, now)
               PROVE  StartOf(clock', j) = StartOf(clock, j)
    OBVIOUS
  <2>1. ClockOK(clock) /\ Index(clock, now) \in Nat /\ kills \in Nat
    BY <1>1, IndexOK DEF TypeInv
  <2>2. clock = [f \in Fields |-> clock[f]]
    BY <2>1 DEF ClockOK
  <2>3. CASE clock'.dur = clock.dur
    BY <2>3, Zenon DEF StartOf
  <2>4. CASE \E i \in Nat : \E d : i >= Index(clock, now) /\ clock'.dur = [clock.dur EXCEPT ![i] = d]
    <3>0. PICK i \in Nat :
              \E d : i >= Index(clock, now) /\ clock'.dur = [clock.dur EXCEPT ![i] = d]
      BY <2>4
    <3>1. PICK d : i >= Index(clock, now) /\ clock'.dur = [clock.dur EXCEPT ![i] = d]
      BY <3>0
    <3>2. j \in 1 .. i
      BY <2>1, <3>1
    <3>3. QED
      BY <2>1, <3>1, <3>2, SamePast
  <2>5. CASE \E o \in Organiser : Operation(o) \/ Step(o) \/ Persist(o)
    <3> PICK o \in Organiser : Operation(o) \/ Step(o) \/ Persist(o)
      BY <2>5
    <3>1. CASE Start(o) \/ StartAt(o) \/ (Step(o) /\ pc[o] = "starting" /\ ~clock.started)
      BY <1>1, <3>1 DEF Start, StartAt
    <3>2. CASE Resume(o)
      <4>1. Unpaused(clock).dur = clock.dur /\ Unpaused(clock) = [f \in Fields |-> Unpaused(clock)[f]]
        BY <2>2 DEF Unpaused, Fields
      <4>2. CASE clock' = Unpaused(clock)
        BY <2>3, <4>1, <4>2
      <4>3. CASE \E i \in IndexOf(clock, order[o].compress) :
                    i > Index(clock, now) /\ \E d : clock' = [Unpaused(clock) EXCEPT !.dur[i] = d]
        <5>1. PICK i \in IndexOf(clock, order[o].compress) :
                    i > Index(clock, now) /\ \E d : clock' = [Unpaused(clock) EXCEPT !.dur[i] = d]
          BY <4>3
        <5>2. i \in Nat /\ i >= Index(clock, now)
          BY <2>1, <5>1 DEF IndexOf, ClockOK
        <5>3. PICK u : u = Unpaused(clock)
          OBVIOUS
        <5>4. PICK d : clock' = [u EXCEPT !.dur[i] = d]
          BY <5>1, <5>3
        <5>5. clock'.dur = [u.dur EXCEPT ![i] = d]
          BY <4>1, <5>3, <5>4 DEF Fields
        <5>6. QED
          BY <2>4, <4>1, <5>2, <5>3, <5>5
      <4>4. QED
        BY <3>2, <4>2, <4>3 DEF Resume, Change
    <3>3. CASE SetBlockDuration(o)
      <4>1. PICK i \in IndexOf(clock, order[o].block) :
                /\ Changeable(i, order[o].len)
                /\ clock' = [clock EXCEPT !.dur[i] = order[o].len]
        BY <3>3 DEF SetBlockDuration, Change
      <4>2. i \in Nat /\ i >= Index(clock, now)
        BY <1>1, <2>1, <4>1 DEF IndexOf, ClockOK, Changeable
      <4>3. clock'.dur = [clock.dur EXCEPT ![i] = order[o].len]
        BY <2>2, <4>1 DEF Fields
      <4>4. QED
        BY <2>4, <4>2, <4>3
    <3>4. CASE JumpTo(o) \/ End(o) \/ (Step(o) /\ ~(pc[o] = "starting" /\ ~clock.started))
      <4>1. (\E i : clock' = JumpedTo(clock, i)) \/ clock' = clock
        BY <3>4 DEF JumpTo, End, Step, Change
      <4>2. \A i : JumpedTo(clock, i).dur = clock.dur
        BY <2>2 DEF JumpedTo, Fields
      <4>3. QED
        BY <2>3, <4>1, <4>2
    <3>5. CASE Pause(o) \/ Nudge(o) \/ SetFrozen(o) \/ SetMarketOverride(o) \/ SetWindowOverride(o)
      <4>1. clock'.dur = clock.dur
        BY <2>2, <3>5 DEF Pause, Nudge, SetFrozen, SetMarketOverride, SetWindowOverride, Change, Fields
      <4>2. QED
        BY <2>3, <4>1
    <3>6. CASE ReadNext(o) \/ TakeSnapshot(o) \/ Persist(o)
      BY <2>3, <3>6 DEF ReadNext, TakeSnapshot, Persist
    <3>7. QED
      BY <1>1, <3>1, <3>2, <3>3, <3>4, <3>5, <3>6 DEF Operation
  <2>6. CASE \E x \in Actor : Deliver(x)
    <3>1. clock' = clock \/ \E l : clock' = [clock EXCEPT !.last = l]
      BY <2>6 DEF Deliver, Tick, Announce, Freeze, StoreSnapshot, CloseWindow, Finish
    <3>2. clock'.dur = clock.dur
      BY <2>2, <3>1 DEF Fields
    <3>3. QED
      BY <2>3, <3>2
  <2>7. CASE Pass \/ FormFunds \/ Break \/ UNCHANGED vars
    BY <2>3, <2>7 DEF Pass, FormFunds, Break, vars
  <2>8. CASE Kill
    BY <1>1, <2>1, <2>8 DEF Kill
  <2>9. QED
    BY <1>1, <2>5, <2>6, <2>7, <2>8 DEF Next
<1>2. TypeInv /\ [Next]_vars
      => [ /\ clock.started /\ clock'.started
           /\ ~(\E o \in Organiser : SetSchedule(o)) /\ kills' = kills
           => \A i \in 1 .. Index(clock, now) : StartOf(clock', i) = StartOf(clock, i) ]_vars
  BY <1>1
<1>3. QED
  BY <1>2, ClockStands, PTL DEF Spec, PastFixed

-----------------------------------------------------------------------------
(* No organiser steps, starts in the middle or freezes by hand: only the   *)
(* runner delivers transitions.                                            *)
RunnerAlone ==
    \A p \in Plan : \A o \in Organiser : p[o].do \notin {"startAt", "next", "freeze"}

(* Who is about to save or to store what a restart would not find yet. *)
AloneInv ==
    /\ \A o \in Organiser : pc[o] \in {"idle", "changed", "done", "lost"}
    /\ pc[Runner] \in {"idle"} \cup Stages
    /\ \A k \in 1 .. Len(due[Runner]) : due[Runner][k].index # 0
    /\ DOMAIN stored \subseteq DOMAIN snaps
    /\ pc[Runner] = "freezing" => Block(Runner).freeze \notin DOMAIN snaps
    /\ pc[Runner] = "storing" => Block(Runner).freeze \notin DOMAIN stored
    /\ ~broken => /\ pc[Runner] # "storing" => snaps = stored
                  /\ pc[Runner] = "storing" =>
                        snaps = With(stored, Block(Runner).freeze, Head(due[Runner]).values)
                  /\ \/ clock = saved
                     \/ \E o \in Organiser : pc[o] = "changed"
                     \/ pc[Runner] \in Stages

(* Organisers who deliver nothing change the clock and save it. *)
LEMMA AloneOperation ==
  ASSUME TypeInv, AloneInv, RunnerAlone, NEW o \in Organiser,
         Operation(o) \/ Step(o) \/ Persist(o)
  PROVE  AloneInv' /\ stored' = stored
<1>1. /\ Runner \in Actor /\ o \in Actor /\ o # Runner /\ pc \in [Actor -> State]
      /\ order[o].do \notin {"startAt", "next", "freeze"}
      /\ pc[o] \in {"idle", "changed", "done", "lost"}
  BY EventClockAssumption DEF TypeInv, AloneInv, RunnerAlone, Actor
<1>2. ~StartAt(o) /\ ~ReadNext(o) /\ ~TakeSnapshot(o) /\ ~Step(o)
  BY <1>1 DEF StartAt, ReadNext, TakeSnapshot, Step, Asks
<1>3. CASE Operation(o)
  <2>1. /\ pc' = [pc EXCEPT ![o] = "changed"]
        /\ UNCHANGED <<now, saved, event, broken, order, target, due, told, kills>>
    BY <1>2, <1>3 DEF Operation, Change, To, Start, Pause, Resume, JumpTo, Nudge,
                SetBlockDuration, End, SetSchedule, SetFrozen, SetMarketOverride, SetWindowOverride
  <2>2. pc'[o] = "changed" /\ \A x \in Actor \ {o} : pc'[x] = pc[x]
    BY <1>1, <2>1
  <2>3. \A p \in Organiser : pc'[p] \in {"idle", "changed", "done", "lost"}
    BY <2>2 DEF AloneInv, Actor
  <2>4. pc'[Runner] = pc[Runner] /\ \E p \in Organiser : pc'[p] = "changed"
    BY <1>1, <2>2
  <2>5. Block(Runner)' = Block(Runner) /\ snaps' = snaps /\ stored' = stored
    BY <2>1 DEF Block, event
  <2>6. QED
    BY <2>1, <2>3, <2>4, <2>5 DEF AloneInv
<1>4. CASE Persist(o)
  <2>1. /\ pc' = [pc EXCEPT ![o] = "done"]
        /\ saved' = IF broken THEN saved ELSE clock
        /\ UNCHANGED <<now, clock, event, broken, order, target, due, told, kills>>
    BY <1>1, <1>4 DEF Persist, Persisted, To, TicksItself
  <2>2. pc'[o] = "done" /\ \A x \in Actor \ {o} : pc'[x] = pc[x]
    BY <1>1, <2>1
  <2>3. \A p \in Organiser : pc'[p] \in {"idle", "changed", "done", "lost"}
    BY <2>2 DEF AloneInv, Actor
  <2>4. pc'[Runner] = pc[Runner]
    BY <1>1, <2>2
  <2>5. Block(Runner)' = Block(Runner) /\ snaps' = snaps /\ stored' = stored
    BY <2>1 DEF Block, event
  <2>6. ~broken => clock' = saved'
    BY <2>1
  <2>7. QED
    BY <2>1, <2>3, <2>4, <2>5, <2>6 DEF AloneInv
<1>5. QED
  BY <1>2, <1>3, <1>4

(* What a step of the runner's delivery may find stored, kept apart from   *)
(* whom it may find about to save. *)
LEMMA AloneDeliver ==
  ASSUME TypeInv, AloneInv, NEW x \in Actor, Deliver(x)
  PROVE  AloneInv' /\ \A n \in DOMAIN stored : stored'[n] = stored[n]
<1>1. x = Runner
  <2> SUFFICES ASSUME x # Runner PROVE FALSE
    OBVIOUS
  <2>1. pc[x] \in {"idle", "changed", "done", "lost"}
    BY DEF AloneInv, Actor
  <2>2. QED
    BY <2>1 DEF Deliver, Tick, Announce, Freeze, StoreSnapshot, CloseWindow, Finish
<1> DEFINE r == Runner
<1>2. r \in Actor /\ pc \in [Actor -> State] /\ due \in [Actor -> Seq(Item)] /\ r \notin Organiser
  BY EventClockAssumption DEF TypeInv, Actor
<1>3. ASSUME NEW s, pc' = [pc EXCEPT ![r] = s] PROVE pc'[r] = s /\ \A o \in Organiser : pc'[o] = pc[o]
  BY <1>2, <1>3 DEF Actor
<1>4. CASE Tick(r)
  <2>1. PICK new \in Nat :
            /\ due' = [due EXCEPT ![r] =
                         [k \in 1 .. new |-> [index |-> clock.last + k, values |-> None,
                                              block |-> clock.blocks[clock.last + k]]]]
            /\ pc' = [pc EXCEPT ![r] = IF new > 0 THEN "announcing" ELSE Rest(r)]
            /\ pc[r] = "idle" /\ new > 0
            /\ UNCHANGED <<now, saved, event, broken, order, target, told, kills>>
    BY <1>2, <1>4, Handed
  <2>2. pc'[r] = "announcing" /\ \A o \in Organiser : pc'[o] = pc[o]
    BY <1>3, <2>1
  <2>3. \A k \in 1 .. Len(due'[r]) : due'[r][k].index # 0
    <3>1. clock.last \in Nat
      BY DEF TypeInv, ClockOK
    <3>2. due'[r] = [k \in 1 .. new |-> [index |-> clock.last + k, values |-> None,
                                         block |-> clock.blocks[clock.last + k]]]
      BY <1>2, <2>1
    <3>3. QED
      BY <3>1, <3>2
  <2>4. QED
    BY <2>1, <2>2, <2>3 DEF AloneInv, event, Stages
<1>5. CASE Announce(r)
  <2>1. /\ pc' = [pc EXCEPT ![r] = IF Block(r).freeze = None \/ Taken(Block(r).freeze)
                                   THEN "window" ELSE "freezing"]
        /\ pc[r] = "announcing" /\ Block(r)' = Block(r)
        /\ UNCHANGED <<now, clock, saved, event, broken, order, target, due, kills>>
    BY <1>5 DEF Announce, To, Block
  <2>2. /\ pc'[r] = (IF Block(r).freeze = None \/ Taken(Block(r).freeze) THEN "window"
                     ELSE "freezing")
        /\ \A o \in Organiser : pc'[o] = pc[o]
    BY <1>3, <2>1
  <2>3. QED
    BY <2>1, <2>2 DEF AloneInv, event, Stages, Taken
<1>6. CASE Freeze(r)
  <2>1. /\ pc[r] = "freezing" /\ pc' = [pc EXCEPT ![r] = "storing"]
        /\ snaps' = With(snaps, Block(r).freeze, now)
        /\ UNCHANGED <<now, clock, saved, stored, checks, formed, broken, order, target, told, kills>>
    BY <1>6 DEF Freeze, To
  <2>2. pc'[r] = "storing" /\ \A o \in Organiser : pc'[o] = pc[o]
    BY <1>3, <2>1
  <2>3. /\ due' \in [Actor -> Seq(Item)] /\ Len(due'[r]) = Len(due[r]) /\ due'[r] # <<>>
        /\ Block(r)' = Block(r) /\ due'[r][1].values = now
        /\ \A i \in 1 .. Len(due[r]) : due'[r][i].index = due[r][i].index
    BY <1>2, <1>6, <2>1, Valued DEF Stages
  <2>4. Head(due'[r]) = due'[r][1]
    BY <1>2, <2>3
  <2>5. \A k \in 1 .. Len(due'[r]) : due'[r][k].index # 0
    BY <2>3 DEF AloneInv
  <2>6. DOMAIN stored \subseteq DOMAIN snaps'
    BY <2>1 DEF AloneInv, With
  <2>7. /\ Block(r).freeze \notin DOMAIN stored
        /\ ~broken => snaps' = With(stored, Block(r).freeze, Head(due'[r]).values)
    BY <2>1, <2>3, <2>4 DEF AloneInv
  <2>8. QED
    BY <2>1, <2>2, <2>3, <2>5, <2>6, <2>7 DEF AloneInv, Stages
<1>7. CASE StoreSnapshot(r)
  <2>1. /\ pc[r] = "storing" /\ pc' = [pc EXCEPT ![r] = "window"]
        /\ stored' = IF broken THEN stored ELSE With(stored, Block(r).freeze, Head(due[r]).values)
        /\ UNCHANGED <<now, clock, saved, snaps, checks, formed, broken, order, target,
                       due, told, kills>>
    BY <1>7 DEF StoreSnapshot, To
  <2>2. pc'[r] = "window" /\ \A o \in Organiser : pc'[o] = pc[o]
    BY <1>3, <2>1
  <2>3. \A n \in DOMAIN stored : stored'[n] = stored[n]
    BY <2>1 DEF AloneInv, With
  <2>4. DOMAIN stored' \subseteq DOMAIN snaps /\ (~broken => snaps = stored')
    BY <2>1 DEF AloneInv
  <2>5. QED
    BY <2>1, <2>2, <2>3, <2>4 DEF AloneInv, Stages
<1>8. CASE CloseWindow(r)
  <2>1. /\ pc[r] = "window" /\ pc' = [pc EXCEPT ![r] = "final"] /\ Block(r)' = Block(r)
        /\ UNCHANGED <<now, clock, saved, snaps, stored, formed, broken, order, target,
                       due, told, kills>>
    BY <1>8 DEF CloseWindow, To, Block
  <2>2. pc'[r] = "final" /\ \A o \in Organiser : pc'[o] = pc[o]
    BY <1>3, <2>1
  <2>3. QED
    BY <2>1, <2>2 DEF AloneInv, Stages
<1>9. CASE Finish(r)
  <2>1. /\ pc[r] = "final" /\ due' = [due EXCEPT ![r] = Tail(due[r])]
        /\ pc' = [pc EXCEPT ![r] = IF Len(due[r]) > 1 THEN "announcing" ELSE Rest(r)]
        /\ saved' = IF broken \/ Place(r) = 0 THEN saved ELSE clock
        /\ UNCHANGED <<now, clock, snaps, stored, formed, broken, order, target, told, kills>>
    BY <1>9 DEF Finish, To, Persisted
  <2>2. pc'[r] \in {"announcing", "idle"} /\ \A o \in Organiser : pc'[o] = pc[o]
    BY <1>3, <2>1 DEF Rest
  <2>3. /\ due[r] \in Seq(Item) /\ Len(due[r]) \in Nat \ {0} /\ Place(r) = due[r][1].index
        /\ due[r] # <<>>
    BY <1>2, <2>1, Delivering DEF Stages
  <2>4. Place(r) # 0
    BY <2>3 DEF AloneInv
  <2>5. due'[r] = Tail(due[r])
    BY <1>2, <2>1
  <2>6. \A k \in 1 .. Len(due'[r]) : due'[r][k].index # 0
    <3> SUFFICES ASSUME NEW k \in 1 .. Len(due'[r]) PROVE due'[r][k].index # 0
      OBVIOUS
    <3>1. k + 1 \in 1 .. Len(due[r]) /\ due'[r][k] = due[r][k + 1]
      BY <2>3, <2>5
    <3>2. QED
      BY <3>1 DEF AloneInv
  <2>7. ~broken => saved' = clock
    BY <2>1, <2>4
  <2>8. QED
    BY <2>1, <2>2, <2>6, <2>7 DEF AloneInv, Stages
<1>10. QED
  BY <1>1, <1>4, <1>5, <1>6, <1>7, <1>8, <1>9 DEF Deliver

(* A restart finds what was saved. *)
LEMMA AloneKill ==
  ASSUME TypeInv, AloneInv, Kill
  PROVE  AloneInv'
<1>1. Runner \in Actor /\ Runner \notin Organiser /\ Organiser \subseteq Actor
  BY EventClockAssumption DEF Actor
<1>2. pc'[Runner] = "idle" /\ \A o \in Organiser : pc'[o] \in {"idle", "done", "lost"}
  <2>1. \A o \in Organiser : pc'[o] = IF pc[o] \in {"idle", "done", "refused"} THEN pc[o] ELSE "lost"
    BY <1>1 DEF Kill
  <2>2. QED
    BY <1>1, <2>1 DEF Kill, AloneInv
<1>3. due'[Runner] = <<>>
  BY <1>1 DEF Kill
<1>4. QED
  BY <1>2, <1>3 DEF Kill, AloneInv, Stages

(* At the start nobody delivers. *)
LEMMA InitAlone == Init => AloneInv
<1> SUFFICES ASSUME Init PROVE AloneInv
  OBVIOUS
<1>1. Runner \in Actor /\ Organiser \subseteq Actor
  BY DEF Actor
<1>2. pc[Runner] = "idle" /\ (\A o \in Organiser : pc[o] = "idle") /\ due[Runner] = <<>>
  BY <1>1 DEF Init
<1>3. QED
  BY <1>2 DEF Init, AloneInv, Stages

(* The runner's invariant over any step. *)
LEMMA NextAlone ==
  RunnerAlone /\ TypeInv /\ AloneInv /\ [Next]_vars
  => AloneInv' /\ \A n \in DOMAIN stored : stored'[n] = stored[n]
<1> SUFFICES ASSUME RunnerAlone, TypeInv, AloneInv, [Next]_vars
             PROVE  AloneInv' /\ \A n \in DOMAIN stored : stored'[n] = stored[n]
  OBVIOUS
<1>1. CASE \E o \in Organiser : Operation(o) \/ Step(o) \/ Persist(o)
  BY <1>1, AloneOperation
<1>2. CASE \E x \in Actor : Deliver(x)
  BY <1>2, AloneDeliver
<1>3. CASE Pass \/ FormFunds \/ UNCHANGED vars
  BY <1>3 DEF Pass, FormFunds, AloneInv, event, vars, Block
<1>4. CASE Break
  BY <1>4 DEF Break, AloneInv, event, Block
<1>5. CASE Kill
  <2>1. stored' = stored
    BY <1>5 DEF Kill
  <2>2. QED
    BY <1>5, <2>1, AloneKill
<1>6. QED
  BY <1>1, <1>2, <1>3, <1>4, <1>5 DEF Next

(* So it holds throughout. *)
LEMMA RunnersWorld == RunnerAlone /\ Spec => []AloneInv
<1> SUFFICES ASSUME RunnerAlone PROVE Spec => []AloneInv
  OBVIOUS
<1>1. TypeInv /\ AloneInv /\ [Next]_vars => AloneInv'
  BY NextAlone
<1>2. QED
  BY <1>1, InitAlone, ClockStands, PTL DEF Spec

(* Whenever nobody is in the middle of an operation or a delivery and the  *)
(* log works, a restart finds the clock and the snapshots as they are,     *)
(* however operations, ticks and their saves overlapped (persistClock      *)
(* saves the clock of its moment), as long as the runner alone delivers.   *)
THEOREM RestartFindsClock == RunnerAlone /\ Spec => []ClockSaved
<1>1. AloneInv => ClockSaved
  BY DEF AloneInv, ClockSaved, Settled, Stages
<1>2. QED
  BY <1>1, RunnersWorld, PTL

(* A stored snapshot is never replaced, through kills and a log that       *)
(* breaks, as long as the runner alone takes them (takeSnapshot).          *)
THEOREM ResultsStand == RunnerAlone /\ Spec => FrozenStands
<1> SUFFICES ASSUME RunnerAlone PROVE Spec => FrozenStands
  OBVIOUS
<1>1. TypeInv /\ AloneInv /\ [Next]_vars => [\A n \in DOMAIN stored : stored'[n] = stored[n]]_vars
  BY NextAlone
<1>2. RunnerAlone /\ Spec => []AloneInv
  BY RunnersWorld
<1>3. QED
  BY <1>1, <1>2, ClockStands, PTL DEF Spec, FrozenStands

-----------------------------------------------------------------------------
(* Nobody starts the event behind a freeze block: what is before the start *)
(* counts as done (StartAt), its freeze too.                               *)
StartsEarly ==
    \A p \in Plan : \A o \in Organiser : p[o].do = "startAt" =>
        \A i \in DOMAIN Template : Template[i].id = p[o].block =>
            \A j \in 1 .. i - 1 : Template[j].freeze = None

(* The k-th transition of x is still to be told. *)
Untold(x, k) == k > 1 \/ pc[x] = "announcing"

(* While the event only goes forward, every transition has one place. *)
StepInv ==
    /\ clock.blocks = Template
    /\ told \in Seq(Nat \ {0})
    /\ ~clock.started =>
          /\ clock.last = 0 /\ told = <<>>
          /\ \A x \in Actor : \A k \in 1 .. Len(due[x]) : due[x][k].index = 0
          /\ \A o \in Organiser : pc[o] \in {"changed", "ticking"} => ~TicksItself(o)
    /\ \A o \in Organiser : pc[o] = "ticking" => TicksItself(o)
    /\ \A x \in Actor : \A k \in 1 .. Len(due[x]) : due[x][k].index # 0 =>
          /\ due[x][k].index <= clock.last
          /\ due[x][k].block = Template[due[x][k].index]
          /\ \A y \in Actor : \A l \in 1 .. Len(due[y]) :
                due[x][k].index = due[y][l].index => x = y /\ k = l
          /\ \A i \in 1 .. Len(told) : told[i] = due[x][k].index => ~Untold(x, k)
    /\ \A i \in 1 .. Len(told) : told[i] <= clock.last
    /\ \A i, j \in 1 .. Len(told) : told[i] = told[j] => i = j
    /\ \A x \in Actor : pc[x] \in {"storing", "window", "final"} =>
          Block(x).freeze = None \/ Block(x).freeze \in DOMAIN snaps
    /\ NeverMissed

OnceInv == Stepping => StepInv

(* A step that hands out and tells nothing, and leaves the schedule. *)
LEMMA OnceQuiet ==
  ASSUME TypeInv, TypeInv', StepInv, order' = order, told' = told,
         clock'.last = clock.last, clock'.blocks = clock.blocks,
         clock.started => clock'.started,
         DOMAIN snaps \subseteq DOMAIN snaps',
         \A x \in Actor : /\ Len(due'[x]) = Len(due[x])
                          /\ \A k \in 1 .. Len(due[x]) : /\ due'[x][k].index = due[x][k].index
                                                         /\ due'[x][k].block = due[x][k].block,
         \A x \in Actor : pc'[x] = "announcing" => pc[x] = "announcing",
         \A x \in Actor : pc'[x] \in {"storing", "window", "final"} =>
               Block(x)'.freeze = None \/ Block(x)'.freeze \in DOMAIN snaps',
         \A o \in Organiser : pc'[o] = "ticking" => TicksItself(o),
         ~clock'.started =>
               \A o \in Organiser : pc'[o] \in {"changed", "ticking"} => ~TicksItself(o)
  PROVE  StepInv'
<1>1. \A o \in Organiser : TicksItself(o)' <=> TicksItself(o)
  BY DEF TicksItself
<1>2. ~clock'.started => ~clock.started
  OBVIOUS
<1>3. \A x \in Actor : \A k \in 1 .. Len(due'[x]) : due'[x][k].index # 0 =>
          /\ due'[x][k].index <= clock'.last
          /\ due'[x][k].block = Template[due'[x][k].index]
          /\ \A y \in Actor : \A l \in 1 .. Len(due'[y]) :
                due'[x][k].index = due'[y][l].index => x = y /\ k = l
          /\ \A i \in 1 .. Len(told') : told'[i] = due'[x][k].index => ~Untold(x, k)'
  <2>1. \A x \in Actor : \A k \in 1 .. Len(due[x]) : due[x][k].index # 0 =>
            /\ due[x][k].index <= clock.last
            /\ due[x][k].block = Template[due[x][k].index]
            /\ \A y \in Actor : \A l \in 1 .. Len(due[y]) :
                  due[x][k].index = due[y][l].index => x = y /\ k = l
            /\ \A i \in 1 .. Len(told) : told[i] = due[x][k].index => ~Untold(x, k)
    BY Zenon DEF StepInv
  <2>2. \A x \in Actor : \A k \in 1 .. Len(due'[x]) : Untold(x, k)' => Untold(x, k)
    BY DEF Untold
  <2>3. QED
    BY <2>1, <2>2
<1>4. NeverMissed'
  <2> SUFFICES ASSUME NEW i \in 1 .. clock'.last,
                      clock'.blocks[i].freeze # None, clock'.blocks[i].freeze \notin DOMAIN snaps'
               PROVE  \E x \in Actor : \E k \in DOMAIN due'[x] : due'[x][k].index = i
    BY DEF NeverMissed
  <2>1. PICK x \in Actor : \E k \in DOMAIN due[x] : due[x][k].index = i
    BY DEF StepInv, NeverMissed
  <2>2. PICK k \in DOMAIN due[x] : due[x][k].index = i
    BY <2>1
  <2>3. due[x] \in Seq(Item)
    BY DEF TypeInv
  <2>4. k \in 1 .. Len(due[x]) /\ DOMAIN due[x] = 1 .. Len(due[x])
    BY <2>3
  <2>5. due'[x][k].index = i
    BY <2>2, <2>4
  <2>6. k \in DOMAIN due'[x]
    <3>1. due'[x] \in Seq(Item)
      BY DEF TypeInv
    <3>2. QED
      BY <2>4, <3>1
  <2>7. QED
    BY <2>5, <2>6
<1>5. /\ clock'.blocks = Template /\ told' \in Seq(Nat \ {0})
      /\ \A i \in 1 .. Len(told') : told'[i] <= clock'.last
      /\ \A i, j \in 1 .. Len(told') : told'[i] = told'[j] => i = j
  BY DEF StepInv
<1>6. ~clock'.started =>
          /\ clock'.last = 0 /\ told' = <<>>
          /\ \A x \in Actor : \A k \in 1 .. Len(due'[x]) : due'[x][k].index = 0
  BY <1>2 DEF StepInv
<1>7. QED
  BY <1>1, <1>3, <1>4, <1>5, <1>6 DEF StepInv

(* What organisers do while the event only goes forward. *)
LEMMA OnceOrganiser ==
  ASSUME TypeInv, TypeInv', StepInv, Stepping, StartsEarly, NEW o \in Organiser,
         Operation(o) \/ Step(o) \/ Persist(o)
  PROVE  StepInv'
<1> DEFINE c == clock
           Mild(e) == e.last = c.last /\ e.blocks = c.blocks /\ e.started = c.started
<1>1. /\ order[o].do \in {"startAt", "next", "pause", "resume", "freeze"} /\ o \in Actor
      /\ pc \in [Actor -> State] /\ order \in Plan
      /\ c = [f \in Fields |-> c[f]] /\ c.blocks = Template
  BY DEF Stepping, Actor, TypeInv, ClockOK, StepInv
<1>2. /\ ~Start(o) /\ ~JumpTo(o) /\ ~Nudge(o) /\ ~SetBlockDuration(o) /\ ~End(o) /\ ~SetSchedule(o)
      /\ ~SetFrozen(o) /\ ~SetMarketOverride(o) /\ ~SetWindowOverride(o)
  BY <1>1 DEF Start, JumpTo, Nudge, SetBlockDuration, End, SetSchedule, SetFrozen,
              SetMarketOverride, SetWindowOverride, Asks
<1>3. ASSUME c.started, Mild(clock'), NEW s \in {"changed", "refused"}, pc' = [pc EXCEPT ![o] = s],
             UNCHANGED <<snaps, order, due, told>>
      PROVE  StepInv'
  <2>1. \A x \in Actor : pc'[x] = pc[x] \/ pc'[x] \in {"changed", "refused"}
    BY <1>1, <1>3
  <2>2. \A x \in Actor : pc'[x] \in {"storing", "window", "final"} =>
               Block(x)'.freeze = None \/ Block(x)'.freeze \in DOMAIN snaps'
    BY <1>3, <2>1 DEF StepInv, Block
  <2>3. \A p \in Organiser : pc'[p] = "ticking" => TicksItself(p)
    BY <2>1 DEF StepInv, Actor
  <2>4. QED
    BY <1>3, <2>1, <2>2, <2>3, OnceQuiet
<1>4. ASSUME ~c.started, NEW i \in Nat \ {0}, clock' = AtBlock(c, i), pc' = [pc EXCEPT ![o] = "changed"],
             \A j \in 1 .. i - 1 : Template[j].freeze = None,
             UNCHANGED <<snaps, order, due, told>>
      PROVE  StepInv'
  <2>1. clock'.started = TRUE /\ clock'.last = i - 1 /\ clock'.blocks = Template
    BY <1>1, <1>4 DEF AtBlock, Fields
  <2>2. /\ told = <<>> /\ \A x \in Actor : \A k \in 1 .. Len(due[x]) : due[x][k].index = 0
    BY <1>4 DEF StepInv
  <2>3. \A x \in Actor : pc'[x] = pc[x] \/ pc'[x] = "changed"
    BY <1>1, <1>4
  <2>4. NeverMissed'
    BY <1>4, <2>1 DEF NeverMissed
  <2>5. \A p \in Organiser : pc'[p] = "ticking" => TicksItself(p)'
    BY <1>4, <2>3 DEF StepInv, Actor, TicksItself
  <2>6. \A x \in Actor : pc'[x] \in {"storing", "window", "final"} =>
               Block(x)'.freeze = None \/ Block(x)'.freeze \in DOMAIN snaps'
    BY <1>4, <2>3 DEF StepInv, Block
  <2>7. Len(told') = 0 /\ told' \in Seq(Nat \ {0})
    BY <1>4, <2>2
  <2>8. QED
    BY <1>4, <2>1, <2>2, <2>4, <2>5, <2>6, <2>7 DEF StepInv
<1>5. CASE StartAt(o)
  <2>1. PICK i \in IndexOf(c, order[o].block) : clock' = AtBlock(c, i)
    BY <1>5 DEF StartAt, Change
  <2>2. i \in Nat \ {0} /\ i \in DOMAIN Template /\ Template[i].id = order[o].block
    BY <1>1, <2>1, EventClockAssumption DEF IndexOf, IsTimeline
  <2>3. \A j \in 1 .. i - 1 : Template[j].freeze = None
    BY <1>1, <1>5, <2>2 DEF StartsEarly, StartAt, Asks
  <2>4. /\ ~c.started /\ pc' = [pc EXCEPT ![o] = "changed"]
        /\ UNCHANGED <<snaps, order, due, told>>
    BY <1>5 DEF StartAt, Change, To, event
  <2>5. QED
    BY <1>4, <2>1, <2>2, <2>3, <2>4
<1>6. CASE Pause(o)
  <2>1. c.started /\ Mild(clock')
    BY <1>1, <1>6 DEF Pause, Running, Change, Fields
  <2>2. pc' = [pc EXCEPT ![o] = "changed"] /\ UNCHANGED <<snaps, order, due, told>>
    BY <1>6 DEF Pause, Change, To, event
  <2>3. QED
    BY <1>3, <2>1, <2>2
<1>7. CASE Resume(o)
  <2>1. PICK u : u = Unpaused(c)
    OBVIOUS
  <2>2. Mild(u) /\ u = [f \in Fields |-> u[f]]
    BY <1>1, <2>1 DEF Unpaused, Fields
  <2>3. clock' = u \/ \E i, d : clock' = [u EXCEPT !.dur[i] = d]
    BY <1>7, <2>1 DEF Resume, Change
  <2>4. Mild(clock')
    BY <2>2, <2>3 DEF Fields
  <2>5. c.started /\ pc' = [pc EXCEPT ![o] = "changed"] /\ UNCHANGED <<snaps, order, due, told>>
    BY <1>7 DEF Resume, Change, To, event
  <2>6. QED
    BY <1>3, <2>4, <2>5
<1>8. CASE ReadNext(o)
  <2>1. PICK s \in {"stepping", "starting", "refused"} : pc' = [pc EXCEPT ![o] = s]
    BY <1>8 DEF ReadNext, To
  <2>2. UNCHANGED <<clock, snaps, order, due, told>>
    BY <1>8 DEF ReadNext, event
  <2>3. \A x \in Actor : pc'[x] = pc[x] \/ pc'[x] \in {"stepping", "starting", "refused"}
    BY <1>1, <2>1
  <2>4. \A x \in Actor : pc'[x] \in {"storing", "window", "final"} =>
               Block(x)'.freeze = None \/ Block(x)'.freeze \in DOMAIN snaps'
    BY <2>2, <2>3 DEF StepInv, Block
  <2>5. /\ \A p \in Organiser : pc'[p] = "ticking" => TicksItself(p)
        /\ ~clock'.started =>
               \A p \in Organiser : pc'[p] \in {"changed", "ticking"} => ~TicksItself(p)
    BY <2>2, <2>3 DEF StepInv, Actor
  <2>6. QED
    BY <2>2, <2>3, <2>4, <2>5, OnceQuiet
<1>9. CASE Step(o)
  <2>1. CASE pc[o] = "starting" /\ ~clock.started
    <3>1. clock' = AtBlock(c, 1) /\ pc' = [pc EXCEPT ![o] = "changed"]
      BY <1>9, <2>1 DEF Step, Change, To
    <3>2. UNCHANGED <<snaps, order, due, told>>
      BY <1>9, <2>1 DEF Step, Change, event
    <3>3. \A j \in 1 .. 1 - 1 : Template[j].freeze = None
      OBVIOUS
    <3>4. QED
      BY <1>4, <2>1, <3>1, <3>2, <3>3
  <2>2. CASE ~(pc[o] = "starting" /\ ~clock.started)
    <3>1. /\ clock' = clock \/ \E i : clock' = JumpedTo(c, i)
          /\ \E s \in {"changed", "refused"} : pc' = [pc EXCEPT ![o] = s]
          /\ UNCHANGED <<snaps, order, due, told>>
      BY <1>9, <2>2 DEF Step, Change, To, event
    <3>2. Mild(clock')
      BY <1>1, <3>1 DEF JumpedTo, Fields
    <3>3. CASE c.started
      BY <1>3, <3>1, <3>2, <3>3
    <3>4. CASE ~c.started
      <4>1. pc' = [pc EXCEPT ![o] = "refused"]
        BY <1>9, <2>2, <3>4 DEF Step, To
      <4>2. \A x \in Actor : pc'[x] = pc[x] \/ pc'[x] = "refused"
        BY <1>1, <4>1
      <4>3. \A x \in Actor : pc'[x] \in {"storing", "window", "final"} =>
                Block(x)'.freeze = None \/ Block(x)'.freeze \in DOMAIN snaps'
        BY <3>1, <4>2 DEF StepInv, Block
      <4>4. /\ \A p \in Organiser : pc'[p] = "ticking" => TicksItself(p)
            /\ \A p \in Organiser : pc'[p] \in {"changed", "ticking"} => ~TicksItself(p)
        BY <3>4, <4>2 DEF StepInv, Actor
      <4>5. QED
        BY <3>1, <3>2, <4>2, <4>3, <4>4, OnceQuiet
    <3>5. QED
      BY <3>3, <3>4
  <2>3. QED
    BY <2>1, <2>2
<1>10. CASE Persist(o)
  <2>1. /\ pc[o] = "changed" /\ UNCHANGED <<clock, snaps, order, due, told>>
        /\ pc' = [pc EXCEPT ![o] = IF TicksItself(o) THEN "ticking" ELSE "done"]
    BY <1>10 DEF Persist, To, event
  <2>2. \A x \in Actor \ {o} : pc'[x] = pc[x]
    BY <1>1, <2>1
  <2>3. pc'[o] = IF TicksItself(o) THEN "ticking" ELSE "done"
    BY <1>1, <2>1
  <2>4. \A x \in Actor : pc'[x] \in {"storing", "window", "final"} =>
               Block(x)'.freeze = None \/ Block(x)'.freeze \in DOMAIN snaps'
    BY <2>1, <2>2, <2>3 DEF StepInv, Block
  <2>5. \A p \in Organiser : pc'[p] = "ticking" => TicksItself(p)
    BY <2>2, <2>3 DEF StepInv, Actor
  <2>6. ~c.started => \A p \in Organiser : pc'[p] \in {"changed", "ticking"} => ~TicksItself(p)
    BY <2>1, <2>2, <2>3 DEF StepInv, Actor
  <2>7. \A x \in Actor : pc'[x] = "announcing" => pc[x] = "announcing"
    BY <2>2, <2>3
  <2>8. QED
    BY <2>1, <2>4, <2>5, <2>6, <2>7, OnceQuiet
<1>11. CASE TakeSnapshot(o)
  <2> DEFINE s == <<[index |-> 0, values |-> None, block |-> [freeze |-> order[o].name]]>>
  <2>1. /\ pc[o] = "idle" /\ due' = [due EXCEPT ![o] = s] /\ pc' = [pc EXCEPT ![o] = "announcing"]
        /\ UNCHANGED <<clock, snaps, order, told>>
    BY <1>11 DEF TakeSnapshot, Asks, To, event
  <2>2. Len(s) = 1 /\ s[1].index = 0
    OBVIOUS
  <2> HIDE DEF s
  <2>3. /\ pc'[o] = "announcing" /\ \A x \in Actor \ {o} : pc'[x] = pc[x]
        /\ due'[o] = s /\ \A x \in Actor \ {o} : due'[x] = due[x]
    BY <1>1, <2>1 DEF TypeInv
  <2>4. due[o] = <<>>
    BY <1>1, <2>1 DEF TypeInv, Stages
  <2>5. \A x \in Actor : \A k \in 1 .. Len(due'[x]) :
           due'[x][k].index # 0 => x # o /\ due'[x] = due[x] /\ k \in 1 .. Len(due[x])
    BY <2>2, <2>3
  <2>6. \A x \in Actor : \A k \in 1 .. Len(due'[x]) : due'[x][k].index # 0 =>
          /\ due'[x][k].index <= clock'.last
          /\ due'[x][k].block = Template[due'[x][k].index]
          /\ \A y \in Actor : \A l \in 1 .. Len(due'[y]) :
                due'[x][k].index = due'[y][l].index => x = y /\ k = l
          /\ \A i \in 1 .. Len(told') : told'[i] = due'[x][k].index => ~Untold(x, k)'
    BY <2>1, <2>3, <2>5 DEF StepInv, Untold
  <2>7. NeverMissed'
    <3> SUFFICES ASSUME NEW i \in 1 .. clock.last,
                        clock.blocks[i].freeze # None, clock.blocks[i].freeze \notin DOMAIN snaps
                 PROVE  \E x \in Actor : \E k \in DOMAIN due'[x] : due'[x][k].index = i
      BY <2>1 DEF NeverMissed
    <3>1. PICK x \in Actor : \E k \in DOMAIN due[x] : due[x][k].index = i
      BY DEF StepInv, NeverMissed
    <3>2. x # o
      BY <2>4, <3>1
    <3>3. QED
      BY <2>3, <3>1, <3>2
  <2>8. \A x \in Actor : pc'[x] \in {"storing", "window", "final"} =>
               Block(x)'.freeze = None \/ Block(x)'.freeze \in DOMAIN snaps'
    BY <2>1, <2>3 DEF StepInv, Block
  <2>9. ~clock'.started =>
          /\ clock'.last = 0 /\ told' = <<>>
          /\ \A x \in Actor : \A k \in 1 .. Len(due'[x]) : due'[x][k].index = 0
          /\ \A p \in Organiser : pc'[p] \in {"changed", "ticking"} => ~TicksItself(p)'
    BY <2>1, <2>3, <2>5 DEF StepInv, Actor, TicksItself
  <2>10. \A p \in Organiser : pc'[p] = "ticking" => TicksItself(p)'
    BY <2>1, <2>3 DEF StepInv, Actor, TicksItself
  <2>11. QED
    BY <2>1, <2>6, <2>7, <2>8, <2>9, <2>10 DEF StepInv
<1>12. QED
  BY <1>2, <1>5, <1>6, <1>7, <1>8, <1>9, <1>10, <1>11 DEF Operation

(* A tick hands out what nobody has been handed before. *)
LEMMA OnceTick ==
  ASSUME TypeInv, TypeInv', StepInv, NEW x \in Actor, Tick(x)
  PROVE  StepInv'
<1>1. PICK upto \in 0 .. Len(clock.blocks), new \in Nat :
            /\ clock' = [clock EXCEPT !.last = clock.last + new]
            /\ due' = [due EXCEPT ![x] =
                         [k \in 1 .. new |-> [index |-> clock.last + k, values |-> None,
                                              block |-> clock.blocks[clock.last + k]]]]
            /\ pc' = [pc EXCEPT ![x] = IF new > 0 THEN "announcing" ELSE Rest(x)]
            /\ \/ x = Runner /\ pc[x] = "idle" /\ clock.started /\ new > 0
               \/ x # Runner /\ pc[x] = "ticking"
            /\ UNCHANGED <<now, saved, event, broken, order, target, told, kills>>
  BY Handed
<1>2. /\ clock = [f \in Fields |-> clock[f]] /\ clock.last \in Nat /\ clock.blocks = Template
      /\ pc \in [Actor -> State] /\ due \in [Actor -> Seq(Item)] /\ told \in Seq(Nat \ {0})
  BY DEF TypeInv, ClockOK, StepInv
<1>3. /\ clock'.last = clock.last + new /\ clock'.blocks = Template
      /\ clock'.started = clock.started
  BY <1>1, <1>2 DEF Fields
<1>4. clock.started
  <2>1. x # Runner => x \in Organiser
    BY DEF Actor
  <2>2. QED
    BY <1>1, <2>1 DEF StepInv
<1>5. due[x] = <<>> /\ Len(due[x]) = 0
  <2>1. pc[x] \notin Stages
    BY <1>1 DEF Stages
  <2>2. due[x] = <<>>
    BY <2>1 DEF TypeInv
  <2>3. QED
    BY <2>2
<1> DEFINE s == [k \in 1 .. new |-> [index |-> clock.last + k, values |-> None,
                                     block |-> clock.blocks[clock.last + k]]]
<1>5a. due' = [due EXCEPT ![x] = s]
  BY <1>1
<1>5b. Len(s) = new /\ DOMAIN s = 1 .. new
  OBVIOUS
<1>5c. \A k \in 1 .. new : s[k].index = clock.last + k /\ s[k].block = Template[clock.last + k]
  BY <1>2
<1> HIDE DEF s
<1>6. /\ due'[x] = s /\ Len(s) = new /\ \A y \in Actor \ {x} : due'[y] = due[y]
      /\ \A k \in 1 .. new : s[k].index = clock.last + k /\ s[k].block = Template[clock.last + k]
  BY <1>2, <1>5a, <1>5b, <1>5c
<1>7. /\ pc'[x] = (IF new > 0 THEN "announcing" ELSE Rest(x))
      /\ \A y \in Actor \ {x} : pc'[y] = pc[y]
  BY <1>1, <1>2
<1>8. \A y \in Actor : \A k \in 1 .. Len(due[y]) : due[y][k].index \in Nat
  <2> SUFFICES ASSUME NEW y \in Actor, NEW k \in 1 .. Len(due[y]) PROVE due[y][k].index \in Nat
    OBVIOUS
  <2>1. due[y] \in Seq(Item)
    BY <1>2
  <2>2. due[y][k] \in Item
    BY <2>1
  <2>3. QED
    BY <2>2 DEF Item
<1>9. /\ \A i \in 1 .. Len(told) : told[i] \in Nat /\ told[i] <= clock.last
      /\ Len(told) \in Nat
  BY <1>2 DEF StepInv
<1>10a. \A y \in Actor : \A k \in 1 .. Len(due[y]) : due[y][k].index # 0 =>
           \A z \in Actor : \A l \in 1 .. Len(due[z]) :
              due[y][k].index = due[z][l].index => y = z /\ k = l
  <2>1. \A y \in Actor : \A k \in 1 .. Len(due[y]) : due[y][k].index # 0 =>
            /\ due[y][k].index <= clock.last
            /\ due[y][k].block = Template[due[y][k].index]
            /\ \A z \in Actor : \A l \in 1 .. Len(due[z]) :
                  due[y][k].index = due[z][l].index => y = z /\ k = l
            /\ \A i \in 1 .. Len(told) : told[i] = due[y][k].index => ~Untold(y, k)
    BY Zenon DEF StepInv
  <2>2. QED
    BY <2>1, Zenon
<1>10. ASSUME NEW y \in Actor, NEW k \in 1 .. Len(due'[y]), due'[y][k].index # 0
       PROVE  /\ due'[y][k].index <= clock'.last
              /\ due'[y][k].block = Template[due'[y][k].index]
              /\ \A z \in Actor : \A l \in 1 .. Len(due'[z]) :
                    due'[y][k].index = due'[z][l].index => y = z /\ k = l
              /\ \A i \in 1 .. Len(told') : told'[i] = due'[y][k].index => ~Untold(y, k)'
  <2>1. CASE y = x
    <3>1. k \in 1 .. new /\ due'[y][k].index = clock.last + k
          /\ due'[y][k].block = Template[clock.last + k]
      BY <1>6, <2>1
    <3>2. due'[y][k].index > clock.last /\ due'[y][k].index <= clock'.last
      BY <1>2, <1>3, <3>1
    <3>3. ASSUME NEW z \in Actor, NEW l \in 1 .. Len(due'[z]), due'[y][k].index = due'[z][l].index
          PROVE  y = z /\ k = l
      <4>1. CASE z = x
        <5>1. l \in 1 .. new /\ due'[z][l].index = clock.last + l
          BY <1>6, <4>1
        <5>2. QED
          BY <1>2, <2>1, <3>1, <3>3, <4>1, <5>1
      <4>2. CASE z # x
        <5>1. l \in 1 .. Len(due[z]) /\ due'[z][l].index = due[z][l].index
          BY <1>6, <4>2
        <5>2. due[z][l].index # 0 => due[z][l].index <= clock.last
          BY <5>1 DEF StepInv
        <5>3. QED
          BY <1>2, <1>8, <3>2, <3>3, <5>1, <5>2
      <4>3. QED
        BY <4>1, <4>2
    <3>4. ASSUME NEW i \in 1 .. Len(told') PROVE told'[i] # due'[y][k].index
      <4>1. told'[i] \in Nat /\ told'[i] <= clock.last
        BY <1>1, <1>9
      <4>2. QED
        BY <1>2, <3>2, <4>1
    <3>5. QED
      BY <3>1, <3>2, <3>3, <3>4
  <2>2. CASE y # x
    <3>1. k \in 1 .. Len(due[y]) /\ due'[y] = due[y] /\ due[y][k].index \in Nat
      BY <1>6, <1>8, <2>2
    <3>2. due[y][k].index <= clock.last /\ due[y][k].block = Template[due[y][k].index]
      BY <1>10, <3>1 DEF StepInv
    <3>3. due'[y][k].index <= clock'.last
      BY <1>2, <1>3, <3>1, <3>2
    <3>4. ASSUME NEW z \in Actor, NEW l \in 1 .. Len(due'[z]), due'[y][k].index = due'[z][l].index
          PROVE  y = z /\ k = l
      <4>1. CASE z = x
        <5>1. l \in 1 .. new /\ due'[z][l].index = clock.last + l
          BY <1>6, <4>1
        <5>2. l > 0 /\ clock.last + l > clock.last
          BY <1>2, <5>1
        <5>3. due'[y][k].index = clock.last + l /\ due'[y][k].index <= clock.last
          BY <3>1, <3>2, <3>4, <5>1
        <5>4. QED
          BY <1>2, <5>1, <5>2, <5>3
      <4>2. CASE z # x
        <5>1. l \in 1 .. Len(due[z]) /\ due'[z] = due[z]
          BY <1>6, <4>2
        <5>2. due[y][k].index # 0 /\ due[y][k].index = due[z][l].index
          BY <1>10, <3>1, <3>4, <5>1
        <5>3. QED
          BY <1>10a, <3>1, <5>1, <5>2
      <4>3. QED
        BY <4>1, <4>2
    <3>5. \A i \in 1 .. Len(told') : told'[i] = due'[y][k].index => ~Untold(y, k)'
      BY <1>1, <1>7, <1>10, <2>2, <3>1 DEF StepInv, Untold
    <3>6. QED
      BY <3>1, <3>2, <3>3, <3>4, <3>5
  <2>3. QED
    BY <2>1, <2>2
<1>11. NeverMissed'
  <2> SUFFICES ASSUME NEW i \in 1 .. clock'.last,
                      clock'.blocks[i].freeze # None, clock'.blocks[i].freeze \notin DOMAIN snaps'
               PROVE  \E y \in Actor : \E k \in DOMAIN due'[y] : due'[y][k].index = i
    BY DEF NeverMissed
  <2>1. CASE i \in 1 .. clock.last
    <3>0. clock.blocks[i].freeze # None /\ clock.blocks[i].freeze \notin DOMAIN snaps
      BY <1>1, <1>2, <1>3 DEF event
    <3>1. PICK y \in Actor : \E k \in DOMAIN due[y] : due[y][k].index = i
      BY <2>1, <3>0 DEF StepInv, NeverMissed
    <3>2. y # x
      BY <1>5, <3>1
    <3>3. QED
      BY <1>6, <3>1, <3>2
  <2>2. CASE i \notin 1 .. clock.last
    <3>1. i - clock.last \in 1 .. new
      BY <1>2, <1>3, <2>2
    <3>2. PICK k \in 1 .. new : clock.last + k = i
      <4>1. clock.last + (i - clock.last) = i
        BY <1>2
      <4>2. QED
        BY <3>1, <4>1
    <3>3. s[k].index = i
      BY <1>6, <3>2
    <3>4. QED
      BY <1>5b, <1>6, <3>2, <3>3
  <2>3. QED
    BY <2>1, <2>2
<1>12. ASSUME NEW i \in 1 .. Len(told') PROVE told'[i] <= clock'.last
  <2>1. told'[i] \in Nat /\ told'[i] <= clock.last
    BY <1>1, <1>9
  <2>2. QED
    BY <1>2, <1>3, <2>1
<1>13. \A y \in Actor : pc'[y] \in {"storing", "window", "final"} =>
               Block(y)'.freeze = None \/ Block(y)'.freeze \in DOMAIN snaps'
  <2>1. \A y \in Actor : pc'[y] \in {"storing", "window", "final"} =>
            y # x /\ pc'[y] = pc[y] /\ due'[y] = due[y]
    BY <1>6, <1>7 DEF Rest
  <2>2. snaps' = snaps
    BY <1>1 DEF event
  <2>3. QED
    BY <2>1, <2>2 DEF StepInv, Block
<1>14. \A o \in Organiser : pc'[o] = "ticking" => TicksItself(o)'
  <2>1. \A o \in Organiser : pc'[o] = "ticking" => pc[o] = "ticking"
    BY <1>7 DEF Rest, Actor
  <2>2. QED
    BY <1>1, <2>1 DEF StepInv, TicksItself
<1>15. told' \in Seq(Nat \ {0}) /\ \A i, j \in 1 .. Len(told') : told'[i] = told'[j] => i = j
  BY <1>1, <1>2 DEF StepInv
<1>16. QED
  BY <1>3, <1>4, <1>10, <1>11, <1>12, <1>13, <1>14, <1>15 DEF StepInv

(* A transition is told while it is somebody's, and by nobody else. *)
LEMMA OnceAnnounce ==
  ASSUME TypeInv, TypeInv', StepInv, NEW x \in Actor, Announce(x)
  PROVE  StepInv'
<1>1. /\ pc[x] = "announcing"
      /\ told' = IF Place(x) = 0 THEN told ELSE Append(told, Place(x))
      /\ pc' = [pc EXCEPT ![x] = IF Block(x).freeze = None \/ Taken(Block(x).freeze)
                                 THEN "window" ELSE "freezing"]
      /\ UNCHANGED <<clock, snaps, order, due>>
  BY DEF Announce, To, event
<1>2. pc[x] \in Stages /\ pc \in [Actor -> State] /\ due \in [Actor -> Seq(Item)]
  BY <1>1 DEF TypeInv, Stages
<1>3. /\ pc'[x] = (IF Block(x).freeze = None \/ Taken(Block(x).freeze)
                   THEN "window" ELSE "freezing")
      /\ \A y \in Actor \ {x} : pc'[y] = pc[y]
  BY <1>1, <1>2
<1>4. PICK place \in Nat : place = Place(x) /\ place = due[x][1].index /\ 1 \in 1 .. Len(due[x])
  BY <1>2, Delivering
<1>5. told \in Seq(Nat \ {0}) /\ Len(told) \in Nat
  BY DEF StepInv
<1>6. \A y \in Actor : \A k \in 1 .. Len(due[y]) : due[y][k].index # 0 =>
          /\ due[y][k].index <= clock.last
          /\ due[y][k].block = Template[due[y][k].index]
          /\ \A z \in Actor : \A l \in 1 .. Len(due[z]) :
                due[y][k].index = due[z][l].index => y = z /\ k = l
          /\ \A i \in 1 .. Len(told) : told[i] = due[y][k].index => ~Untold(y, k)
  BY DEF StepInv
<1>7. ASSUME place # 0
      PROVE  /\ Len(told') = Len(told) + 1 /\ told' \in Seq(Nat \ {0})
             /\ \A i \in 1 .. Len(told) : told'[i] = told[i] /\ told[i] # place
             /\ told'[Len(told) + 1] = place /\ place <= clock.last
  <2>1. told' = Append(told, place) /\ place \in Nat \ {0}
    BY <1>1, <1>4, <1>7
  <2>2. /\ Len(told') = Len(told) + 1 /\ told' \in Seq(Nat \ {0})
        /\ \A i \in 1 .. Len(told) : told'[i] = told[i]
        /\ told'[Len(told) + 1] = place
    BY <1>5, <2>1
  <2>3. Untold(x, 1) /\ place <= clock.last
    BY <1>1, <1>4, <1>6, <1>7 DEF Untold
  <2>4. \A i \in 1 .. Len(told) : told[i] # place
    BY <1>4, <1>6, <1>7, <2>3
  <2>5. QED
    BY <2>2, <2>3, <2>4
<1>8. place = 0 => told' = told
  BY <1>1, <1>4
<1>9. told' \in Seq(Nat \ {0})
  BY <1>5, <1>7, <1>8
<1>10. \A i \in 1 .. Len(told') : \/ i \in 1 .. Len(told) /\ told'[i] = told[i]
                                  \/ i = Len(told) + 1 /\ told'[i] = place /\ place # 0
  <2>1. CASE place = 0
    BY <1>8, <2>1
  <2>2. CASE place # 0
    <3> SUFFICES ASSUME NEW i \in 1 .. Len(told')
                 PROVE  \/ i \in 1 .. Len(told) /\ told'[i] = told[i]
                        \/ i = Len(told) + 1 /\ told'[i] = place /\ place # 0
      OBVIOUS
    <3>1. i \in 1 .. Len(told) \/ i = Len(told) + 1
      BY <1>5, <1>7, <2>2
    <3>2. QED
      BY <1>7, <2>2, <3>1
  <2>3. QED
    BY <2>1, <2>2
<1>11. \A i \in 1 .. Len(told') : told'[i] <= clock'.last
  BY <1>1, <1>7, <1>10 DEF StepInv
<1>12. ASSUME NEW i \in 1 .. Len(told'), NEW j \in 1 .. Len(told'), told'[i] = told'[j]
       PROVE  i = j
  <2>1. CASE i \in 1 .. Len(told) /\ j \in 1 .. Len(told)
    <3>1. told[i] = told[j]
      BY <1>5, <1>10, <1>12, <2>1
    <3>2. QED
      BY <2>1, <3>1 DEF StepInv
  <2>2. ASSUME NEW m \in 1 .. Len(told), place # 0 PROVE told'[m] # told'[Len(told) + 1]
    BY <1>7, <2>2
  <2>3. CASE i = Len(told) + 1 /\ place # 0 /\ j \in 1 .. Len(told)
    BY <1>12, <2>2, <2>3
  <2>4. CASE j = Len(told) + 1 /\ place # 0 /\ i \in 1 .. Len(told)
    BY <1>12, <2>2, <2>4
  <2>5. QED
    BY <1>10, <2>1, <2>3, <2>4
<1>13. ASSUME NEW y \in Actor, NEW k \in 1 .. Len(due[y]), due[y][k].index # 0,
              NEW i \in 1 .. Len(told'), told'[i] = due[y][k].index
       PROVE  ~Untold(y, k)'
  <2>1. CASE i \in 1 .. Len(told) /\ told'[i] = told[i]
    <3>1. ~Untold(y, k)
      BY <1>6, <1>13, <2>1
    <3>2. pc'[y] = "announcing" => pc[y] = "announcing"
      BY <1>3
    <3>3. QED
      BY <3>1, <3>2 DEF Untold
  <2>2. CASE told'[i] = place /\ place # 0
    <3>1. due[y][k].index = due[x][1].index
      BY <1>4, <1>13, <2>2
    <3>2. y = x /\ k = 1
      BY <1>4, <1>6, <1>13, <3>1
    <3>3. pc'[y] # "announcing"
      BY <1>3, <3>2
    <3>4. QED
      BY <3>2, <3>3 DEF Untold
  <2>3. QED
    BY <1>10, <2>1, <2>2
<1>14. \A y \in Actor : \A k \in 1 .. Len(due'[y]) : due'[y][k].index # 0 =>
          /\ due'[y][k].index <= clock'.last
          /\ due'[y][k].block = Template[due'[y][k].index]
          /\ \A z \in Actor : \A l \in 1 .. Len(due'[z]) :
                due'[y][k].index = due'[z][l].index => y = z /\ k = l
          /\ \A i \in 1 .. Len(told') : told'[i] = due'[y][k].index => ~Untold(y, k)'
  <2>1. due' = due /\ clock' = clock
    BY <1>1
  <2>2. \A y \in Actor : \A k \in 1 .. Len(due[y]) : due[y][k].index # 0 =>
           \A i \in 1 .. Len(told') : told'[i] = due[y][k].index => ~Untold(y, k)'
    BY <1>13
  <2>3. QED
    BY <1>6, <2>1, <2>2
<1>15. NeverMissed'
  BY <1>1 DEF StepInv, NeverMissed
<1>16. ~clock'.started =>
          /\ clock'.last = 0 /\ told' = <<>>
          /\ \A y \in Actor : \A k \in 1 .. Len(due'[y]) : due'[y][k].index = 0
          /\ \A o \in Organiser : pc'[o] \in {"changed", "ticking"} => ~TicksItself(o)'
  <2> SUFFICES ASSUME ~clock.started
               PROVE  /\ clock.last = 0 /\ told' = <<>>
                      /\ \A y \in Actor : \A k \in 1 .. Len(due[y]) : due[y][k].index = 0
                      /\ \A o \in Organiser : pc'[o] \in {"changed", "ticking"} => ~TicksItself(o)'
    BY <1>1
  <2>1. place = 0
    BY <1>4 DEF StepInv
  <2>2. \A o \in Organiser : pc'[o] \in {"changed", "ticking"} => pc'[o] = pc[o]
    BY <1>3 DEF Actor
  <2>3. QED
    BY <1>1, <1>8, <2>1, <2>2 DEF StepInv, TicksItself
<1>17. \A o \in Organiser : pc'[o] = "ticking" => TicksItself(o)'
  <2>1. \A o \in Organiser : pc'[o] = "ticking" => pc[o] = "ticking"
    BY <1>3 DEF Actor
  <2>2. QED
    BY <1>1, <2>1 DEF StepInv, TicksItself
<1>18. \A y \in Actor : pc'[y] \in {"storing", "window", "final"} =>
          Block(y)'.freeze = None \/ Block(y)'.freeze \in DOMAIN snaps'
  <2>1. \A y \in Actor : Block(y)' = Block(y)
    BY <1>1 DEF Block
  <2>2. QED
    BY <1>1, <1>3, <2>1 DEF StepInv, Taken
<1>19. clock'.blocks = Template
  BY <1>1 DEF StepInv
<1>20. QED
  BY <1>9, <1>11, <1>12, <1>14, <1>15, <1>16, <1>17, <1>18, <1>19 DEF StepInv

(* The next transition is delivered when the whole of one has been. *)
LEMMA OnceFinish ==
  ASSUME TypeInv, TypeInv', StepInv, NEW x \in Actor, Finish(x)
  PROVE  StepInv'
<1>1. /\ pc[x] = "final" /\ due' = [due EXCEPT ![x] = Tail(due[x])]
      /\ pc' = [pc EXCEPT ![x] = IF Len(due[x]) > 1 THEN "announcing" ELSE Rest(x)]
      /\ UNCHANGED <<clock, snaps, order, told>>
  BY DEF Finish, To
<1>2. pc[x] \in Stages /\ pc \in [Actor -> State] /\ due \in [Actor -> Seq(Item)]
  BY <1>1 DEF TypeInv, Stages
<1>3. /\ pc'[x] = (IF Len(due[x]) > 1 THEN "announcing" ELSE Rest(x))
      /\ \A y \in Actor \ {x} : pc'[y] = pc[y]
      /\ due'[x] = Tail(due[x])
      /\ \A y \in Actor \ {x} : due'[y] = due[y]
  BY <1>1, <1>2
<1>4. /\ due[x] \in Seq(Item) /\ Len(due[x]) \in Nat \ {0} /\ 1 \in 1 .. Len(due[x])
      /\ Block(x) = due[x][1].block
  BY <1>2, Delivering
<1>5. \A y \in Actor : \A k \in 1 .. Len(due[y]) : due[y][k].index # 0 =>
          /\ due[y][k].index <= clock.last
          /\ due[y][k].block = Template[due[y][k].index]
          /\ \A z \in Actor : \A l \in 1 .. Len(due[z]) :
                due[y][k].index = due[z][l].index => y = z /\ k = l
          /\ \A i \in 1 .. Len(told) : told[i] = due[y][k].index => ~Untold(y, k)
  BY DEF StepInv
<1>6. \A k \in 1 .. Len(due'[x]) : /\ k \in Nat /\ k + 1 \in 1 .. Len(due[x]) /\ k + 1 > 1
                                   /\ due'[x][k] = due[x][k + 1]
  BY <1>3, <1>4
<1>7. ASSUME NEW y \in Actor, NEW k \in 1 .. Len(due'[y])
      PROVE  \E m \in 1 .. Len(due[y]) : /\ due'[y][k] = due[y][m]
                                         /\ m = IF y = x THEN k + 1 ELSE k
                                         /\ Untold(y, k)' => Untold(y, m)
  <2>1. CASE y = x
    BY <1>6, <2>1 DEF Untold
  <2>2. CASE y # x
    BY <1>3, <2>2 DEF Untold
  <2>3. QED
    BY <2>1, <2>2
<1>8. ASSUME NEW y \in Actor, NEW k \in 1 .. Len(due'[y]), due'[y][k].index # 0
      PROVE  /\ due'[y][k].index <= clock'.last
             /\ due'[y][k].block = Template[due'[y][k].index]
             /\ \A z \in Actor : \A l \in 1 .. Len(due'[z]) :
                   due'[y][k].index = due'[z][l].index => y = z /\ k = l
             /\ \A i \in 1 .. Len(told') : told'[i] = due'[y][k].index => ~Untold(y, k)'
  <2>1. PICK m \in 1 .. Len(due[y]) : /\ due'[y][k] = due[y][m]
                                      /\ m = IF y = x THEN k + 1 ELSE k
                                      /\ Untold(y, k)' => Untold(y, m)
    BY <1>7
  <2>2. due[y][m].index # 0 /\ clock' = clock /\ told' = told
    BY <1>1, <1>8, <2>1
  <2>3. ASSUME NEW z \in Actor, NEW l \in 1 .. Len(due'[z]), due'[y][k].index = due'[z][l].index
        PROVE  y = z /\ k = l
    <3>1. PICK n \in 1 .. Len(due[z]) : /\ due'[z][l] = due[z][n]
                                        /\ n = IF z = x THEN l + 1 ELSE l
      BY <1>7
    <3>2. due[y][m].index = due[z][n].index
      BY <2>1, <2>3, <3>1
    <3>3. y = z /\ m = n
      BY <1>5, <2>2, <3>2
    <3>4. k \in Int /\ l \in Int
      OBVIOUS
    <3>5. QED
      BY <2>1, <3>1, <3>3, <3>4
  <2>4. due[y][m].index <= clock.last /\ due[y][m].block = Template[due[y][m].index]
    BY <1>5, <2>2
  <2>5. \A i \in 1 .. Len(told) : told[i] = due[y][m].index => ~Untold(y, m)
    BY <1>5, <2>2
  <2>6. QED
    BY <2>1, <2>2, <2>3, <2>4, <2>5
<1>9. NeverMissed'
  <2> SUFFICES ASSUME NEW i \in 1 .. clock.last,
                      clock.blocks[i].freeze # None, clock.blocks[i].freeze \notin DOMAIN snaps
               PROVE  \E y \in Actor : \E k \in DOMAIN due'[y] : due'[y][k].index = i
    BY <1>1 DEF NeverMissed
  <2>1. PICK y \in Actor : \E k \in DOMAIN due[y] : due[y][k].index = i
    BY DEF StepInv, NeverMissed
  <2>2. CASE y # x
    BY <1>3, <2>1, <2>2
  <2>3. CASE y = x
    <3>1. PICK k \in 1 .. Len(due[x]) : due[x][k].index = i
      BY <1>4, <2>1, <2>3
    <3>2. k # 1
      <4> SUFFICES ASSUME k = 1 PROVE FALSE
        OBVIOUS
      <4>1. i # 0
        BY DEF TypeInv, ClockOK
      <4>2. Block(x) = clock.blocks[i]
        BY <1>4, <1>5, <3>1, <4>1 DEF StepInv
      <4>3. Block(x).freeze = None \/ Block(x).freeze \in DOMAIN snaps
        BY <1>1 DEF StepInv
      <4>4. QED
        BY <4>2, <4>3
    <3>3. k - 1 \in 1 .. Len(due'[x]) /\ Len(due'[x]) \in Nat /\ k - 1 + 1 = k
      BY <1>3, <1>4, <3>1, <3>2
    <3>4. due'[x][k - 1] = due[x][k]
      BY <1>6, <3>3
    <3>5. DOMAIN due'[x] = 1 .. Len(due'[x])
      BY <1>3, <1>4
    <3>6. QED
      BY <3>1, <3>3, <3>4, <3>5
  <2>4. QED
    BY <2>2, <2>3
<1>10. \A y \in Actor : pc'[y] \in {"storing", "window", "final"} =>
          Block(y)'.freeze = None \/ Block(y)'.freeze \in DOMAIN snaps'
  <2>1. \A y \in Actor : pc'[y] \in {"storing", "window", "final"} =>
            pc[y] = pc'[y] /\ due'[y] = due[y]
    BY <1>3 DEF Rest
  <2>2. QED
    BY <1>1, <2>1 DEF StepInv, Block
<1>11. /\ \A o \in Organiser : pc'[o] = "ticking" => TicksItself(o)'
       /\ ~clock'.started =>
             \A o \in Organiser : pc'[o] \in {"changed", "ticking"} => ~TicksItself(o)'
  <2>1. \A o \in Organiser : pc'[o] \in {"changed", "ticking"} => pc'[o] = pc[o]
    BY <1>3 DEF Rest, Actor
  <2>2. QED
    BY <1>1, <2>1 DEF StepInv, TicksItself
<1>12. ~clock'.started =>
          /\ clock'.last = 0 /\ told' = <<>>
          /\ \A y \in Actor : \A k \in 1 .. Len(due'[y]) : due'[y][k].index = 0
  <2> SUFFICES ASSUME ~clock.started
               PROVE  /\ clock.last = 0 /\ told = <<>>
                      /\ \A y \in Actor : \A k \in 1 .. Len(due'[y]) : due'[y][k].index = 0
    BY <1>1
  <2>1. \A y \in Actor : \A k \in 1 .. Len(due[y]) : due[y][k].index = 0
    BY DEF StepInv
  <2>2. QED
    BY <1>7, <2>1 DEF StepInv
<1>13. /\ clock'.blocks = Template /\ told' \in Seq(Nat \ {0})
       /\ \A i \in 1 .. Len(told') : told'[i] <= clock'.last
       /\ \A i, j \in 1 .. Len(told') : told'[i] = told'[j] => i = j
  BY <1>1 DEF StepInv
<1>14. QED
  BY <1>8, <1>9, <1>10, <1>11, <1>12, <1>13 DEF StepInv

(* Every delivery, of whoever ticked. *)
LEMMA OnceDeliver ==
  ASSUME TypeInv, TypeInv', StepInv, NEW x \in Actor, Deliver(x)
  PROVE  StepInv'
<1>1. pc \in [Actor -> State]
  BY DEF TypeInv
<1>2. ASSUME NEW s \in {"storing", "window", "final"}, pc[x] \in Stages,
             pc' = [pc EXCEPT ![x] = s],
             UNCHANGED <<clock, order, told>>, DOMAIN snaps \subseteq DOMAIN snaps',
             \A y \in Actor : /\ Len(due'[y]) = Len(due[y])
                              /\ \A k \in 1 .. Len(due[y]) : /\ due'[y][k].index = due[y][k].index
                                                             /\ due'[y][k].block = due[y][k].block,
             \A y \in Actor : Block(y)' = Block(y),
             Block(x).freeze = None \/ Block(x).freeze \in DOMAIN snaps'
      PROVE  StepInv'
  <2>1. pc'[x] = s /\ \A y \in Actor \ {x} : pc'[y] = pc[y]
    BY <1>1, <1>2
  <2>2. \A y \in Actor : pc'[y] = "announcing" => pc[y] = "announcing"
    BY <2>1
  <2>3. \A y \in Actor : pc'[y] \in {"storing", "window", "final"} =>
            Block(y)'.freeze = None \/ Block(y)'.freeze \in DOMAIN snaps'
    BY <1>2, <2>1 DEF StepInv
  <2>4. /\ \A o \in Organiser : pc'[o] = "ticking" => TicksItself(o)
        /\ ~clock'.started =>
               \A o \in Organiser : pc'[o] \in {"changed", "ticking"} => ~TicksItself(o)
    <3>1. \A o \in Organiser : pc'[o] \in {"changed", "ticking"} => pc'[o] = pc[o]
      BY <2>1 DEF Actor
    <3>2. QED
      BY <1>2, <3>1 DEF StepInv
  <2>5. QED
    BY <1>2, <2>2, <2>3, <2>4, OnceQuiet
<1>3. CASE Freeze(x)
  <2>1. /\ pc[x] = "freezing" /\ pc' = [pc EXCEPT ![x] = "storing"]
        /\ snaps' = With(snaps, Block(x).freeze, now)
        /\ UNCHANGED <<clock, order, told>>
    BY <1>3 DEF Freeze, To
  <2>2. DOMAIN snaps' = DOMAIN snaps \cup {Block(x).freeze}
    BY <2>1 DEF With
  <2>3. /\ Len(due'[x]) = Len(due[x]) /\ Block(x)' = Block(x)
        /\ \A i \in 1 .. Len(due[x]) : /\ due'[x][i].index = due[x][i].index
                                       /\ due'[x][i].block = due[x][i].block
        /\ \A y \in Actor \ {x} : due'[y] = due[y]
    BY <1>3, <2>1, Valued DEF Stages
  <2>4. \A y \in Actor : Block(y)' = Block(y)
    BY <2>3 DEF Block
  <2>5. \A y \in Actor : /\ Len(due'[y]) = Len(due[y])
                         /\ \A k \in 1 .. Len(due[y]) : /\ due'[y][k].index = due[y][k].index
                                                        /\ due'[y][k].block = due[y][k].block
    BY <2>3
  <2>6. QED
    BY <1>2, <2>1, <2>2, <2>4, <2>5 DEF Stages
<1>4. CASE StoreSnapshot(x) \/ CloseWindow(x)
  <2>1. PICK s \in {"window", "final"} : pc' = [pc EXCEPT ![x] = s]
    BY <1>4 DEF StoreSnapshot, CloseWindow, To
  <2>2. pc[x] \in {"storing", "window"} /\ UNCHANGED <<clock, snaps, order, due, told>>
    BY <1>4 DEF StoreSnapshot, CloseWindow
  <2>3. Block(x).freeze = None \/ Block(x).freeze \in DOMAIN snaps'
    BY <2>2 DEF StepInv
  <2>4. \A y \in Actor : Block(y)' = Block(y)
    BY <2>2 DEF Block
  <2>5. QED
    BY <1>2, <2>1, <2>2, <2>3, <2>4 DEF Stages
<1>5. QED
  BY <1>3, <1>4, OnceTick, OnceAnnounce, OnceFinish DEF Deliver

(* A kill ends the run of steps that only go forward. *)
LEMMA NextOnce ==
  TypeInv /\ OnceInv /\ StartsEarly /\ [Next]_vars /\ TypeInv' => OnceInv'
<1> SUFFICES ASSUME TypeInv, OnceInv, StartsEarly, [Next]_vars, TypeInv', Stepping'
             PROVE  StepInv'
  BY DEF OnceInv
<1>1. order' = order
  BY DEF Next, Operation, Change, Start, StartAt, Pause, Resume, JumpTo, Nudge,
         SetBlockDuration, End, SetSchedule, SetFrozen, SetMarketOverride, SetWindowOverride,
         ReadNext, TakeSnapshot, Step, Persist, Deliver, Tick, Announce, Freeze, StoreSnapshot,
         CloseWindow, Finish, Pass, FormFunds, Break, Kill, vars
<1>2. kills' = 0
  BY DEF Stepping
<1>3. CASE Kill
  BY <1>2, <1>3 DEF Kill, TypeInv
<1>4. CASE kills' = kills
  <2>1. Stepping /\ StepInv
    BY <1>1, <1>2, <1>4 DEF Stepping, OnceInv
  <2>2. CASE \E o \in Organiser : Operation(o) \/ Step(o) \/ Persist(o)
    BY <2>1, <2>2, OnceOrganiser
  <2>3. CASE \E x \in Actor : Deliver(x)
    BY <2>1, <2>3, OnceDeliver
  <2>4. CASE Pass \/ FormFunds \/ Break \/ UNCHANGED vars
    <3>1. UNCHANGED <<clock, snaps, order, pc, due, told>>
      BY <2>4 DEF Pass, FormFunds, Break, vars, event
    <3>2. \A x \in Actor : Block(x)' = Block(x)
      BY <3>1 DEF Block
    <3>3. \A x \in Actor : pc'[x] \in {"storing", "window", "final"} =>
              Block(x)'.freeze = None \/ Block(x)'.freeze \in DOMAIN snaps'
      BY <2>1, <3>1, <3>2 DEF StepInv
    <3>4. /\ \A o \in Organiser : pc'[o] = "ticking" => TicksItself(o)
          /\ ~clock'.started =>
                 \A o \in Organiser : pc'[o] \in {"changed", "ticking"} => ~TicksItself(o)
      BY <2>1, <3>1 DEF StepInv
    <3>5. QED
      BY <2>1, <3>1, <3>3, <3>4, OnceQuiet
  <2>5. CASE Kill
    BY <1>3, <2>5
  <2>6. QED
    BY <2>2, <2>3, <2>4, <2>5 DEF Next
<1>5. kills' = kills \/ Kill
  BY DEF Next, Operation, Change, Start, StartAt, Pause, Resume, JumpTo, Nudge,
         SetBlockDuration, End, SetSchedule, SetFrozen, SetMarketOverride, SetWindowOverride,
         ReadNext, TakeSnapshot, Step, Persist, Deliver, Tick, Announce, Freeze, StoreSnapshot,
         CloseWindow, Finish, Pass, FormFunds, Break, vars
<1>6. QED
  BY <1>3, <1>4, <1>5

(* At the start nothing is told or due. *)
LEMMA InitOnce == Init => OnceInv
<1> SUFFICES ASSUME Init PROVE StepInv
  BY DEF OnceInv
<1>1. /\ \A x \in Actor : pc[x] = "idle" /\ due[x] = <<>> /\ Len(due[x]) = 0
      /\ Organiser \subseteq Actor
  BY DEF Init, Actor
<1>2. clock.blocks = Template /\ clock.last = 0
  BY DEF Init, FreshClock
<1>3. told = <<>> /\ Len(told) = 0 /\ told \in Seq(Nat \ {0})
  BY DEF Init
<1>4. NeverMissed
  BY <1>2 DEF NeverMissed
<1>5. QED
  BY <1>1, <1>2, <1>3, <1>4 DEF StepInv

(* As long as nobody moves the event but by steps, no block's transition   *)
(* is announced twice and no freeze is lost, however many goroutines tick  *)
(* at the same time and however far their deliveries lag (Tick takes what  *)
(* is due under the clock's lock, onTransition runs outside it).           *)
THEOREM TransitionsOnce == StartsEarly /\ Spec => []EveryBlockOnce
<1> SUFFICES ASSUME StartsEarly PROVE Spec => []EveryBlockOnce
  OBVIOUS
<1>1. TypeInv /\ TypeInv' /\ OnceInv /\ [Next]_vars => OnceInv'
  BY NextOnce
<1>2. OnceInv => EveryBlockOnce
  <2> SUFFICES ASSUME StepInv
               PROVE  NeverMissed /\ \A i, j \in DOMAIN told : told[i] = told[j] => i = j
    BY DEF OnceInv, EveryBlockOnce
  <2>1. told \in Seq(Nat \ {0})
    BY DEF StepInv
  <2>2. DOMAIN told = 1 .. Len(told)
    BY <2>1
  <2>3. QED
    BY <2>2 DEF StepInv
<1>3. QED
  BY <1>1, <1>2, InitOnce, ClockStands, PTL DEF Spec
-----------------------------------------------------------------------------
(* Where blocks start, and what the event has entered.                     *)
Plus == [p \in Nat \X Nat |-> p[1] + p[2]]

(* The fold that adds lengths up takes them one by one. *)
LEMMA SumSteps ==
  ASSUME NEW d \in Seq(Nat)
  PROVE  FoldLeft(+, 0, d) = Folded(Plus, 0, d)
<1> DEFINE It(h) == h = [e \in SUBSET (DOMAIN d) |->
                           IF e = {} THEN 0 ELSE h[e \ {Max(e)}] + d[Max(e)]]
           it == CHOOSE h : h = [e \in SUBSET (DOMAIN d) |->
                           IF e = {} THEN 0 ELSE h[e \ {Max(e)}] + d[Max(e)]]
<1>1. Plus \in [Nat \X Nat -> Nat]
  BY DEF Plus
<1>2. \A a, b \in Nat : Plus[<<a, b>>] = a + b
  BY DEF Plus
<1>3. PICK f : f \in [SUBSET (DOMAIN d) -> Nat] /\ Steps(Plus, 0, d, f)
  BY <1>1, StepsExist
<1>4. Len(d) \in Nat /\ DOMAIN d = 1 .. Len(d) /\ \A i \in 1 .. Len(d) : d[i] \in Nat
  OBVIOUS
<1>5. It(f)
  <2>1. ASSUME NEW e \in SUBSET (DOMAIN d), e # {}
        PROVE  Plus[<<f[e \ {Max(e)}], d[Max(e)]>>] = f[e \ {Max(e)}] + d[Max(e)]
    <3>1. Max(e) \in e
      <4>1. PICK m \in e : \A y \in e : m >= y
        BY <1>4, <2>1, Greatest
      <4>2. QED
        BY <4>1 DEF Max
    <3>2. d[Max(e)] \in Nat /\ f[e \ {Max(e)}] \in Nat
      BY <1>3, <1>4, <3>1
    <3>3. QED
      BY <1>2, <3>2
  <2>2. \A e \in SUBSET (DOMAIN d) :
           (IF e = {} THEN 0 ELSE Plus[<<f[e \ {Max(e)}], d[Max(e)]>>])
             = (IF e = {} THEN 0 ELSE f[e \ {Max(e)}] + d[Max(e)])
    BY <2>1
  <2>3. QED
    BY <1>3, <2>2 DEF Steps
<1>6. It(it)
  BY <1>5
<1>7. Climbs(Nat, Plus, 0, d, it)
  <2>1. it[{}] = 0
    BY <1>6
  <2>2. ASSUME NEW k \in 1 .. Len(d), it[1 .. k - 1] \in Nat
        PROVE  it[1 .. k] = Plus[<<it[1 .. k - 1], d[k]>>]
    <3>1. k \in Nat \ {0} /\ k <= Len(d) /\ d[k] \in Nat
      BY <1>4
    <3>2. /\ (1 .. k) \ {k} = 1 .. k - 1 /\ 1 .. k # {}
          /\ 1 .. k \in SUBSET (1 .. Len(d)) /\ Max(1 .. k) = k
      BY <1>4, <3>1, UpTo
    <3>3. \A e \in SUBSET (1 .. Len(d)) : e # {} => it[e] = it[e \ {Max(e)}] + d[Max(e)]
      BY <1>4, <1>6
    <3>4. it[1 .. k] = it[1 .. k - 1] + d[k]
      BY <3>2, <3>3
    <3>5. QED
      BY <1>2, <2>2, <3>1, <3>4
  <2> HIDE DEF it
  <2>3. QED
    BY <2>1, <2>2 DEF Climbs
<1>8. it[1 .. Len(d)] = Folded(Plus, 0, d)
  <2>1. PICK h : h = it
    OBVIOUS
  <2> HIDE DEF it
  <2>2. Climbs(Nat, Plus, 0, d, h)
    BY <1>7, <2>1
  <2>3. h[1 .. Len(d)] = Folded(Plus, 0, d) /\ Folded(Plus, 0, d) \in Nat
    BY <1>1, <2>2, FoldIs
  <2>4. QED
    BY <2>1, <2>3
<1>9. FoldLeft(+, 0, d) = it[DOMAIN d]
  BY DEF FoldLeft, MapThenFoldSet
<1>10. QED
  BY <1>4, <1>8, <1>9

(* A block starts where the one before it ends. *)
LEMMA StartsFollow ==
  ASSUME NEW c, c.dur \in Seq(Nat)
  PROVE  /\ StartOf(c, 1) = 0
         /\ \A i \in 1 .. Len(c.dur) + 1 : StartOf(c, i) \in Nat
         /\ \A i \in 1 .. Len(c.dur) : StartOf(c, i + 1) = StartOf(c, i) + c.dur[i]
<1>1. PICK d : d = c.dur
  OBVIOUS
<1>2. d \in Seq(Nat) /\ Len(d) \in Nat /\ \A i \in 1 .. Len(d) : d[i] \in Nat
  BY <1>1
<1>3. \A a, b \in Nat : Plus[<<a, b>>] = a + b
  BY DEF Plus
<1>4. /\ Folded(Plus, 0, <<>>) = 0
      /\ \A s \in Seq(Nat) : Folded(Plus, 0, s) \in Nat
      /\ \A s \in Seq(Nat), x \in Nat :
            Folded(Plus, 0, Append(s, x)) = Plus[<<Folded(Plus, 0, s), x>>]
  <2>1. IsStep(Plus, Nat, Nat) /\ 0 \in Nat
    BY DEF IsStep, Plus
  <2>2. Folded(Plus, 0, <<>>) = 0
    BY FoldBase
  <2>3. /\ \A s \in Seq(Nat) : Folded(Plus, 0, s) \in Nat
        /\ \A s \in Seq(Nat), x \in Nat :
              Folded(Plus, 0, Append(s, x)) = Plus[<<Folded(Plus, 0, s), x>>]
    <3>1. PICK N, z : N = Nat /\ z = 0
      OBVIOUS
    <3>2. IsStep(Plus, N, N) /\ z \in N
      BY <2>1, <3>1
    <3>3. /\ \A s \in Seq(N) : Folded(Plus, z, s) \in N
          /\ \A s \in Seq(N), x \in N :
                Folded(Plus, z, Append(s, x)) = Plus[<<Folded(Plus, z, s), x>>]
      BY <3>2, FoldSteps
    <3>4. QED
      BY <3>1, <3>3
  <2>4. QED
    BY <2>2, <2>3
<1>5. ASSUME NEW i \in 1 .. Len(d) + 1
      PROVE  SubSeq(d, 1, i - 1) \in Seq(Nat) /\ StartOf(c, i) = Folded(Plus, 0, SubSeq(d, 1, i - 1))
  <2>1. SubSeq(d, 1, i - 1) \in Seq(Nat)
    BY <1>2
  <2>2. FoldLeft(+, 0, SubSeq(d, 1, i - 1)) = Folded(Plus, 0, SubSeq(d, 1, i - 1))
    BY <2>1, SumSteps
  <2>3. QED
    BY <1>1, <2>1, <2>2, Zenon DEF StartOf
<1>6. StartOf(c, 1) = 0
  <2>1. 1 \in 1 .. Len(d) + 1 /\ SubSeq(d, 1, 1 - 1) = <<>>
    BY <1>2
  <2>2. QED
    BY <1>4, <1>5, <2>1
<1>7. ASSUME NEW i \in 1 .. Len(d)
      PROVE  StartOf(c, i + 1) = StartOf(c, i) + d[i]
  <2>1. i \in 1 .. Len(d) + 1 /\ i + 1 \in 1 .. Len(d) + 1 /\ (i + 1) - 1 = i /\ d[i] \in Nat
    BY <1>2
  <2>2. SubSeq(d, 1, i) = Append(SubSeq(d, 1, i - 1), d[i])
    BY <1>2
  <2>3. StartOf(c, i + 1) = Plus[<<Folded(Plus, 0, SubSeq(d, 1, i - 1)), d[i]>>]
    <3>1. SubSeq(d, 1, i - 1) \in Seq(Nat) /\ StartOf(c, i + 1) = Folded(Plus, 0, SubSeq(d, 1, i))
      BY <1>5, <2>1
    <3>2. QED
      BY <1>4, <2>1, <2>2, <3>1
  <2>4. QED
    BY <1>3, <1>4, <1>5, <2>1, <2>3
<1>8. QED
  BY <1>1, <1>4, <1>5, <1>6, <1>7

(* The starts of the blocks only rise. *)
LEMMA StartsRise ==
  ASSUME NEW c, c.dur \in Seq(Nat)
  PROVE  \A i, j \in 1 .. Len(c.dur) + 1 : i <= j => StartOf(c, i) <= StartOf(c, j)
<1>1. PICK n : n = Len(c.dur)
  OBVIOUS
<1>2. PICK s : s = [i \in 1 .. n + 1 |-> StartOf(c, i)]
  OBVIOUS
<1>3. /\ n \in Nat /\ \A i \in 1 .. n : c.dur[i] \in Nat
      /\ \A i \in 1 .. n + 1 : s[i] \in Nat /\ s[i] = StartOf(c, i)
      /\ \A i \in 1 .. n : s[i + 1] = s[i] + c.dur[i]
  <2>1. n \in Nat /\ \A i \in 1 .. n : c.dur[i] \in Nat
    BY <1>1
  <2>2. \A i \in 1 .. n + 1 : StartOf(c, i) \in Nat
    BY <1>1, StartsFollow
  <2>3. \A i \in 1 .. n : StartOf(c, i + 1) = StartOf(c, i) + c.dur[i]
    BY <1>1, StartsFollow
  <2>4. \A i \in 1 .. n + 1 : s[i] = StartOf(c, i)
    BY <1>2
  <2>5. ASSUME NEW i \in 1 .. n PROVE s[i + 1] = s[i] + c.dur[i]
    <3>1. i \in 1 .. n + 1 /\ i + 1 \in 1 .. n + 1
      BY <2>1
    <3>2. QED
      BY <2>3, <2>4, <3>1
  <2>6. QED
    BY <2>1, <2>2, <2>4, <2>5
<1> DEFINE S == {j \in Nat : j + 1 <= n + 1 => \A i \in 1 .. j + 1 : s[i] <= s[j + 1]}
<1>4. 0 \in S
  BY <1>3
<1>5. ASSUME NEW j \in Nat, j \in S PROVE j + 1 \in S
  <2> SUFFICES ASSUME (j + 1) + 1 <= n + 1
               PROVE  \A i \in 1 .. (j + 1) + 1 : s[i] <= s[(j + 1) + 1]
    OBVIOUS
  <2>0. j + 1 <= n /\ (j + 1) + 1 = j + 2
    BY <1>3
  <2> SUFFICES ASSUME NEW i \in 1 .. j + 2 PROVE s[i] <= s[j + 2]
    BY <2>0
  <2>1. s[j + 2] = s[j + 1] + c.dur[j + 1] /\ c.dur[j + 1] \in Nat /\ s[j + 1] \in Nat
    <3>1. j + 1 \in 1 .. n /\ j + 1 \in 1 .. n + 1 /\ (j + 1) + 1 = j + 2
      BY <1>3, <2>0
    <3>2. QED
      BY <1>3, <3>1
  <2>2. CASE i = j + 2
    BY <2>1, <2>2
  <2>3. CASE i \in 1 .. j + 1
    <3>1. s[i] <= s[j + 1] /\ s[i] \in Nat
      BY <1>3, <1>5, <2>0, <2>3
    <3>2. QED
      BY <2>1, <3>1
  <2>4. QED
    BY <2>2, <2>3
<1> HIDE DEF S
<1>6. \A j \in Nat : j \in S
  BY <1>4, <1>5, Numbers
<1> USE DEF S
<1>7. ASSUME NEW i \in 1 .. n + 1, NEW j \in 1 .. n + 1, i <= j PROVE s[i] <= s[j]
  <2>1. j - 1 \in Nat /\ (j - 1) + 1 = j /\ i \in 1 .. j
    BY <1>3, <1>7
  <2>2. j - 1 \in S
    BY <1>6, <2>1
  <2>3. QED
    BY <1>3, <2>1, <2>2
<1>8. QED
  BY <1>1, <1>3, <1>7

(* The event is in block k or further once it has run as long as the       *)
(* blocks before k take.                                                   *)
LEMMA Position ==
  ASSUME NEW c, c.dur \in Seq(Nat), c.started, NEW t, Elapsed(c, t) \in Int
  PROVE  /\ Index(c, t) \in 1 .. Len(c.dur) + 1
         /\ \A k \in 2 .. Len(c.dur) + 1 : k <= Index(c, t) <=> StartOf(c, k) <= Elapsed(c, t)
<1>1. PICK n, e : n = Len(c.dur) /\ e = Elapsed(c, t)
  OBVIOUS
<1>2. n \in Nat /\ DOMAIN c.dur = 1 .. n /\ e \in Int
  BY <1>1
<1>3. PICK E : E = {i \in 1 .. n : StartOf(c, i + 1) <= e}
  OBVIOUS
<1>4. Index(c, t) = Cardinality(E) + 1
  BY <1>1, <1>2, <1>3 DEF Index
<1>5. \E m \in 0 .. n : E = 1 .. m
  <2>1. CASE E = {}
    <3>1. 1 .. 0 = {} /\ 0 \in 0 .. n
      BY <1>2
    <3>2. QED
      BY <2>1, <3>1
  <2>2. CASE E # {}
    <3>1. PICK m \in E : \A y \in E : m >= y
      BY <1>2, <1>3, <2>2, Greatest
    <3>2. m \in 1 .. n /\ StartOf(c, m + 1) <= e
      BY <1>3
    <3>3. ASSUME NEW i \in 1 .. m PROVE i \in E
      <4>1. i \in 1 .. n /\ i + 1 \in 1 .. n + 1 /\ m + 1 \in 1 .. n + 1 /\ i + 1 <= m + 1
        BY <1>2, <3>2
      <4>2. StartOf(c, i + 1) <= StartOf(c, m + 1)
        BY <1>1, <4>1, StartsRise
      <4>3. StartOf(c, i + 1) \in Nat /\ StartOf(c, m + 1) \in Nat
        BY <1>1, <4>1, StartsFollow
      <4>4. QED
        BY <1>2, <1>3, <3>2, <4>1, <4>2, <4>3
    <3>4. \A i \in E : i \in 1 .. m
      BY <1>3, <3>1, <3>2
    <3>5. E = 1 .. m
      BY <3>3, <3>4
    <3>6. m \in 0 .. n
      BY <1>2, <3>2
    <3>7. QED
      BY <3>5, <3>6
  <2>3. QED
    BY <2>1, <2>2
<1>6. PICK m \in 0 .. n : E = 1 .. m
  BY <1>5
<1>7. Cardinality(E) = m
  <2>1. m \in Nat /\ Cardinality(1 .. m) = IF 1 > m THEN 0 ELSE m - 1 + 1
    BY <1>2, <1>6, FS_Interval
  <2>2. QED
    BY <1>6, <2>1
<1>8. Index(c, t) = m + 1
  BY <1>4, <1>7
<1>9. ASSUME NEW k \in 2 .. n + 1 PROVE k <= m + 1 <=> StartOf(c, k) <= e
  <2>1. k - 1 \in 1 .. n /\ (k - 1) + 1 = k
    BY <1>2
  <2>2. k - 1 \in E <=> StartOf(c, k) <= e
    BY <1>3, <2>1
  <2>3. k - 1 \in E <=> k - 1 <= m
    BY <1>6, <2>1
  <2>4. QED
    BY <1>2, <1>6, <2>1, <2>2, <2>3
<1>10. m + 1 \in 1 .. n + 1
  BY <1>2
<1>11. QED
  BY <1>1, <1>8, <1>9, <1>10

(* A clock whose past is the same and which has run as long is as far. *)
LEMMA AsFar ==
  ASSUME NEW c, NEW d, c.dur \in Seq(Nat), d.dur \in Seq(Nat), Len(d.dur) = Len(c.dur),
         c.started, d.started, NEW t, NEW u, Elapsed(c, t) \in Int, Elapsed(d, u) \in Int,
         Elapsed(c, t) <= Elapsed(d, u),
         \A j \in 1 .. Index(c, t) : StartOf(d, j) = StartOf(c, j)
  PROVE  Index(c, t) <= Index(d, u)
<1>1. PICK k, n : k = Index(c, t) /\ n = Len(c.dur)
  OBVIOUS
<1>2. n \in Nat /\ k \in 1 .. n + 1 /\ Index(d, u) \in 1 .. n + 1
  BY <1>1, Position
<1>3. CASE k = 1
  BY <1>1, <1>2, <1>3
<1>4. CASE k # 1
  <2>1. k \in 2 .. n + 1 /\ k \in 1 .. k /\ k <= k
    BY <1>2, <1>4
  <2>2. StartOf(c, k) <= Elapsed(c, t)
    BY <1>1, <2>1, Position
  <2>3. StartOf(d, k) = StartOf(c, k) /\ StartOf(c, k) \in Nat
    BY <1>1, <1>2, <2>1, StartsFollow
  <2>4. StartOf(d, k) <= Elapsed(d, u)
    BY <2>2, <2>3
  <2>5. QED
    BY <1>1, <2>1, <2>4, Position
<1>5. QED
  BY <1>3, <1>4

(* A clock that has run as long as the blocks before i take is in i, or    *)
(* further.                                                                *)
LEMMA Arrived ==
  ASSUME NEW c, c.dur \in Seq(Nat), c.started, NEW t, NEW i \in 1 .. Len(c.dur) + 1,
         Elapsed(c, t) = StartOf(c, i)
  PROVE  i <= Index(c, t)
<1>1. PICK n : n = Len(c.dur)
  OBVIOUS
<1>2. StartOf(c, i) \in Nat
  BY StartsFollow
<1>3. Index(c, t) \in 1 .. n + 1 /\ (i \in 2 .. n + 1 => i <= Index(c, t))
  BY <1>1, <1>2, Position
<1>4. QED
  BY <1>1, <1>3

-----------------------------------------------------------------------------
(* While the event only goes forward, a step that was made has been        *)
(* reached, and the one being made leads further.                          *)
IdsDiffer ==
    \A i, j \in DOMAIN Template : Template[i].id = Template[j].id => i = j

Nexts == {o \in Organiser : order[o].do = "next"}

Asking == {"starting", "stepping"}
Made   == {"changed", "ticking", "done"} \cup Stages
Busy   == (Asking \cup Made) \ {"done"}

(* The clock of an event that is only stepped. *)
Forward(c) ==
    /\ c.blocks = Template /\ c.ov = NoOverride
    /\ c.offset \in Int /\ c.dur \in Seq(Nat)

(* The step o made, if it was for a certain one: the event has got there. *)
Reached(o) ==
    order[o].to # None =>
        \E i \in DOMAIN Template : Template[i].id = order[o].to /\ i <= Index(clock, now)

(* The step o is making is not made, and leads further than p's. *)
Further(o, p) ==
    order[p].to # None =>
        \A i, j \in DOMAIN Template :
            Template[i].id = target[o] /\ Template[j].id = order[p].to => j < i

ForwardInv ==
    /\ Forward(clock) /\ target = [o \in Organiser |-> target[o]]
    /\ \A o \in Organiser : pc[o] \in Asking => o \in Nexts
    /\ \A o, p \in Nexts : pc[o] \in Busy /\ pc[p] \in Busy => o = p
    /\ \A o \in Nexts :
          /\ pc[o] \in Made => clock.started /\ Reached(o)
          /\ pc[o] \in Asking => order[o].to \in {None, target[o]}
          /\ pc[o] = "starting" => Len(Template) > 0 /\ target[o] = Template[1].id
          /\ pc[o] = "stepping" => clock.started
    /\ \A o, p \in Nexts : pc[o] = "stepping" /\ pc[p] \in Made => Further(o, p)
    /\ \A o, p \in Nexts :
          pc[o] \in Made /\ pc[p] \in Made /\ order[o].to = order[p].to /\ order[o].to # None
          => o = p

(* A step of somebody that brings nobody's step further. *)
LEMMA ForwardQuiet ==
  ASSUME ForwardInv, Forward(clock'), order' = order, target' = target,
         clock.started => clock'.started /\ Index(clock, now) <= Index(clock', now'),
         now \in Nat, now' \in Nat, ClockOK(clock), ClockOK(clock'),
         \A o \in Nexts :
            /\ pc'[o] \in Asking => pc'[o] = pc[o]
            /\ pc'[o] \in Busy => pc[o] \in Busy
            /\ pc'[o] \in Made => pc[o] \in Made,
         \A o \in Organiser : pc'[o] \in Asking => pc[o] \in Asking
  PROVE  ForwardInv'
<1>1. Nexts' = Nexts
  BY DEF Nexts
<1>2. ASSUME NEW o \in Nexts, pc'[o] \in Made
      PROVE  clock'.started /\ Reached(o)'
  <2>1. pc[o] \in Made
    BY <1>2
  <2>2. clock.started /\ Reached(o)
    BY <2>1 DEF ForwardInv
  <2>3. CASE order[o].to = None
    BY <2>2, <2>3 DEF Reached
  <2>4. CASE order[o].to # None
    <3>1. PICK i \in DOMAIN Template : Template[i].id = order[o].to /\ i <= Index(clock, now)
      BY <2>2, <2>4 DEF Reached
    <3>2. i \in Nat /\ Index(clock, now) \in Nat /\ Index(clock', now') \in Nat
      <4>1. i \in Nat
        BY BlocksKnown
      <4>2. QED
        BY <4>1, IndexOK
    <3>3. i <= Index(clock', now')
      BY <2>2, <3>1, <3>2
    <3>4. QED
      BY <2>2, <3>1, <3>3 DEF Reached
  <2>5. QED
    BY <2>3, <2>4
<1>3. ASSUME NEW o \in Nexts
      PROVE  /\ pc'[o] \in Asking => order[o].to \in {None, target[o]}
             /\ pc'[o] = "starting" => Len(Template) > 0 /\ target[o] = Template[1].id
             /\ pc'[o] = "stepping" => clock'.started
  BY DEF ForwardInv, Asking
<1>4. ASSUME NEW o \in Nexts, NEW p \in Nexts, pc'[o] = "stepping", pc'[p] \in Made
      PROVE  Further(o, p)'
  <2>1. pc[o] = "stepping" /\ pc[p] \in Made
    BY <1>4 DEF Asking
  <2>2. Further(o, p)
    BY <2>1 DEF ForwardInv
  <2>3. QED
    BY <2>2 DEF Further
<1>5. \A o \in Organiser : pc'[o] \in Asking => o \in Nexts
  BY DEF ForwardInv
<1>6. \A o, p \in Nexts : pc'[o] \in Busy /\ pc'[p] \in Busy => o = p
  BY DEF ForwardInv
<1>7. \A o, p \in Nexts :
          pc'[o] \in Made /\ pc'[p] \in Made /\ order[o].to = order[p].to /\ order[o].to # None
          => o = p
  BY DEF ForwardInv
<1>8. QED
  BY <1>1, <1>2, <1>3, <1>4, <1>5, <1>6, <1>7 DEF ForwardInv

(* What moves the clock of an event that is only stepped, but for a step   *)
(* itself, leaves it as far as it was, or further.                         *)
LEMMA Onwards ==
  ASSUME TypeInv, ForwardInv, Stepping, NEW o \in Organiser,
         StartAt(o) \/ Pause(o) \/ Resume(o) \/ (Step(o) /\ pc[o] = "starting")
  PROVE  /\ Forward(clock')
         /\ clock.started => clock'.started /\ Index(clock, now) <= Index(clock', now')
<1> DEFINE c == clock
<1>1. /\ c = [f \in Fields |-> c[f]] /\ ClockOK(c) /\ Forward(c)
      /\ now' = now /\ now \in Nat /\ c.startedAt \in Int /\ c.pausedAt \in Int
      /\ c.offset \in Int /\ c.dur \in Seq(Nat) /\ Len(c.dur) = Len(Template)
  <2>1. now' = now
    BY DEF StartAt, Pause, Resume, Step, Change
  <2>2. QED
    BY <2>1 DEF TypeInv, ClockOK, ForwardInv, Forward
<1>2. Elapsed(c, now) \in Int
  BY <1>1 DEF Elapsed
<1>3. Index(c, now) \in Nat
  BY <1>1, IndexOK
<1>4. ASSUME NEW i \in DOMAIN Template, clock' = AtBlock(c, i), ~c.started PROVE Forward(clock')
  <2>1. i \in 1 .. Len(c.dur)
    BY <1>1, BlocksKnown
  <2>2. StartOf(c, i) \in Nat
    BY <1>1, <2>1, StartsFollow
  <2>3. /\ clock'.blocks = c.blocks /\ clock'.ov = c.ov /\ clock'.dur = c.dur
        /\ clock'.offset = StartOf(c, i)
    BY <1>1, <1>4 DEF AtBlock, Fields
  <2>4. QED
    BY <1>1, <2>2, <2>3 DEF Forward
<1>5. CASE StartAt(o)
  <2>1. ~c.started /\ \E i \in IndexOf(c, order[o].block) : clock' = AtBlock(c, i)
    BY <1>5 DEF StartAt, Change
  <2>2. PICK i \in DOMAIN Template : clock' = AtBlock(c, i)
    BY <1>1, <2>1 DEF IndexOf, Forward
  <2>3. QED
    BY <1>4, <2>1, <2>2
<1>6. CASE Step(o) /\ pc[o] = "starting"
  <2>1. (~c.started /\ clock' = AtBlock(c, 1)) \/ clock' = clock
    BY <1>6 DEF Step, Change
  <2>2. 1 \in DOMAIN Template
    BY <1>6, BlocksKnown DEF ForwardInv, Asking
  <2>3. CASE ~c.started /\ clock' = AtBlock(c, 1)
    BY <1>4, <2>2, <2>3
  <2>4. CASE clock' = clock
    BY <1>1, <1>3, <2>4
  <2>5. QED
    BY <2>1, <2>3, <2>4
<1>7. CASE Pause(o)
  <2>1. c.started /\ ~c.paused /\ clock' = [c EXCEPT !.paused = TRUE, !.pausedAt = now]
    BY <1>7 DEF Pause, Running, Change
  <2>2. /\ clock'.blocks = c.blocks /\ clock'.ov = c.ov /\ clock'.dur = c.dur
        /\ clock'.offset = c.offset /\ clock'.started = c.started
        /\ clock'.paused = TRUE /\ clock'.pausedAt = now /\ clock'.startedAt = c.startedAt
    BY <1>1, <2>1 DEF Fields
  <2>3. Elapsed(clock', now) = Elapsed(c, now)
    BY <2>1, <2>2 DEF Elapsed
  <2>4. \A j : StartOf(clock', j) = StartOf(c, j)
    BY <2>2 DEF StartOf
  <2>5. Index(c, now) <= Index(clock', now)
    <3>1. PICK e : e = clock'
      OBVIOUS
    <3>2. /\ c.dur \in Seq(Nat) /\ e.dur = c.dur /\ c.started /\ e.started
          /\ Elapsed(c, now) \in Int /\ Elapsed(e, now) \in Int
          /\ Elapsed(c, now) <= Elapsed(e, now)
      BY <1>1, <1>2, <2>1, <2>2, <2>3, <3>1
    <3>3. \A j \in 1 .. Index(c, now) : StartOf(e, j) = StartOf(c, j)
      BY <2>4, <3>1
    <3> HIDE DEF c
    <3>4. e.dur \in Seq(Nat) /\ Len(e.dur) = Len(c.dur)
      BY <3>2
    <3>5. QED
      BY <3>1, <3>2, <3>3, <3>4, AsFar
  <2>6. QED
    BY <1>1, <2>1, <2>2, <2>5 DEF Forward
<1>8. CASE Resume(o)
  <2>1. PICK u : u = Unpaused(c)
    OBVIOUS
  <2>2. c.started /\ c.paused
    BY <1>8 DEF Resume
  <2>3. /\ u = [f \in Fields |-> u[f]]
        /\ u.blocks = c.blocks /\ u.ov = c.ov /\ u.dur = c.dur
        /\ u.offset = c.offset /\ u.started = c.started
        /\ u.paused = FALSE /\ u.startedAt = c.startedAt + (now - c.pausedAt)
    BY <1>1, <2>1 DEF Unpaused, Fields
  <2>4. ASSUME NEW e, e.dur \in Seq(Nat), Len(e.dur) = Len(c.dur),
               e.blocks = u.blocks, e.ov = u.ov, e.offset = u.offset, e.started = u.started,
               e.paused = u.paused, e.startedAt = u.startedAt,
               \A j \in 1 .. Index(c, now) : StartOf(e, j) = StartOf(c, j)
        PROVE  Forward(e) /\ e.started /\ Index(c, now) <= Index(e, now)
    <3>1. Elapsed(e, now) = Elapsed(c, now)
      BY <1>1, <2>2, <2>3, <2>4 DEF Elapsed
    <3>2. /\ c.dur \in Seq(Nat) /\ e.started /\ Elapsed(e, now) \in Int
          /\ Elapsed(c, now) \in Int /\ Elapsed(c, now) <= Elapsed(e, now)
      BY <1>1, <1>2, <2>2, <2>3, <2>4, <3>1
    <3>3. Index(c, now) <= Index(e, now)
      <4> HIDE DEF c
      <4>1. QED
        BY <2>2, <2>4, <3>2, AsFar
    <3>4. QED
      BY <1>1, <2>2, <2>3, <2>4, <3>2, <3>3 DEF Forward
  <2>5. CASE clock' = u
    <3>1. \A j : StartOf(u, j) = StartOf(c, j)
      BY <2>3 DEF StartOf
    <3>2. QED
      BY <1>1, <2>3, <2>4, <2>5, <3>1
  <2>6. CASE \E i \in IndexOf(c, order[o].compress) :
                /\ i > Index(c, now)
                /\ clock' = [u EXCEPT !.dur[i] = @ - (IF now - c.pausedAt < c.dur[i] - 1
                                                      THEN now - c.pausedAt ELSE c.dur[i] - 1)]
    <3>1. PICK i \in IndexOf(c, order[o].compress) :
                /\ i > Index(c, now)
                /\ clock' = [u EXCEPT !.dur[i] = @ - (IF now - c.pausedAt < c.dur[i] - 1
                                                      THEN now - c.pausedAt ELSE c.dur[i] - 1)]
      BY <2>6
    <3>2. i \in 1 .. Len(c.dur)
      BY <1>1 DEF IndexOf, ClockOK
    <3>3. PICK d : d = c.dur[i] - (IF now - c.pausedAt < c.dur[i] - 1
                                   THEN now - c.pausedAt ELSE c.dur[i] - 1)
      OBVIOUS
    <3>4. d \in Nat
      <4>1. c.dur[i] \in Nat /\ now - c.pausedAt \in Int
        BY <1>1, <3>2
      <4>2. QED
        BY <3>3, <4>1
    <3>5. clock' = [u EXCEPT !.dur[i] = d]
      BY <2>3, <3>1, <3>3
    <3>6. clock'.dur = [c.dur EXCEPT ![i] = d]
      BY <2>3, <3>5 DEF Fields
    <3>7. /\ clock'.blocks = u.blocks /\ clock'.ov = u.ov /\ clock'.offset = u.offset
          /\ clock'.started = u.started /\ clock'.paused = u.paused
          /\ clock'.startedAt = u.startedAt
      BY <2>3, <3>5 DEF Fields
    <3>8. clock'.dur \in Seq(Nat) /\ Len(clock'.dur) = Len(c.dur)
      BY <1>1, <3>2, <3>4, <3>6
    <3>9. \A j \in 1 .. Index(c, now) : StartOf(clock', j) = StartOf(c, j)
      <4>1. i \in Nat /\ \A j \in 1 .. Index(c, now) : j \in 1 .. i
        BY <1>3, <3>1, <3>2
      <4>2. ASSUME NEW j \in 1 .. Index(c, now) PROVE StartOf(clock', j) = StartOf(c, j)
        <5>1. i \in Nat /\ j \in 1 .. i /\ ClockOK(c)
          BY <1>1, <4>1
        <5> HIDE DEF c
        <5>2. QED
          BY <3>6, <5>1, SamePast
      <4>3. QED
        BY <4>2
    <3>10. QED
      BY <1>1, <2>4, <3>7, <3>8, <3>9
  <2>7. QED
    BY <1>8, <2>1, <2>5, <2>6 DEF Resume, Change
<1>9. QED
  BY <1>5, <1>6, <1>7, <1>8

(* Where a jump, or a start at a block, leads. *)
LEMMA Jumped ==
  ASSUME NEW c, ClockOK(c), Forward(c), NEW i \in DOMAIN Template, now \in Nat
  PROVE  /\ c.started => /\ Forward(JumpedTo(c, i)) /\ JumpedTo(c, i).started
                         /\ i <= Index(JumpedTo(c, i), now)
         /\ Forward(AtBlock(c, i)) /\ AtBlock(c, i).started
         /\ i <= Index(AtBlock(c, i), now)
<1>1. /\ c = [f \in Fields |-> c[f]] /\ c.startedAt \in Int /\ c.pausedAt \in Int
      /\ c.offset \in Int /\ c.dur \in Seq(Nat) /\ Len(c.dur) = Len(Template)
      /\ c.paused \in BOOLEAN
  BY DEF ClockOK, Forward
<1>2. i \in 1 .. Len(c.dur) /\ i \in 1 .. Len(c.dur) + 1
  BY <1>1, BlocksKnown
<1>3. StartOf(c, i) \in Nat
  BY <1>1, <1>2, StartsFollow
<1>4. Elapsed(c, now) \in Int
  BY <1>1 DEF Elapsed
<1>5. ASSUME NEW e, c.started, e = JumpedTo(c, i)
      PROVE  Forward(e) /\ e.started /\ i <= Index(e, now)
  <2>1. /\ e.blocks = c.blocks /\ e.ov = c.ov /\ e.dur = c.dur /\ e.started = c.started
        /\ e.paused = c.paused /\ e.startedAt = c.startedAt /\ e.pausedAt = c.pausedAt
        /\ e.offset = c.offset + StartOf(c, i) - Elapsed(c, now)
    BY <1>1, <1>5 DEF JumpedTo, Fields
  <2>2. StartOf(e, i) = StartOf(c, i)
    BY <2>1 DEF StartOf
  <2>3. e.offset \in Int /\ Elapsed(e, now) = StartOf(e, i)
    <3>1. PICK l : l = IF c.paused THEN c.pausedAt ELSE now
      OBVIOUS
    <3>2. l \in Int /\ Elapsed(c, now) = l - c.startedAt + c.offset
      BY <1>1, <3>1 DEF Elapsed
    <3>3. Elapsed(e, now) = l - c.startedAt + e.offset
      BY <2>1, <3>1 DEF Elapsed
    <3>4. PICK a, b, f, g : a = c.startedAt /\ b = c.offset /\ f = StartOf(c, i) /\ g = Elapsed(c, now)
      OBVIOUS
    <3>5. /\ a \in Int /\ b \in Int /\ f \in Int /\ l \in Int /\ g = l - a + b
          /\ e.offset = b + f - g /\ Elapsed(e, now) = l - a + e.offset
      BY <1>1, <1>3, <2>1, <3>2, <3>3, <3>4
    <3>6. e.offset \in Int /\ Elapsed(e, now) = f
      BY <3>5
    <3>7. QED
      BY <2>2, <3>4, <3>6
  <2>4. i <= Index(e, now)
    BY <1>1, <1>2, <1>5, <2>1, <2>3, Arrived
  <2>5. QED
    BY <1>1, <1>5, <2>1, <2>3, <2>4 DEF Forward
<1>6. ASSUME NEW e, e = AtBlock(c, i)
      PROVE  Forward(e) /\ e.started /\ i <= Index(e, now)
  <2>1. /\ e.blocks = c.blocks /\ e.ov = c.ov /\ e.dur = c.dur /\ e.started = TRUE
        /\ e.paused = FALSE /\ e.startedAt = now /\ e.offset = StartOf(c, i)
    BY <1>1, <1>6 DEF AtBlock, Fields
  <2>2. StartOf(e, i) = StartOf(c, i)
    BY <2>1 DEF StartOf
  <2>3. e.offset \in Int /\ Elapsed(e, now) = StartOf(e, i)
    BY <1>1, <1>3, <2>1, <2>2 DEF Elapsed
  <2>4. i <= Index(e, now)
    BY <1>1, <1>2, <2>1, <2>3, Arrived
  <2>5. QED
    BY <1>1, <2>1, <2>3, <2>4 DEF Forward
<1>7. QED
  BY <1>5, <1>6

(* A step is made. *)
LEMMA ForwardStep ==
  ASSUME TypeInv, TypeInv', ForwardInv, NEW o \in Organiser, Step(o)
  PROVE  ForwardInv'
<1>1. /\ pc \in [Actor -> State] /\ o \in Actor /\ Organiser \subseteq Actor
      /\ ClockOK(clock) /\ ClockOK(clock') /\ now \in Nat /\ Forward(clock)
  BY DEF TypeInv, Actor, ForwardInv
<1>2. now' = now /\ order' = order /\ target' = target
  BY DEF Step, Change
<1>3. pc[o] \in Asking /\ o \in Nexts
  BY DEF Step, Asking, ForwardInv
<1>4. CASE pc' = [pc EXCEPT ![o] = "refused"] /\ clock' = clock
  <2>1. \A p \in Organiser : pc'[p] = pc[p] \/ pc'[p] = "refused"
    BY <1>1, <1>4
  <2>2. "refused" \notin Asking /\ "refused" \notin Made /\ "refused" \notin Busy
    BY DEF Asking, Made, Busy, Stages
  <2>3. Index(clock, now) \in Nat /\ Nexts \subseteq Organiser
    BY <1>1, IndexOK DEF Nexts
  <2>4. Index(clock, now) <= Index(clock', now')
    BY <1>2, <1>4, <2>3
  <2>5. QED
    BY <1>1, <1>2, <1>4, <2>1, <2>2, <2>3, <2>4, ForwardQuiet
<1>5. ASSUME NEW i \in DOMAIN Template, Template[i].id = target[o],
             pc' = [pc EXCEPT ![o] = "changed"],
             Forward(clock'), clock'.started, i <= Index(clock', now'),
             \A p \in Nexts : pc[p] \in Made => Reached(p) /\ Further(o, p)
      PROVE  ForwardInv'
  <2>1. pc'[o] = "changed" /\ \A p \in Organiser : p # o => pc'[p] = pc[p]
    BY <1>1, <1>5
  <2>2. \A p \in Nexts : p # o => pc'[p] \notin Asking
    BY <1>3, <2>1 DEF ForwardInv, Busy, Asking, Made, Stages, Nexts
  <2>3. pc'[o] \notin Asking
    BY <2>1 DEF Asking
  <2>4. order[o].to \in {None, target[o]}
    BY <1>3 DEF ForwardInv
  <2>5. i \in Nat /\ DOMAIN Template \subseteq Nat /\ Index(clock', now') \in Nat
    BY <1>1, <1>2, BlocksKnown, IndexOK
  <2>6. ASSUME NEW p \in Nexts, pc'[p] \in Made PROVE Reached(p)'
    <3>1. CASE p = o
      BY <1>2, <1>5, <2>4, <3>1 DEF Reached
    <3>2. CASE p # o
      <4>1. pc[p] \in Made
        BY <2>1, <2>6, <3>2 DEF Nexts
      <4>2. Reached(p) /\ Further(o, p)
        BY <1>5, <4>1
      <4>3. CASE order[p].to = None
        BY <1>2, <4>3 DEF Reached
      <4>4. CASE order[p].to # None
        <5>1. PICK j \in DOMAIN Template : Template[j].id = order[p].to
          BY <4>2, <4>4 DEF Reached
        <5>2. j < i
          BY <1>5, <4>2, <4>4, <5>1 DEF Further
        <5>3. j <= Index(clock', now')
          BY <1>5, <2>5, <5>2
        <5>4. QED
          BY <1>2, <5>1, <5>3 DEF Reached
      <4>5. QED
        BY <4>3, <4>4
    <3>3. QED
      BY <3>1, <3>2
  <2>7. ASSUME NEW p \in Nexts, p # o, pc[p] \in Made, order[p].to # None
        PROVE  order[p].to # order[o].to
    <3>1. order[p].to # target[o]
      BY <1>5, <2>5, <2>7 DEF Further
    <3>2. QED
      BY <2>4, <2>7, <3>1
  <2>8. \A p, q \in Nexts :
          pc'[p] \in Made /\ pc'[q] \in Made /\ order[p].to = order[q].to /\ order[p].to # None
          => p = q
    <3> SUFFICES ASSUME NEW p \in Nexts, NEW q \in Nexts, pc'[p] \in Made, pc'[q] \in Made,
                        order[p].to = order[q].to, order[p].to # None, p # q
                 PROVE  FALSE
      OBVIOUS
    <3>1. Nexts \subseteq Organiser
      BY DEF Nexts
    <3>2. CASE p = o
      BY <2>1, <2>7, <3>1, <3>2
    <3>3. CASE q = o
      BY <2>1, <2>7, <3>1, <3>3
    <3>4. CASE p # o /\ q # o
      BY <2>1, <3>1, <3>4 DEF ForwardInv
    <3>5. QED
      BY <3>2, <3>3, <3>4
  <2>9. \A p, q \in Nexts : pc'[p] \in Busy /\ pc'[q] \in Busy => p = q
    <3>1. pc[o] \in Busy /\ Nexts \subseteq Organiser
      BY <1>3 DEF Busy, Asking, Made, Stages, Nexts
    <3>2. \A p \in Nexts : pc'[p] \in Busy => pc[p] \in Busy
      BY <2>1, <3>1
    <3>3. QED
      BY <3>2 DEF ForwardInv
  <2>10. Nexts' = Nexts /\ \A p \in Organiser : pc'[p] \in Asking => p \in Nexts
    BY <1>2, <2>1, <2>3 DEF Nexts, ForwardInv
  <2>11. \A p \in Nexts : pc'[p] # "starting" /\ pc'[p] # "stepping" /\ pc'[p] \notin Asking
    BY <2>2, <2>3 DEF Asking
  <2>12. QED
    BY <1>2, <1>5, <2>6, <2>8, <2>9, <2>10, <2>11 DEF ForwardInv
<1>6. CASE pc[o] = "starting" /\ ~clock.started /\ Change(o, AtBlock(clock, 1))
  <2>1. 1 \in DOMAIN Template /\ target[o] = Template[1].id
    BY <1>3, <1>6, BlocksKnown DEF ForwardInv
  <2>2. clock' = AtBlock(clock, 1) /\ pc' = [pc EXCEPT ![o] = "changed"]
    BY <1>6 DEF Change, To
  <2>3. Forward(clock') /\ clock'.started /\ 1 <= Index(clock', now')
    BY <1>1, <1>2, <2>1, <2>2, Jumped
  <2>4. \A p \in Nexts : pc[p] \notin Made
    BY <1>6 DEF ForwardInv
  <2>5. QED
    BY <1>5, <2>1, <2>2, <2>3, <2>4
<1>7. CASE pc[o] = "stepping" /\ clock.started
           /\ \E i \in IndexOf(clock, target[o]) : Change(o, JumpedTo(clock, i))
  <2>1. PICK i \in IndexOf(clock, target[o]) : Change(o, JumpedTo(clock, i))
    BY <1>7
  <2>2. i \in DOMAIN Template /\ Template[i].id = target[o]
    BY <1>1 DEF IndexOf, Forward
  <2>3. clock' = JumpedTo(clock, i) /\ pc' = [pc EXCEPT ![o] = "changed"]
    BY <2>1 DEF Change, To
  <2>4. Forward(clock') /\ clock'.started /\ i <= Index(clock', now')
    BY <1>1, <1>2, <1>7, <2>2, <2>3, Jumped
  <2>5. \A p \in Nexts : pc[p] \in Made => Reached(p) /\ Further(o, p)
    BY <1>3, <1>7 DEF ForwardInv
  <2>6. QED
    BY <1>5, <2>2, <2>3, <2>4, <2>5
<1>8. QED
  BY <1>4, <1>6, <1>7 DEF Step, To

(* A step is read, and nobody else is making one. *)
LEMMA ForwardRead ==
  ASSUME TypeInv, TypeInv', ForwardInv, IdsDiffer, NEW o \in Organiser, ReadNext(o)
  PROVE  ForwardInv'
<1>1. /\ pc \in [Actor -> State] /\ o \in Actor /\ Organiser \subseteq Actor
      /\ ClockOK(clock) /\ now \in Nat /\ Forward(clock) /\ Nexts \subseteq Organiser
  BY DEF TypeInv, Actor, ForwardInv, Nexts
<1>2. UNCHANGED <<now, clock, order>> /\ pc[o] = "idle" /\ o \in Nexts /\ ~StepLocked
  BY DEF ReadNext, Asks, Nexts
<1>3. \A p \in Nexts : pc[p] \notin Busy /\ pc[p] \notin Asking
  <2>1. \A p \in Nexts : pc[p] \in {"idle", "done", "refused", "lost"}
    BY <1>2 DEF StepLocked, Nexts
  <2>2. QED
    BY <2>1 DEF Busy, Asking, Made, Stages
<1>4. Index(clock, now) \in Nat
  BY <1>1, IndexOK
<1>5. CASE pc' = [pc EXCEPT ![o] = "refused"] /\ target' = target
  <2>1. \A p \in Organiser : pc'[p] = pc[p] \/ pc'[p] = "refused"
    BY <1>1, <1>5
  <2>2. "refused" \notin Asking /\ "refused" \notin Made /\ "refused" \notin Busy
    BY DEF Asking, Made, Busy, Stages
  <2>3. Index(clock, now) <= Index(clock', now')
    BY <1>2, <1>4
  <2>4. QED
    BY <1>1, <1>2, <1>5, <2>1, <2>2, <2>3, ForwardQuiet
<1>6. CASE \E n \in DOMAIN clock.blocks :
              /\ n = Index(clock, now) + 1 /\ IsNext(order[o].to)
              /\ target' = [target EXCEPT ![o] = clock.blocks[n].id]
              /\ pc' = [pc EXCEPT ![o] = IF clock.started THEN "stepping" ELSE "starting"]
  <2>1. PICK n \in DOMAIN Template :
              /\ n = Index(clock, now) + 1 /\ IsNext(order[o].to)
              /\ target' = [target EXCEPT ![o] = Template[n].id]
              /\ pc' = [pc EXCEPT ![o] = IF clock.started THEN "stepping" ELSE "starting"]
    BY <1>1, <1>6 DEF Forward
  <2>2. PICK id : id = Template[n].id
    OBVIOUS
  <2>3. /\ target'[o] = id /\ \A p \in Organiser : p # o => target'[p] = target[p]
        /\ target' = [p \in Organiser |-> target'[p]]
        /\ pc'[o] = IF clock.started THEN "stepping" ELSE "starting"
        /\ \A p \in Organiser : p # o => pc'[p] = pc[p]
    BY <1>1, <2>1, <2>2 DEF ForwardInv
  <2>4. order[o].to \in {None, id}
    BY <1>1, <2>1, <2>2 DEF IsNext, Forward
  <2>5. DOMAIN Template \subseteq Nat /\ n \in 1 .. Len(Template) /\ Len(Template) \in Nat
    BY <2>1, BlocksKnown
  <2>6. pc'[o] \in Asking /\ pc'[o] \notin Made
    BY <2>3 DEF Asking, Made, Stages
  <2>7. \A p \in Nexts : pc'[p] \in Made => p # o /\ pc[p] \in Made
    BY <1>1, <2>3, <2>6
  <2>8. ASSUME NEW p \in Nexts, pc[p] \in Made, order[p].to # None,
               NEW i \in DOMAIN Template, NEW j \in DOMAIN Template,
               Template[i].id = id, Template[j].id = order[p].to
        PROVE  j < i
    <3>1. i = n
      BY <2>1, <2>2, <2>8 DEF IdsDiffer
    <3>2. Reached(p)
      BY <2>8 DEF ForwardInv
    <3>3. j <= Index(clock, now)
      BY <2>8, <3>2 DEF Reached, IdsDiffer
    <3>4. QED
      BY <1>4, <2>1, <2>5, <3>1, <3>3
  <2>9. \A p \in Nexts : pc'[p] \in Made => clock'.started /\ Reached(p)'
    BY <1>2, <2>7 DEF ForwardInv, Reached
  <2>10. ~clock.started => n = 1 /\ Len(Template) > 0
    BY <1>4, <2>1, <2>5 DEF Index
  <2>11. \A p \in Nexts : /\ pc'[p] \in Asking => p = o
                          /\ pc'[p] \in Busy => p = o
    BY <1>1, <1>3, <2>3
  <2>12. \A p \in Nexts :
           /\ pc'[p] \in Asking => order[p].to \in {None, target'[p]}
           /\ pc'[p] = "starting" => Len(Template) > 0 /\ target'[p] = Template[1].id
           /\ pc'[p] = "stepping" => clock'.started
    BY <1>2, <2>2, <2>3, <2>4, <2>10, <2>11 DEF Asking
  <2>13. \A p, q \in Nexts : pc'[p] = "stepping" /\ pc'[q] \in Made => Further(p, q)'
    <3> SUFFICES ASSUME NEW p \in Nexts, NEW q \in Nexts, pc'[p] = "stepping", pc'[q] \in Made,
                        order[q].to # None,
                        NEW i \in DOMAIN Template, NEW j \in DOMAIN Template,
                        Template[i].id = target'[p], Template[j].id = order[q].to
                 PROVE  j < i
      BY <1>2 DEF Further
    <3>1. p = o /\ pc[q] \in Made
      BY <2>7, <2>11 DEF Asking
    <3>2. QED
      BY <2>3, <2>8, <3>1
  <2>14. \A p \in Organiser : pc'[p] \in Asking => p \in Nexts
    BY <1>2, <2>3 DEF ForwardInv
  <2>15. \A p, q \in Nexts :
           pc'[p] \in Made /\ pc'[q] \in Made /\ order[p].to = order[q].to /\ order[p].to # None
           => p = q
    BY <2>7 DEF ForwardInv
  <2>16. Nexts' = Nexts
    BY <1>2 DEF Nexts
  <2>17. QED
    BY <1>1, <1>2, <2>3, <2>9, <2>11, <2>12, <2>13, <2>14, <2>15, <2>16 DEF ForwardInv
<1>7. QED
  BY <1>5, <1>6 DEF ReadNext, To

(* The deliveries, and the world around: nobody's step begins or ends but  *)
(* by being made.                                                          *)
LEMMA ForwardRest ==
  ASSUME TypeInv, TypeInv', ForwardInv,
         (\E x \in Actor : Deliver(x)) \/ Pass \/ FormFunds \/ Break \/ UNCHANGED vars
  PROVE  /\ ForwardInv'
         /\ clock.started => Index(clock, now) <= Index(clock', now')
<1>1. /\ pc \in [Actor -> State] /\ Organiser \subseteq Actor /\ Nexts \subseteq Organiser
      /\ ClockOK(clock) /\ ClockOK(clock') /\ now \in Nat /\ now' \in Nat /\ Forward(clock)
      /\ clock = [f \in Fields |-> clock[f]]
  BY DEF TypeInv, Actor, ForwardInv, Nexts, ClockOK
<1>2. order' = order /\ target' = target
  BY DEF Deliver, Tick, Announce, Freeze, StoreSnapshot, CloseWindow, Finish, Pass, FormFunds,
         Break, vars
<1>3. clock' = clock \/ \E l : clock' = [clock EXCEPT !.last = l]
  BY DEF Deliver, Tick, Announce, Freeze, StoreSnapshot, CloseWindow, Finish, Pass, FormFunds,
         Break, vars
<1>4. /\ clock'.blocks = clock.blocks /\ clock'.ov = clock.ov /\ clock'.dur = clock.dur
      /\ clock'.offset = clock.offset /\ clock'.started = clock.started
      /\ clock'.paused = clock.paused /\ clock'.startedAt = clock.startedAt
      /\ clock'.pausedAt = clock.pausedAt
  BY <1>1, <1>3 DEF Fields
<1>5. now <= now'
  <2>1. now' = now \/ now' = now + 1
    BY DEF Deliver, Tick, Announce, Freeze, StoreSnapshot, CloseWindow, Finish, Pass,
           FormFunds, Break, vars
  <2>2. QED
    BY <1>1, <2>1
<1>6. ASSUME clock.started PROVE Index(clock, now) <= Index(clock', now')
  <2>1. /\ Elapsed(clock, now) \in Int /\ Elapsed(clock', now') \in Int
        /\ Elapsed(clock, now) <= Elapsed(clock', now')
    <3>1. PICK l, m : /\ l = IF clock.paused THEN clock.pausedAt ELSE now
                      /\ m = IF clock.paused THEN clock.pausedAt ELSE now'
      OBVIOUS
    <3>2. l \in Int /\ m \in Int /\ l <= m
      <4>1. clock.pausedAt \in Int
        BY <1>1 DEF ClockOK
      <4>2. QED
        BY <1>1, <1>5, <3>1, <4>1
    <3>3. /\ Elapsed(clock, now) = l - clock.startedAt + clock.offset
          /\ Elapsed(clock', now') = m - clock.startedAt + clock.offset
      BY <1>4, <3>1 DEF Elapsed
    <3>4. clock.startedAt \in Int /\ clock.offset \in Int
      BY <1>1 DEF ClockOK, Forward
    <3>5. QED
      BY <3>2, <3>3, <3>4
  <2>2. \A j : StartOf(clock', j) = StartOf(clock, j)
    BY <1>4 DEF StartOf
  <2>3. PICK c, e, t, u : c = clock /\ e = clock' /\ t = now /\ u = now'
    OBVIOUS
  <2>4. /\ c.dur \in Seq(Nat) /\ e.dur \in Seq(Nat) /\ Len(e.dur) = Len(c.dur)
        /\ c.started /\ e.started
    BY <1>1, <1>4, <1>6, <2>3 DEF Forward
  <2>5. /\ Elapsed(c, t) \in Int /\ Elapsed(e, u) \in Int /\ Elapsed(c, t) <= Elapsed(e, u)
        /\ \A j \in 1 .. Index(c, t) : StartOf(e, j) = StartOf(c, j)
    BY <2>1, <2>2, <2>3
  <2>6. Index(c, t) <= Index(e, u)
    BY <2>4, <2>5, AsFar
  <2>7. QED
    BY <2>3, <2>6
<1>7. \A o \in Organiser : \/ pc'[o] = pc[o]
                           \/ /\ pc[o] \in {"ticking"} \cup Stages
                             /\ pc'[o] \in {"done"} \cup Stages
  <2>1. CASE \E x \in Actor : Deliver(x)
    <3>1. PICK x \in Actor : Deliver(x)
      BY <2>1
    <3>2. CASE x = Runner
      <4>1. \E v : pc' = [pc EXCEPT ![x] = v]
        BY <3>1 DEF Deliver, Tick, Announce, Freeze, StoreSnapshot, CloseWindow, Finish, To
      <4>2. QED
        BY <3>2, <4>1, EventClockAssumption
    <3>3. CASE x # Runner
      <4>1. /\ pc[x] \in {"ticking"} \cup Stages
            /\ \E v \in {"done"} \cup Stages : pc' = [pc EXCEPT ![x] = v]
        BY <3>1, <3>3 DEF Deliver, Tick, Announce, Freeze, StoreSnapshot, CloseWindow, Finish, To,
                          Rest, Stages
      <4>2. QED
        BY <1>1, <4>1
    <3>4. QED
      BY <3>2, <3>3
  <2>2. CASE Pass \/ FormFunds \/ Break \/ UNCHANGED vars
    BY <2>2 DEF Pass, FormFunds, Break, vars
  <2>3. QED
    BY <2>1, <2>2
<1>8. /\ \A o \in Nexts :
            /\ pc'[o] \in Asking => pc'[o] = pc[o]
            /\ pc'[o] \in Busy => pc[o] \in Busy
            /\ pc'[o] \in Made => pc[o] \in Made
      /\ \A o \in Organiser : pc'[o] \in Asking => pc[o] \in Asking
  BY <1>1, <1>7 DEF Asking, Made, Busy, Stages
<1>9. Forward(clock')
  BY <1>1, <1>4 DEF Forward
<1>10. ForwardInv'
  <2>1. clock.started => clock'.started /\ Index(clock, now) <= Index(clock', now')
    BY <1>4, <1>6
  <2>2. QED
    BY <1>1, <1>2, <1>8, <1>9, <2>1, ForwardQuiet
<1>11. QED
  BY <1>6, <1>10

(* What organisers do beside making a step. *)
LEMMA ForwardOrganiser ==
  ASSUME TypeInv, TypeInv', ForwardInv, IdsDiffer, Stepping, NEW o \in Organiser,
         Operation(o) \/ Step(o) \/ Persist(o)
  PROVE  /\ ForwardInv'
         /\ clock.started /\ ~(Step(o) /\ pc[o] = "stepping") =>
               Index(clock, now) <= Index(clock', now')
<1>1. /\ order[o].do \in {"startAt", "next", "pause", "resume", "freeze"}
      /\ pc \in [Actor -> State] /\ o \in Actor /\ Organiser \subseteq Actor
      /\ ClockOK(clock) /\ ClockOK(clock') /\ now \in Nat /\ now' \in Nat /\ Forward(clock)
      /\ Nexts \subseteq Organiser
  BY DEF Stepping, Actor, TypeInv, ForwardInv, Nexts
<1>2. Operation(o) => StartAt(o) \/ Pause(o) \/ Resume(o) \/ ReadNext(o) \/ TakeSnapshot(o)
  BY <1>1 DEF Operation, Start, JumpTo, Nudge, SetBlockDuration, End, SetSchedule, SetFrozen,
              SetMarketOverride, SetWindowOverride, Asks
<1>3. Index(clock, now) \in Nat
  BY <1>1, IndexOK
<1>4. ASSUME order' = order, target' = target, now' = now, Forward(clock'),
             clock.started => clock'.started /\ Index(clock, now) <= Index(clock', now'),
             NEW v, pc' = [pc EXCEPT ![o] = v], v \notin Asking,
             o \in Nexts => (v \in Busy => pc[o] \in Busy) /\ (v \in Made => pc[o] \in Made)
      PROVE  /\ ForwardInv'
             /\ clock.started => Index(clock, now) <= Index(clock', now')
  <2>1. pc'[o] = v /\ \A p \in Organiser : p # o => pc'[p] = pc[p]
    BY <1>1, <1>4
  <2>2. /\ \A p \in Nexts :
              /\ pc'[p] \in Asking => pc'[p] = pc[p]
              /\ pc'[p] \in Busy => pc[p] \in Busy
              /\ pc'[p] \in Made => pc[p] \in Made
        /\ \A p \in Organiser : pc'[p] \in Asking => pc[p] \in Asking
    BY <1>1, <1>4, <2>1
  <2>3. ForwardInv'
    BY <1>1, <1>4, <2>2, ForwardQuiet
  <2>4. QED
    BY <1>4, <2>3
<1>5. CASE StartAt(o) \/ Pause(o) \/ Resume(o)
  <2>1. /\ Forward(clock')
        /\ clock.started => clock'.started /\ Index(clock, now) <= Index(clock', now')
    BY <1>5, Onwards
  <2>2. o \notin Nexts
    BY <1>5 DEF Nexts, StartAt, Pause, Resume, Asks
  <2>3. /\ pc' = [pc EXCEPT ![o] = "changed"] /\ order' = order /\ target' = target /\ now' = now
        /\ "changed" \notin Asking
    BY <1>5 DEF StartAt, Pause, Resume, Change, To, Asking
  <2>4. QED
    BY <1>4, <2>1, <2>2, <2>3
<1>6. CASE TakeSnapshot(o)
  <2>1. o \notin Nexts
    BY <1>6 DEF Nexts, TakeSnapshot, Asks
  <2>2. /\ pc' = [pc EXCEPT ![o] = "announcing"] /\ UNCHANGED <<clock, order, target, now>>
        /\ "announcing" \notin Asking
    BY <1>6 DEF TakeSnapshot, To, Asking
  <2>3. Index(clock, now) <= Index(clock', now')
    BY <1>3, <2>2
  <2>4. QED
    BY <1>1, <1>4, <2>1, <2>2, <2>3
<1>7. CASE Persist(o)
  <2>1. /\ pc[o] = "changed" /\ UNCHANGED <<clock, order, target, now>>
        /\ pc' = [pc EXCEPT ![o] = IF TicksItself(o) THEN "ticking" ELSE "done"]
    BY <1>7 DEF Persist, To
  <2>2. PICK v \in {"ticking", "done"} : pc' = [pc EXCEPT ![o] = v]
    BY <2>1
  <2>3. v \notin Asking /\ pc[o] \in Busy /\ pc[o] \in Made
    BY <2>1 DEF Asking, Busy, Made
  <2>4. Index(clock, now) <= Index(clock', now')
    BY <1>3, <2>1
  <2>5. QED
    BY <1>1, <1>4, <2>1, <2>2, <2>3, <2>4
<1>8. CASE Step(o)
  <2>1. ForwardInv'
    BY <1>8, ForwardStep
  <2>2. pc[o] \in {"starting", "stepping"}
    BY <1>8 DEF Step
  <2>3. CASE pc[o] = "starting"
    BY <1>8, <2>1, <2>3, Onwards
  <2>4. CASE pc[o] = "stepping"
    BY <1>8, <2>1, <2>4
  <2>5. QED
    BY <2>2, <2>3, <2>4
<1>9. CASE ReadNext(o)
  <2>1. ForwardInv'
    BY <1>9, ForwardRead
  <2>2. UNCHANGED <<clock, now>>
    BY <1>9 DEF ReadNext
  <2>3. QED
    BY <1>3, <2>1, <2>2
<1>10. QED
  BY <1>2, <1>5, <1>6, <1>7, <1>8, <1>9

(* No request is changed, and a kill is counted. *)
LEMMA StillStepping ==
  ASSUME TypeInv, TypeInv', [Next]_vars, Stepping'
  PROVE  Stepping /\ ~Kill
<1>1. order' = order
  BY DEF Next, Operation, Change, Start, StartAt, Pause, Resume, JumpTo, Nudge,
         SetBlockDuration, End, SetSchedule, SetFrozen, SetMarketOverride, SetWindowOverride,
         ReadNext, TakeSnapshot, Step, Persist, Deliver, Tick, Announce, Freeze, StoreSnapshot,
         CloseWindow, Finish, Pass, FormFunds, Break, Kill, vars
<1>2. Kill \/ kills' = kills
  BY DEF Next, Operation, Change, Start, StartAt, Pause, Resume, JumpTo, Nudge,
         SetBlockDuration, End, SetSchedule, SetFrozen, SetMarketOverride, SetWindowOverride,
         ReadNext, TakeSnapshot, Step, Persist, Deliver, Tick, Announce, Freeze, StoreSnapshot,
         CloseWindow, Finish, Pass, FormFunds, Break, Kill, vars
<1>3. kills' = 0 /\ kills \in Nat
  BY DEF Stepping, TypeInv
<1>4. ~Kill
  BY <1>3 DEF Kill
<1>5. QED
  BY <1>1, <1>2, <1>3, <1>4 DEF Stepping

(* Any step while the event only goes forward; only a step that was      *)
(* overtaken, and is made all the same, takes it back.                     *)
LEMMA NextForward ==
  ASSUME TypeInv, TypeInv', Stepping => ForwardInv, IdsDiffer, [Next]_vars, Stepping'
  PROVE  /\ Stepping /\ ForwardInv /\ ForwardInv'
         /\ clock.started /\ ~(\E o \in Organiser : Step(o) /\ pc[o] = "stepping") =>
               Index(clock, now) <= Index(clock', now')
<1>1. Stepping /\ ForwardInv /\ ~Kill
  BY StillStepping
<1>2. CASE \E o \in Organiser : Operation(o) \/ Step(o) \/ Persist(o)
  BY <1>1, <1>2, ForwardOrganiser
<1>3. CASE (\E x \in Actor : Deliver(x)) \/ Pass \/ FormFunds \/ Break \/ UNCHANGED vars
  BY <1>1, <1>3, ForwardRest
<1>4. QED
  BY <1>1, <1>2, <1>3 DEF Next

(* Before the start no step is made. *)
LEMMA InitForward == Init => ForwardInv
<1> SUFFICES ASSUME Init PROVE ForwardInv
  OBVIOUS
<1>1. \A o \in Organiser : pc[o] = "idle"
  BY DEF Init, Actor
<1>2. clock.blocks = Template /\ clock.ov = NoOverride /\ clock.offset = 0
      /\ clock.dur = Lengths(Template)
  BY DEF Init, FreshClock
<1>3. clock.dur \in Seq(Nat)
  <2>1. /\ Template \in Seq(Scheduled) /\ \A i \in 1 .. Len(Template) : Template[i].len \in Nat
    BY BlocksKnown
  <2>2. Len(Template) \in Nat /\ Lengths(Template) = [i \in 1 .. Len(Template) |-> Template[i].len]
    BY <2>1 DEF Lengths
  <2>3. QED
    BY <1>2, <2>1, <2>2
<1>4. target = [o \in Organiser |-> target[o]]
  BY DEF Init
<1>5. "idle" \notin Asking /\ "idle" \notin Made /\ "idle" \notin Busy
  BY DEF Asking, Made, Busy, Stages
<1>6. QED
  BY <1>1, <1>2, <1>3, <1>4, <1>5 DEF ForwardInv, Forward, Nexts

(* As long as nobody moves the event but by steps, one step is made for    *)
(* any number of presses of its button (ClockNext): who presses again is   *)
(* refused, for the event has got there and never falls behind it.         *)
THEOREM StepsOnce == IdsDiffer /\ Spec => []PressedOnce
<1> SUFFICES ASSUME IdsDiffer PROVE Spec => []PressedOnce
  OBVIOUS
<1> DEFINE Inv == Stepping => ForwardInv
<1>1. Init => Inv
  BY InitForward
<1>2. TypeInv /\ TypeInv' /\ Inv /\ [Next]_vars => Inv'
  BY NextForward
<1>3. Inv => PressedOnce
  <2>1. "done" \in Made
    BY DEF Made
  <2>2. QED
    BY <2>1 DEF PressedOnce, ForwardInv, Nexts
<1> HIDE DEF Inv
<1>4. QED
  BY <1>1, <1>2, <1>3, ClockStands, PTL DEF Spec
-----------------------------------------------------------------------------
(* The hypotheses of WindowsClose: no window is given twice                *)
(* (validateBlocks, the rulebook), and no step under way is overtaken by a *)
(* whole block before it is made.                                          *)
WindowsDiffer ==
    \A i, j \in DOMAIN Template :
        Template[i].window = Template[j].window /\ Template[i].window # None => i = j

Timely ==
    \A o \in Organiser : pc[o] = "stepping" =>
        \A i \in IndexOf(clock, target[o]) : Index(clock, now) <= i

(* The window called name ends before block n. *)
Behind(name, n) ==
    \E i \in DOMAIN Template :
        i < n /\ Template[i].window = name[2] /\ name[2] # None

(* What is announced has been entered, and a window whose checkpoint is    *)
(* taken has ended.                                                        *)
ShutInv ==
    /\ clock.last <= Index(clock, now)
    /\ \A x \in Actor : \A k \in 1 .. Len(due[x]) : due[x][k].index <= clock.last
    /\ \A k \in 1 .. Len(checks) : checks[k].name[1] = "window" => Behind(checks[k].name, Index(clock, now))

(* As long as no step is overtaken, the event never falls back. *)
LEMMA NeverBack ==
  ASSUME TypeInv, TypeInv', Stepping => ForwardInv, IdsDiffer, Timely, [Next]_vars, Stepping'
  PROVE  Index(clock, now) <= Index(clock', now')
<1>1. /\ Stepping /\ ForwardInv /\ ForwardInv'
      /\ clock.started /\ ~(\E o \in Organiser : Step(o) /\ pc[o] = "stepping") =>
               Index(clock, now) <= Index(clock', now')
  BY NextForward
<1>2. ClockOK(clock) /\ ClockOK(clock') /\ now \in Nat /\ Forward(clock)
  BY <1>1 DEF TypeInv, ForwardInv
<1>3. Index(clock, now) \in Nat /\ Index(clock', now') \in Nat
  BY <1>2, IndexOK
<1>4. CASE ~clock.started
  <2>1. Index(clock, now) = 0
    BY <1>4 DEF Index
  <2>2. QED
    BY <1>3, <2>1
<1>5. ASSUME clock.started, NEW o \in Organiser, Step(o), pc[o] = "stepping"
      PROVE  Index(clock, now) <= Index(clock', now')
  <2>1. CASE clock' = clock /\ now' = now
    BY <1>3, <2>1
  <2>2. ASSUME NEW i \in IndexOf(clock, target[o]), clock' = JumpedTo(clock, i), now' = now
        PROVE  Index(clock, now) <= Index(clock', now')
    <3>1. Index(clock, now) <= i
      BY <1>5 DEF Timely
    <3>2. i \in DOMAIN Template
      BY <1>2 DEF IndexOf, Forward
    <3>3. i <= Index(JumpedTo(clock, i), now)
      BY <1>2, <1>5, <3>2, Jumped
    <3>4. i \in Nat
      BY <3>2, BlocksKnown
    <3>5. QED
      BY <1>3, <2>2, <3>1, <3>3, <3>4
  <2>3. QED
    BY <1>5, <2>1, <2>2 DEF Step, Change
<1>6. QED
  BY <1>1, <1>4, <1>5

(* A step that keeps what is due within what is announced, and takes no    *)
(* checkpoint but of a window behind it.                                   *)
LEMMA ShutKept ==
  ASSUME TypeInv, TypeInv', ShutInv,
         Index(clock, now) <= Index(clock', now'),
         clock'.last <= Index(clock', now'),
         \A x \in Actor : \A k \in 1 .. Len(due'[x]) : due'[x][k].index <= clock'.last,
         \/ checks' = checks
         \/ \E new \in Check : /\ checks' = Append(checks, new)
                               /\ new.name[1] = "window" => Behind(new.name, Index(clock, now))
  PROVE  ShutInv'
<1>1. /\ Index(clock, now) \in Nat /\ Index(clock', now') \in Nat
      /\ checks \in Seq(Check) /\ Len(checks) \in Nat
  BY IndexOK DEF TypeInv
<1>2. ASSUME NEW name, Behind(name, Index(clock, now))
      PROVE  Behind(name, Index(clock', now'))
  <2>1. PICK i \in DOMAIN Template :
           i < Index(clock, now) /\ Template[i].window = name[2] /\ name[2] # None
    BY <1>2 DEF Behind
  <2>2. i \in Nat
    BY BlocksKnown
  <2>3. i < Index(clock', now')
    BY <1>1, <2>1, <2>2
  <2>4. QED
    BY <2>1, <2>3 DEF Behind
<1>3. ASSUME NEW k \in 1 .. Len(checks'), checks'[k].name[1] = "window"
      PROVE  Behind(checks'[k].name, Index(clock', now'))
  <2>1. CASE checks' = checks
    BY <1>2, <1>3, <2>1 DEF ShutInv
  <2>2. ASSUME NEW new \in Check, checks' = Append(checks, new),
               new.name[1] = "window" => Behind(new.name, Index(clock, now))
        PROVE  Behind(checks'[k].name, Index(clock', now'))
    <3>1. /\ Len(checks') = Len(checks) + 1 /\ checks'[Len(checks) + 1] = new
          /\ \A i \in 1 .. Len(checks) : checks'[i] = checks[i]
      BY <1>1, <2>2
    <3>2. CASE k \in 1 .. Len(checks)
      BY <1>2, <1>3, <3>1, <3>2 DEF ShutInv
    <3>3. CASE k = Len(checks) + 1
      BY <1>2, <1>3, <2>2, <3>1, <3>3
    <3>4. QED
      BY <1>1, <1>3, <3>1, <3>2, <3>3
  <2>3. QED
    BY <2>1, <2>2
<1>4. QED
  BY <1>3 DEF ShutInv

(* A tick hands out what the event has entered. *)
LEMMA ShutTick ==
  ASSUME TypeInv, TypeInv', ShutInv, NEW x \in Actor, Tick(x),
         Index(clock, now) <= Index(clock', now')
  PROVE  ShutInv'
<1>1. PICK upto \in 0 .. Len(clock.blocks), new \in Nat :
            /\ upto = (IF Index(clock, now) > Len(clock.dur) THEN Len(clock.dur)
                       ELSE Index(clock, now))
            /\ new = IF upto > clock.last THEN upto - clock.last ELSE 0
            /\ clock' = [clock EXCEPT !.last = clock.last + new]
            /\ due' = [due EXCEPT ![x] =
                         [k \in 1 .. new |-> [index |-> clock.last + k, values |-> None,
                                              block |-> clock.blocks[clock.last + k]]]]
            /\ checks' = checks
  BY Handed DEF event
<1>2. /\ ClockOK(clock) /\ Index(clock, now) \in Nat /\ Index(clock', now') \in Nat
      /\ due \in [Actor -> Seq(Item)]
  BY IndexOK DEF TypeInv
<1>3. clock.last \in Nat /\ clock'.last = clock.last + new
  BY <1>1, <1>2 DEF ClockOK, Fields
<1>4. Len(clock.dur) = Len(clock.blocks) /\ Len(clock.blocks) \in Nat
  BY <1>2 DEF ClockOK
<1>5. upto <= Index(clock, now) /\ clock.last <= Index(clock, now)
  BY <1>1, <1>2, <1>4 DEF ShutInv
<1>6. clock'.last <= Index(clock', now')
  BY <1>1, <1>2, <1>3, <1>5
<1>7. ASSUME NEW y \in Actor, NEW k \in 1 .. Len(due'[y])
      PROVE  due'[y][k].index <= clock'.last
  <2>1. CASE y = x
    <3>1. PICK d : d = [j \in 1 .. new |-> [index |-> clock.last + j, values |-> None,
                                            block |-> clock.blocks[clock.last + j]]]
      OBVIOUS
    <3>2. due'[y] = d
      BY <1>1, <1>2, <2>1, <3>1
    <3>3. Len(d) = new
      BY <3>1
    <3>4. k \in 1 .. new /\ due'[y][k].index = clock.last + k
      BY <1>7, <3>1, <3>2, <3>3
    <3>5. QED
      BY <1>3, <3>4
  <2>2. CASE y # x
    <3>1. due'[y] = due[y]
      BY <1>1, <1>2, <2>2
    <3>2. due[y][k].index <= clock.last /\ due[y] \in Seq(Item) /\ k \in 1 .. Len(due[y])
      BY <1>2, <1>7, <3>1 DEF ShutInv
    <3>3. due[y][k] \in Item
      BY <3>2
    <3>4. due[y][k].index \in Nat
      BY <3>3 DEF Item
    <3>5. QED
      BY <1>3, <3>1, <3>2, <3>4
  <2>3. QED
    BY <2>1, <2>2
<1>8. QED
  BY <1>1, <1>6, <1>7, ShutKept

(* The close of a window is delivered after the event has left it. *)
LEMMA ShutDeliver ==
  ASSUME TypeInv, TypeInv', ShutInv, Forward(clock), NEW x \in Actor, Deliver(x), ~Tick(x),
         Index(clock, now) <= Index(clock', now')
  PROVE  ShutInv'
<1>1. /\ clock' = clock /\ pc[x] \in Stages
  BY DEF Deliver, Announce, Freeze, StoreSnapshot, CloseWindow, Finish, Stages
<1>2. /\ due[x] \in Seq(Item) /\ due[x] # <<>> /\ Len(due[x]) \in Nat \ {0}
      /\ Place(x) \in Nat /\ Place(x) = due[x][1].index
  BY <1>1, Delivering
<1>3. /\ ClockOK(clock) /\ Index(clock, now) \in Nat /\ Index(clock', now') \in Nat
      /\ due \in [Actor -> Seq(Item)] /\ clock.last \in Nat /\ now \in Nat
  BY IndexOK DEF TypeInv, ClockOK
<1>4. clock'.last <= Index(clock', now')
  BY <1>1, <1>3 DEF ShutInv
<1>5. ASSUME NEW y \in Actor, NEW k \in 1 .. Len(due'[y])
      PROVE  due'[y][k].index <= clock'.last
  <2>1. CASE due' = due
    BY <1>1, <1>5, <2>1 DEF ShutInv
  <2>2. CASE Freeze(x)
    <3>1. /\ Len(due'[x]) = Len(due[x])
          /\ \A i \in 1 .. Len(due[x]) : due'[x][i].index = due[x][i].index
          /\ \A z \in Actor \ {x} : due'[z] = due[z]
      BY <1>1, <2>2, Valued
    <3>2. QED
      BY <1>1, <1>5, <3>1 DEF ShutInv
  <2>3. CASE due' = [due EXCEPT ![x] = Tail(@)]
    <3>1. CASE y = x
      <4>1. due'[y] = Tail(due[x])
        BY <1>3, <2>3, <3>1
      <4>2. Len(Tail(due[x])) = Len(due[x]) - 1
        BY <1>2
      <4>3. k \in 1 .. Len(due[x]) - 1
        BY <1>5, <4>1, <4>2
      <4>4. Tail(due[x])[k] = due[x][k + 1] /\ k + 1 \in 1 .. Len(due[x])
        BY <1>2, <4>2, <4>3
      <4>5. QED
        BY <1>1, <4>1, <4>4 DEF ShutInv
    <3>2. CASE y # x
      BY <1>1, <1>3, <1>5, <2>3, <3>2 DEF ShutInv
    <3>3. QED
      BY <3>1, <3>2
  <2>4. QED
    BY <2>1, <2>2, <2>3 DEF Deliver, Announce, StoreSnapshot, CloseWindow, Finish
<1>6. \/ checks' = checks
      \/ \E new \in Check : /\ checks' = Append(checks, new)
                            /\ new.name[1] = "window" => Behind(new.name, Index(clock, now))
  <2>1. ASSUME NEW name \in Name, TakeCheckpoint(name), name[1] = "window" => Behind(name, Index(clock, now))
        PROVE  \/ checks' = checks
               \/ \E new \in Check : /\ checks' = Append(checks, new)
                                     /\ new.name[1] = "window" => Behind(new.name, Index(clock, now))
    <3>1. PICK new : new = [name |-> name, at |-> now]
      OBVIOUS
    <3>2. new \in Check /\ new.name = name
      BY <1>3, <3>1 DEF Check
    <3>3. checks' = checks \/ checks' = Append(checks, new)
      BY <2>1, <3>1 DEF TakeCheckpoint
    <3>4. QED
      BY <2>1, <3>2, <3>3
  <2>2. CASE CloseWindow(x)
    <3>1. PICK i : i = ClosedBlock(x)
      OBVIOUS
    <3>2. CASE checks' = checks
      BY <3>2
    <3>3. CASE /\ i > 0 /\ i <= Len(clock.blocks) /\ clock.blocks[i].window # None
               /\ TakeCheckpoint(<<"window", clock.blocks[i].window>>)
      <4>1. i = Place(x) - 1 /\ i \in 1 .. Len(clock.blocks)
        BY <1>2, <3>1, <3>3 DEF ClosedBlock
      <4>2. 1 \in 1 .. Len(due[x])
        BY <1>2
      <4>3. Place(x) <= clock.last /\ clock.last <= Index(clock, now)
        BY <1>2, <4>2 DEF ShutInv
      <4>4. i < Index(clock, now)
        BY <1>2, <1>3, <4>1, <4>3
      <4>5. clock.blocks = Template /\ clock.blocks \in Seq(Scheduled)
        BY <1>3 DEF ClockOK, Forward
      <4>6. clock.blocks[i] \in Scheduled /\ i \in DOMAIN Template
        BY <4>1, <4>5
      <4>7. PICK name : name = <<"window", clock.blocks[i].window>>
        OBVIOUS
      <4>8. name \in Name /\ name[2] = Template[i].window
        BY <4>5, <4>6, <4>7 DEF Name
      <4>9. Behind(name, Index(clock, now))
        BY <3>3, <4>4, <4>5, <4>6, <4>8 DEF Behind
      <4>10. QED
        BY <2>1, <3>3, <4>7, <4>8, <4>9
    <3>4. QED
      BY <2>2, <3>1, <3>2, <3>3 DEF CloseWindow
  <2>3. CASE Finish(x)
    <3>1. PICK name : name = <<"final", 0>>
      OBVIOUS
    <3>2. name \in Name /\ name[1] # "window"
      BY <3>1 DEF Name
    <3>3. checks' = checks \/ TakeCheckpoint(name)
      BY <2>3, <3>1 DEF Finish
    <3>4. QED
      BY <2>1, <3>2, <3>3
  <2>4. CASE Announce(x) \/ Freeze(x) \/ StoreSnapshot(x)
    <3>1. checks' = checks
      BY <2>4 DEF Announce, Freeze, StoreSnapshot, event
    <3>2. QED
      BY <3>1
  <2>5. QED
    BY <2>2, <2>3, <2>4 DEF Deliver
<1>7. QED
  BY <1>4, <1>5, <1>6, ShutKept

(* What organisers do beside delivering. *)
LEMMA ShutOrganiser ==
  ASSUME TypeInv, TypeInv', ShutInv, Stepping, Forward(clock), NEW o \in Organiser,
         Operation(o) \/ Step(o) \/ Persist(o),
         Index(clock, now) <= Index(clock', now')
  PROVE  ShutInv'
<1>1. /\ order[o].do \in {"startAt", "next", "pause", "resume", "freeze"}
      /\ ClockOK(clock) /\ Index(clock, now) \in Nat /\ Index(clock', now') \in Nat
      /\ due \in [Actor -> Seq(Item)] /\ clock.last \in Nat /\ now \in Nat /\ o \in Actor
      /\ clock.blocks = Template
  BY IndexOK DEF TypeInv, ClockOK, Stepping, Forward, Actor
<1>2. Operation(o) => StartAt(o) \/ Pause(o) \/ Resume(o) \/ ReadNext(o) \/ TakeSnapshot(o)
  BY <1>1 DEF Operation, Start, JumpTo, Nudge, SetBlockDuration, End, SetSchedule, SetFrozen,
              SetMarketOverride, SetWindowOverride, Asks
<1>3. checks' = checks
  BY <1>2 DEF StartAt, Pause, Resume, ReadNext, TakeSnapshot, Step, Persist, Change, event
<1>4. CASE TakeSnapshot(o)
  <2>1. clock' = clock
    BY <1>4 DEF TakeSnapshot
  <2>2. clock'.last <= Index(clock', now')
    BY <1>1, <2>1 DEF ShutInv
  <2>3. ASSUME NEW y \in Actor, NEW k \in 1 .. Len(due'[y])
        PROVE  due'[y][k].index <= clock'.last
    <3>1. CASE y = o
      <4>1. PICK e : e = [index |-> 0, values |-> None, block |-> [freeze |-> order[o].name]]
        OBVIOUS
      <4>2. due'[y] = <<e>>
        BY <1>1, <1>4, <3>1, <4>1 DEF TakeSnapshot
      <4>3. k = 1
        BY <2>3, <4>2
      <4>4. due'[y][k] = e /\ e.index = 0
        BY <4>1, <4>2, <4>3
      <4>5. QED
        BY <1>1, <2>1, <4>4
    <3>2. CASE y # o
      BY <1>1, <1>4, <2>1, <2>3, <3>2 DEF TakeSnapshot, ShutInv
    <3>3. QED
      BY <3>1, <3>2
  <2>4. QED
    BY <1>3, <2>2, <2>3, ShutKept
<1>5. ASSUME due' = due, clock'.last <= Index(clock', now'),
             clock'.last = clock.last \/ clock.last = 0, clock'.last \in Nat
      PROVE  ShutInv'
  <2>1. ASSUME NEW y \in Actor, NEW k \in 1 .. Len(due'[y])
        PROVE  due'[y][k].index <= clock'.last
    <3>1. due[y] \in Seq(Item) /\ k \in 1 .. Len(due[y])
      BY <1>1, <1>5, <2>1
    <3>2. due[y][k] \in Item
      BY <3>1
    <3>3. due[y][k].index \in Nat /\ due[y][k].index <= clock.last
      BY <3>1, <3>2 DEF Item, ShutInv
    <3>4. QED
      BY <1>1, <1>5, <3>3
  <2>2. QED
    BY <1>3, <1>5, <2>1, ShutKept
<1>6. ASSUME NEW i \in DOMAIN Template, ~clock.started, clock' = AtBlock(clock, i), now' = now,
             due' = due
      PROVE  ShutInv'
  <2>1. i \in Nat /\ i \in 1 .. Len(Template)
    BY BlocksKnown
  <2>2. i <= Index(AtBlock(clock, i), now)
    BY <1>1, Jumped
  <2>3. clock.last = 0
    <3>1. Index(clock, now) = 0
      BY <1>6 DEF Index
    <3>2. QED
      BY <1>1, <3>1 DEF ShutInv
  <2>4. clock'.last = i - 1
    BY <1>1, <1>6 DEF AtBlock, ClockOK, Fields
  <2>5. clock'.last <= Index(clock', now')
    BY <1>1, <1>6, <2>1, <2>2, <2>4
  <2>6. QED
    BY <1>5, <1>6, <2>1, <2>3, <2>4, <2>5
<1>7. ASSUME clock'.last = clock.last, due' = due PROVE ShutInv'
  BY <1>1, <1>5, <1>7 DEF ShutInv
<1>8. CASE StartAt(o)
  <2>1. PICK i \in IndexOf(clock, order[o].block) : Change(o, AtBlock(clock, i))
    BY <1>8 DEF StartAt
  <2>2. i \in DOMAIN Template
    BY <1>1 DEF IndexOf
  <2>3. QED
    BY <1>6, <1>8, <2>1, <2>2 DEF StartAt, Change
<1>9. CASE Pause(o)
  <2>1. clock'.last = clock.last
    BY <1>1, <1>9 DEF Pause, Change, ClockOK, Fields
  <2>2. QED
    BY <1>7, <1>9, <2>1 DEF Pause, Change
<1>10. CASE Resume(o)
  <2>1. clock'.last = clock.last
    BY <1>1, <1>10 DEF Resume, Unpaused, Change, ClockOK, Fields
  <2>2. QED
    BY <1>7, <1>10, <2>1 DEF Resume, Change
<1>11. CASE ReadNext(o) \/ Persist(o)
  BY <1>7, <1>11 DEF ReadNext, Persist
<1>12. CASE Step(o)
  <2>1. CASE pc[o] = "starting" /\ ~clock.started /\ Change(o, AtBlock(clock, 1))
    <3>1. CASE 1 \in DOMAIN Template
      BY <1>6, <2>1, <3>1 DEF Change
    <3>2. CASE 1 \notin DOMAIN Template
      <4>1. clock'.last = 0
        BY <1>1, <2>1 DEF AtBlock, Change, ClockOK, Fields
      <4>2. Index(clock, now) = 0
        BY <2>1 DEF Index
      <4>3. clock.last = 0
        BY <1>1, <4>2 DEF ShutInv
      <4>4. QED
        BY <1>7, <2>1, <4>1, <4>3 DEF Change
    <3>3. QED
      BY <3>1, <3>2
  <2>2. ASSUME NEW i, Change(o, JumpedTo(clock, i)) PROVE ShutInv'
    <3>1. clock'.last = clock.last
      BY <1>1, <2>2 DEF JumpedTo, Change, ClockOK, Fields
    <3>2. QED
      BY <1>7, <2>2, <3>1 DEF Change
  <2>3. CASE clock' = clock /\ due' = due
    BY <1>7, <2>3
  <2>4. QED
    BY <1>12, <2>1, <2>2, <2>3 DEF Step
<1>13. QED
  BY <1>2, <1>4, <1>8, <1>9, <1>10, <1>11, <1>12

(* Any step while the event only goes forward. *)
LEMMA NextShut ==
  ASSUME TypeInv, TypeInv', IdsDiffer, Timely, [Next]_vars,
         Stepping => ForwardInv /\ ShutInv, Stepping'
  PROVE  ForwardInv' /\ ShutInv'
<1>1. Stepping /\ ~Kill
  BY StillStepping
<1>2. ForwardInv /\ ShutInv /\ ForwardInv' /\ Forward(clock)
  BY <1>1, NextForward DEF ForwardInv
<1>3. Index(clock, now) <= Index(clock', now')
  BY <1>2, NeverBack
<1>4. CASE \E o \in Organiser : Operation(o) \/ Step(o) \/ Persist(o)
  BY <1>1, <1>2, <1>3, <1>4, ShutOrganiser
<1>5. CASE \E x \in Actor : Deliver(x)
  BY <1>2, <1>3, <1>5, ShutTick, ShutDeliver
<1>6. CASE Pass \/ FormFunds \/ Break \/ UNCHANGED vars
  <2>1. /\ clock' = clock /\ due' = due /\ checks' = checks
    BY <1>6 DEF Pass, FormFunds, Break, vars, event
  <2>2. ClockOK(clock) /\ Index(clock, now) \in Nat /\ Index(clock', now') \in Nat
        /\ clock.last \in Nat
    BY IndexOK DEF TypeInv, ClockOK
  <2>3. clock'.last <= Index(clock', now')
    BY <1>2, <1>3, <2>1, <2>2 DEF ShutInv
  <2>4. \A x \in Actor : \A k \in 1 .. Len(due'[x]) : due'[x][k].index <= clock'.last
    BY <1>2, <2>1 DEF ShutInv
  <2>5. QED
    BY <1>2, <1>3, <2>1, <2>3, <2>4, ShutKept
<1>7. QED
  BY <1>1, <1>2, <1>4, <1>5, <1>6 DEF Next

(* A window that is behind the event is not open. *)
LEMMA BehindShut ==
  ASSUME TypeInv, ForwardInv, ShutInv, WindowsDiffer, NEW w \in Window,
         Checkpointed(<<"window", w>>)
  PROVE  ~WindowOpen(clock, now, w)
<1>1. PICK k \in DOMAIN checks : checks[k].name = <<"window", w>>
  BY DEF Checkpointed
<1>2. checks \in Seq(Check) /\ k \in 1 .. Len(checks)
  BY DEF TypeInv
<1>3. Behind(<<"window", w>>, Index(clock, now))
  <2>1. checks[k].name[1] = "window"
    BY <1>1
  <2>2. QED
    BY <1>1, <1>2, <2>1 DEF ShutInv
<1>4. PICK i \in DOMAIN Template :
         i < Index(clock, now) /\ Template[i].window = w /\ w # None
  BY <1>3 DEF Behind
<1>5. /\ Index(clock, now) \in Nat /\ i \in 1 .. Len(Template) /\ Len(Template) \in Nat
      /\ Forward(clock) /\ Len(clock.dur) = Len(clock.blocks)
      /\ DOMAIN Template = 1 .. Len(Template)
  <2>1. ClockOK(clock) /\ Forward(clock)
    BY DEF TypeInv, ForwardInv
  <2>2. /\ Template \in Seq(Scheduled) /\ DOMAIN Template = 1 .. Len(Template)
        /\ Len(Template) \in Nat
    BY BlocksKnown
  <2>3. Index(clock, now) \in Nat /\ Len(clock.dur) = Len(clock.blocks)
    BY <2>1, IndexOK DEF ClockOK
  <2>4. QED
    BY <1>4, <2>1, <2>2, <2>3
<1> SUFFICES ASSUME WindowOpen(clock, now, w) PROVE FALSE
  OBVIOUS
<1>6. clock.ov.windows[w] = None
  BY <1>5 DEF Forward, NoOverride
<1>7. Index(clock, now) <= Len(Template) /\ Template[Index(clock, now)].window = w
  BY <1>5, <1>6 DEF WindowOpen, Ended, Forward
<1>8. Index(clock, now) \in DOMAIN Template
  BY <1>4, <1>5, <1>7
<1>9. i = Index(clock, now)
  BY <1>4, <1>7, <1>8 DEF WindowsDiffer
<1>10. QED
  BY <1>4, <1>5, <1>9

(* A window whose checkpoint is taken stays shut (onTransition after       *)
(* WindowOpen has become false), as long as nobody moves the event but by  *)
(* steps, each made before a whole block has overtaken it.                 *)
THEOREM WindowsClose == IdsDiffer /\ WindowsDiffer /\ Spec /\ []Timely => []WindowsShut
<1> SUFFICES ASSUME IdsDiffer, WindowsDiffer PROVE Spec /\ []Timely => []WindowsShut
  OBVIOUS
<1> DEFINE Inv == Stepping => ForwardInv /\ ShutInv
<1>1. Init => Inv
  <2> SUFFICES ASSUME Init PROVE ShutInv
    BY InitForward
  <2>1. clock.last = 0 /\ ~clock.started /\ checks = <<>> /\ \A x \in Actor : due[x] = <<>>
    BY DEF Init, FreshClock
  <2>2. Index(clock, now) = 0
    BY <2>1 DEF Index
  <2>3. QED
    BY <2>1, <2>2 DEF ShutInv
<1>2. TypeInv /\ TypeInv' /\ Inv /\ Timely /\ [Next]_vars => Inv'
  BY NextShut
<1>3. TypeInv /\ Inv => WindowsShut
  BY BehindShut DEF WindowsShut
<1> HIDE DEF Inv
<1>4. QED
  BY <1>1, <1>2, <1>3, ClockStands, PTL DEF Spec
=============================================================================
