---------------------------- MODULE MCEventClock ----------------------------
(* EventClock on a timeline of four blocks: trading, the freeze of Phase 1, *)
(* an allocation window, and the end with the final freeze.                *)
EXTENDS EventClock, TLC

Timeline ==
    << [id |-> "trade",  len |-> 2, window |-> None, freeze |-> None],
       [id |-> "rank",   len |-> 1, window |-> None, freeze |-> "phase1"],
       [id |-> "invest", len |-> 2, window |-> 0,    freeze |-> None],
       [id |-> "close",  len |-> 1, window |-> None, freeze |-> "final"] >>

(* Another schedule, whose freeze comes earlier. *)
Shorter ==
    << [id |-> "rank",   len |-> 2, window |-> None, freeze |-> "phase1"],
       [id |-> "close",  len |-> 2, window |-> None, freeze |-> "final"] >>

Go(to) == [do |-> "next", to |-> to]

(* What an organiser may do to a running clock. *)
Controls ==
    {[do |-> "start"], [do |-> "pause"], [do |-> "resume", compress |-> None],
     [do |-> "resume", compress |-> "invest"], [do |-> "nudge", by |-> 1],
     [do |-> "length", block |-> "rank", len |-> 2],
     [do |-> "frozen", on |-> TRUE], [do |-> "market", open |-> "open"],
     [do |-> "window", window |-> 0, open |-> "closed"]}

Moves ==
    {[do |-> "start"], [do |-> "jump", block |-> "trade"], [do |-> "end"],
     [do |-> "nudge", by |-> -1], [do |-> "length", block |-> "trade", len |-> 1],
     [do |-> "schedule", blocks |-> Shorter], [do |-> "template"]}

(* Stepping through the event: a button pressed twice, or without a name,  *)
(* a pause in between, a freeze by hand.                                   *)
Steps == [Organiser -> {[do |-> "startAt", block |-> "rank"], Go("invest"), Go(None),
                        [do |-> "pause"], [do |-> "resume", compress |-> None],
                        [do |-> "freeze", name |-> "phase1"]}]

Everything == [Organiser -> Controls \cup Moves]

Same == Permutations(Organiser)

(* Pairs that meet at a freeze block, and a freeze by hand. *)
Starting   == [Organiser -> {[do |-> "start"], [do |-> "frozen", on |-> TRUE]}]
Replanning == [Organiser -> {[do |-> "start"], [do |-> "schedule", blocks |-> Shorter]}]
ByHand     == [Organiser -> {[do |-> "start"], [do |-> "freeze", name |-> "phase1"]}]
=============================================================================
