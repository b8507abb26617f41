----------------------------- MODULE MCNewsroom -----------------------------
(* A rumour that moves the price down, a bull run, and a word from the     *)
(* organisers.                                                             *)
EXTENDS Newsroom

Scenario == <<"crash">>

Stories ==
    [crash |-> [event |-> TRUE, news |-> TRUE, at |-> 2, phase2 |-> TRUE, shock |-> -6, ramp |-> 1],
     run   |-> [event |-> FALSE, news |-> FALSE, at |-> 1, phase2 |-> FALSE, shock |-> 0, ramp |-> 0],
     word  |-> [event |-> FALSE, news |-> TRUE, at |-> 0, phase2 |-> FALSE, shock |-> 0, ramp |-> 0]]

Requests ==
    {[op |-> "fire", id |-> "crash"], [op |-> "overdue"], [op |-> "manual", on |-> TRUE],
     [op |-> "skip", id |-> "crash", on |-> TRUE], [op |-> "edit", id |-> "crash", at |-> 3],
     [op |-> "shift", by |-> -1], [op |-> "publish", id |-> "word"]}

OneStep == <<9>>
=============================================================================
