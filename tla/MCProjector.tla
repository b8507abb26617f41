----------------------------- MODULE MCProjector -----------------------------
(* Two servers; a record that the database refuses, two records of one     *)
(* account, the older of which the tables cannot hold, a trade; and a      *)
(* reset that deletes the account, asked for before, between or after.     *)
EXTENDS Projector

CONSTANTS bad, old, new, trade, reset, team

Account == [r \in {old, new} |-> team]

Order == {<<bad, old>>, <<old, new>>, <<new, trade>>, <<bad, reset>>}
=============================================================================
