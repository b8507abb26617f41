---------------------------- MODULE MCTradeGate -----------------------------
(* Four requests that may repeat one another, on one account.             *)
EXTENDS TradeGate, TLC

Same == Permutations(Call) \cup Permutations(Id)
=============================================================================
