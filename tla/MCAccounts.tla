----------------------------- MODULE MCAccounts -----------------------------
EXTENDS Accounts, TLC

CONSTANTS n1, n2, c1, c2, x, y, y2, w

Boxes == x :> "x" @@ y :> "y" @@ y2 :> "y" @@ w :> "w"
First == "t1" :> x
Like  == Permutations({n1, n2}) \cup Permutations({c1, c2})
=============================================================================
