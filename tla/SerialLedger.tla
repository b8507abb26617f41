---------------------------- MODULE SerialLedger ----------------------------
(***************************************************************************)
(* What the trading system promises, whatever runs concurrently: there is  *)
(* one book of changes, each legal on the accounts as the changes before   *)
(* it left them and each trade made once; people are told of trades that   *)
(* are in the book, and a crash forgets only changes nobody was told of.   *)
(***************************************************************************)
EXTENDS LedgerOps

CONSTANTS Account, StartCash

VARIABLES book,      \* the changes, in the order they count
          answered   \* the trades people were told of

vars == <<book, answered>>

Accounts == Replayed([a \in Account |-> Opened(StartCash)], book)

Fresh(t) == \A i \in 1 .. Len(book) :
                book[i].kind = "trade" => <<book[i].acct, book[i].cid>> # <<t.acct, t.cid>>

Legal(rec) ==
    LET a == Accounts[rec.acct]
    IN  CASE rec.kind = "trade" -> Fresh(rec) /\ TradeAllowed(a, rec)
          [] rec.kind = "cash"  -> Covers(a, rec.delta)
          [] rec.kind = "take"  -> Holds(a, rec.sym, rec.qty)
          [] rec.kind = "give"  -> TRUE

Init == book = <<>> /\ answered = {}

Enter(rec) == Legal(rec) /\ book' = Append(book, rec) /\ UNCHANGED answered

Tell(t) == t \in ToSet(book) /\ answered' = answered \cup {t} /\ UNCHANGED book

Forget(n) ==
    /\ answered \subseteq ToSet(SubSeq(book, 1, n))
    /\ book' = SubSeq(book, 1, n)
    /\ UNCHANGED answered

Next ==
    \/ Len(book') > Len(book) /\ Enter(Last(book'))
    \/ \E t \in ToSet(book) : Tell(t)
    \/ \E n \in 0 .. Len(book) : Forget(n)

Spec == Init /\ [][Next]_vars
=============================================================================
