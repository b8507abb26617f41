------------------------------ MODULE Projector ------------------------------
(***************************************************************************)
(* pgstore.Projector: every server copies the records into tables that can *)
(* be looked into, some hundred at a time, each batch in one transaction   *)
(* with how far it has come.  It runs beside the writer, reads what the    *)
(* writer has committed, and tells a start what may be tidied away.        *)
(***************************************************************************)
EXTENDS PgLog

CONSTANTS
    Holder,      \* of each record of an account, the account
    Reset,       \* records of a reset that deletes the teams
    Unfit,       \* records that the tables cannot hold
    Batch        \* how many are taken at a time

ASSUME ProjectorAssumption ==
    /\ DOMAIN Holder \subseteq Record /\ Reset \subseteq Record \ DOMAIN Holder
    /\ Unfit \subseteq Record \ Reset /\ Batch \in Nat \ {0}

VARIABLES
    state,       \* the row of projector_state: [last, epoch]
    tables,      \* accounts: of each the record it is from;
                 \* entries: of each row's record [rec, epoch], by its number
    solo         \* servers that go record by record after a refusal

projVars == <<state, tables, solo>>
vars     == <<logVars, projVars>>

Init ==
    /\ LogInit
    /\ state = [last |-> 0, epoch |-> 1]
    /\ tables = [accounts |-> <<>>, entries |-> <<>>]
    /\ solo = {}

Unseen == {n \in DOMAIN events : n > state.last}

(* batch: at most so many records, oldest first. *)
ToTake(s) ==
    LET limit == IF s \in solo THEN 1 ELSE Batch
    IN  {n \in Unseen : Cardinality({m \in Unseen : m < n}) < limit}

Unheld(todo) == {n \in todo : events[n] \in Unfit}

EpochMutant(epoch, r) == epoch

(* A reset's record begins an epoch. *)
Epoch(epoch, r) == IF r \in Reset THEN epoch + 1 ELSE epoch

Put(rows, k, row) == [x \in DOMAIN rows \cup {k} |-> IF x = k THEN row ELSE rows[x]]

(* What a table keeps of a record: one row, made once, in the epoch.       *)
Row(rows, n, row) == IF n \in DOMAIN rows THEN rows ELSE Put(rows, n, row)

(* apply: an account has one row, which its newest record overwrites, and  *)
(* a reset that deletes the teams leaves none.                             *)
Apply(t, n) ==
    LET r  == events[n]
        ep == Epoch(t.epoch, r)
    IN  [epoch    |-> ep,
         accounts |-> CASE r \in Reset         -> <<>>
                        [] r \in DOMAIN Holder -> Put(t.accounts, Holder[r], r)
                        [] OTHER               -> t.accounts,
         entries  |-> IF r \in Reset \cup DOMAIN Holder THEN t.entries
                      ELSE Row(t.entries, n, [rec |-> r, epoch |-> ep])]

(* The records of a batch that fit, one after the other. *)
Applied(todo) ==
    LET t[n \in state.last .. Max(todo)] ==
            IF n = state.last
            THEN [epoch |-> state.epoch, accounts |-> tables.accounts, entries |-> tables.entries]
            ELSE IF n \in todo \ Unheld(todo) THEN Apply(t[n - 1], n) ELSE t[n - 1]
    IN  t[Max(todo)]

(* The transaction: it locks the row, reads, applies each record, writes   *)
(* the row and commits; one that does not commit leaves nothing.  On its   *)
(* own, a record that does not fit is undone to the savepoint and skipped. *)
TakeIn(s) ==
    /\ writer[s].up /\ Unseen # {}
    /\ LET todo == ToTake(s)
           t    == Applied(todo)
       IN  /\ s \in solo \/ Unheld(todo) = {}
           /\ tables' = [accounts |-> t.accounts, entries |-> t.entries]
           /\ state' = [last |-> Max(todo), epoch |-> t.epoch]
    /\ solo' = solo \ {s}
    /\ UNCHANGED logVars

RefusedMutant(s) == FALSE

(* RunOnce: a batch with a record that does not fit is undone as a whole.  *)
Refused(s) ==
    /\ writer[s].up /\ s \notin solo /\ Unheld(ToTake(s)) # {}
    /\ solo' = solo \cup {s}
    /\ UNCHANGED <<logVars, state, tables>>

Starts(s) == Open(s, state.last) /\ UNCHANGED projVars

Stops(s) ==
    /\ Kill(s) \/ Exit(s)
    /\ solo' = solo \ {s}
    /\ UNCHANGED <<state, tables>>

ProjStep(s) == TakeIn(s) \/ Refused(s)

Next ==
    \/ LogNext /\ UNCHANGED projVars
    \/ \E s \in Server : ProjStep(s) \/ Starts(s) \/ Stops(s)

Spec == Init /\ [][Next]_vars

(* Until main stops it, after Close. *)
Projects(s) == writer[s].up /\ writer[s].at # "dead"

(* The goroutines run, a statement ends, the retries have a deadline.      *)
(* Nothing says that a server is ever closed, or when it exits.            *)
FairSpec ==
    /\ Spec
    /\ \A s \in Server : /\ WF_vars(WriterStep(s) /\ UNCHANGED projVars)
                         /\ WF_vars(Closed(s) /\ UNCHANGED projVars)
                         /\ WF_vars(Abandoned(s) /\ UNCHANGED projVars)
                         /\ WF_vars(Projects(s) /\ ProjStep(s))
    /\ \A s \in Server, r \in Record : WF_vars(Enqueue(s, r) /\ UNCHANGED projVars)
    /\ WF_vars((Commit \/ Reject) /\ UNCHANGED projVars)

-----------------------------------------------------------------------------
(* Properties *)

TypeOK ==
    /\ IsFiniteSet(DOMAIN events) /\ DOMAIN events \subseteq 1 .. Len(ever)
    /\ state.last \in 0 .. Len(ever) /\ state.epoch \in 1 .. Len(ever) + 1
    /\ session.by \in Server \cup {Nobody}
    /\ \A s \in Server : writer[s].at \in {"idle", "sent", "single", "cut", "done", "dead"}
    /\ \A r \in Record : /\ pc[r] \in {"new", "enters", "waits", "acked", "failed", "lost"}
                         /\ asked[r] \in Server \cup {Nobody}

EpochOf(n) == 1 + Cardinality({m \in 1 .. n : ever[m] \in Reset})

(* The row of account h, made from the newest of its records that fits; no *)
(* row when there is none since the newest reset.                          *)
Newest(h) ==
    LET seen == {n \in 1 .. state.last : /\ ever[n] \in DOMAIN Holder \ Unfit
                                         /\ Holder[ever[n]] = h
                                         /\ EpochOf(n) = EpochOf(state.last)}
    IN  IF seen = {} THEN {} ELSE {ever[Max(seen)]}

(* The tables follow the record: up to where they have come, each account  *)
(* is as its newest record has it, and of every other record ever inserted *)
(* that fits there is one row in the epoch it belongs to - also when the   *)
(* record was tidied, or a batch was undone, refused, or begun again by    *)
(* another server.                                                         *)
TablesFollow ==
    /\ \A h \in Range(Holder) :
         Newest(h) = IF h \in DOMAIN tables.accounts THEN {tables.accounts[h]} ELSE {}
    /\ DOMAIN tables.entries =
         {n \in 1 .. state.last : ever[n] \notin Reset \cup DOMAIN Holder \cup Unfit}
    /\ \A n \in DOMAIN tables.entries :
         tables.entries[n] = [rec |-> ever[n], epoch |-> EpochOf(n)]

(* The tables catch up while any server runs, whatever does not fit them.  *)
CatchesUp == []<>(state.last = Len(ever) \/ \A s \in Server : ~Projects(s))
=============================================================================
