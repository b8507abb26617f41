-------------------------------- MODULE PgLog --------------------------------
(***************************************************************************)
(* pgstore.Log: the records are rows of a table, and a server may insert   *)
(* only on the one connection that holds the write lock of the database.   *)
(* A connection may die with a statement still at work in the database: it *)
(* may commit yet, and the lock is free when the database notices.  Two    *)
(* servers want to write; the second takes over when the first is cut off. *)
(*                                                                         *)
(* Every record is appended by a goroutine of its own.  A row's number is  *)
(* how many were inserted before it, gaps are left out.                    *)
(***************************************************************************)
EXTENDS Naturals, Sequences, SequencesExt, FiniteSets, FiniteSetsExt, Functions

CONSTANTS
    Server, Nobody,
    Record,        \* each is appended once
    Bad,           \* those the database refuses for what is in them
    Ruled,         \* those that a newer one of Ruled replaces (one key)
    Capacity,      \* of Log.reqs
    Earlier,       \* bound: pairs of records, the first asked for before the second
    MaxOpens, MaxUpsets    \* bounds: of starts; of connections lost, kills, closings

ASSUME PgLogAssumption ==
    /\ Nobody \notin Server /\ Bad \subseteq Record /\ Ruled \subseteq Record
    /\ Earlier \subseteq Record \X Record
    /\ Capacity \in Nat \ {0} /\ MaxOpens \in Nat /\ MaxUpsets \in Nat

VARIABLES
    events,     \* the table: a record for each row
    ever,       \* every record inserted so far, oldest first
    session,    \* the connection that holds the lock: its server, whether the
                \* server still has it, the statement at work, its answer
    writer,     \* each server: [up, broken, closed, at, batch]
    queue,      \* its Log.reqs
    pc,         \* each record's Append: where it is
    asked,      \* and the server it was asked of
    opens, upsets

logVars == <<events, ever, session, writer, queue, pc, asked, opens, upsets>>

Free == [by |-> Nobody, attached |-> FALSE, stmt |-> <<>>, answer |-> "none"]

Held(s, batch) == [by |-> s, attached |-> TRUE, stmt |-> batch, answer |-> "none"]

Down == [up |-> FALSE, broken |-> FALSE, closed |-> FALSE, at |-> "idle", batch |-> <<>>]

LogInit ==
    /\ events = <<>> /\ ever = <<>> /\ session = Free
    /\ writer = [s \in Server |-> Down] /\ queue = [s \in Server |-> <<>>]
    /\ pc = [r \in Record |-> "new"] /\ asked = [r \in Record |-> Nobody]
    /\ opens = 0 /\ upsets = 0

Connected(s) == session.by = s /\ session.attached

Told(rs, what) == pc' = [r \in Record |-> IF r \in rs THEN what ELSE pc[r]]

(* failure: what Append and flush ask first. *)
Failing(s) == writer[s].closed \/ writer[s].broken

(* Log.Append up to its check: after it the log may close or break. *)
AppendRecord(s, r) ==
    /\ writer[s].up /\ pc[r] = "new"
    /\ \A e \in Earlier : e[2] = r => pc[e[1]] \notin {"new", "enters"}
    /\ Told({r}, IF Failing(s) THEN "failed" ELSE "enters")
    /\ asked' = [asked EXCEPT ![r] = s]
    /\ UNCHANGED <<events, ever, session, writer, queue, opens, upsets>>

Entering(s) == {r \in Record : pc[r] = "enters" /\ asked[r] = s}

(* Its select: the record is queued, once there is room, or the log's stop *)
(* is seen.  A log that is closed may do either, its writer gone or not.   *)
Enqueue(s, r) ==
    /\ writer[s].up /\ r \in Entering(s)
    /\ \/ /\ Len(queue[s]) < Capacity
          /\ Told({r}, "waits")
          /\ queue' = [queue EXCEPT ![s] = Append(@, r)]
       \/ /\ writer[s].closed
          /\ Told({r}, "failed")
          /\ UNCHANGED queue
    /\ UNCHANGED <<events, ever, session, writer, asked, opens, upsets>>

(* A definition named ...Mutant is a plausible bug in the one after it;    *)
(* only the mutation runs use it.                                          *)

AbandonedMutant(s) == FALSE

(* Its wait, when the writer is gone for good and reads the queue no more. *)
Abandoned(s) ==
    /\ writer[s].at = "dead" /\ queue[s] # <<>>
    /\ Told(ToSet(queue[s]), "failed")
    /\ queue' = [queue EXCEPT ![s] = <<>>]
    /\ UNCHANGED <<events, ever, session, writer, asked, opens, upsets>>

-----------------------------------------------------------------------------
(* The writer goroutine. *)

Goes(s, at, batch) == writer' = [writer EXCEPT ![s].at = at, ![s].batch = batch]

(* insert, when the connection is there. *)
Sends(s, batch) == session' = Held(s, batch)

(* Log.run and the top of flush: what is queued becomes a batch, or one    *)
(* after the other once stop is seen; a log that is closed or broken       *)
(* refuses what it takes.                                                  *)
Begin(s) ==
    /\ writer[s].up /\ writer[s].at = "idle" /\ queue[s] # <<>>
    /\ \E n \in {Len(queue[s])} \cup (IF writer[s].closed THEN {1} ELSE {}) :
       LET batch == SubSeq(queue[s], 1, n)
       IN  /\ queue' = [queue EXCEPT ![s] = SubSeq(@, n + 1, Len(@))]
           /\ IF Failing(s)
              THEN Told(ToSet(batch), "failed") /\ UNCHANGED <<writer, session>>
              ELSE /\ IF Connected(s) THEN Sends(s, batch) /\ Goes(s, "sent", batch)
                                      ELSE Goes(s, "cut", batch) /\ UNCHANGED session
                   /\ UNCHANGED pc
    /\ UNCHANGED <<events, ever, asked, opens, upsets>>

Answered(s, at) == Connected(s) /\ writer[s].at = at /\ session.answer # "none"

(* flush: the batch is stored, and everybody is told. *)
Stored(s) ==
    /\ Answered(s, "sent") /\ session.answer = "ok"
    /\ Told(ToSet(writer[s].batch), "acked")
    /\ Goes(s, "idle", <<>>)
    /\ UNCHANGED <<events, ever, session, queue, asked, opens, upsets>>

(* flush: one bad record must not sink the batch. *)
Split(s) ==
    /\ Answered(s, "sent") /\ session.answer = "data"
    /\ Sends(s, <<Head(writer[s].batch)>>)
    /\ Goes(s, "single", writer[s].batch)
    /\ UNCHANGED <<events, ever, queue, pc, asked, opens, upsets>>

NextOne(s) ==
    /\ Answered(s, "single")
    /\ LET batch == writer[s].batch
           rest  == Tail(batch)
       IN  /\ Told({Head(batch)}, IF session.answer = "ok" THEN "acked" ELSE "failed")
           /\ IF rest = <<>> THEN Goes(s, "idle", <<>>) /\ UNCHANGED session
                             ELSE Goes(s, "single", rest) /\ Sends(s, <<Head(rest)>>)
    /\ UNCHANGED <<events, ever, queue, asked, opens, upsets>>

(* flush: the connection is found dead by the statement, whose outcome     *)
(* nobody knows now.  Records that were going one by one are refused, each *)
(* as its insert fails.                                                    *)
Notice(s) ==
    /\ ~Connected(s)
    /\ \/ /\ writer[s].at = "sent"
          /\ Goes(s, "cut", writer[s].batch)
          /\ UNCHANGED pc
       \/ /\ writer[s].at = "single"
          /\ Told(ToSet(writer[s].batch), "failed")
          /\ Goes(s, "idle", <<>>)
    /\ UNCHANGED <<events, ever, session, queue, asked, opens, upsets>>

(* keepAlive finds it dead while nothing is written. *)
KeepAlive(s) ==
    /\ writer[s].up /\ writer[s].at = "idle" /\ ~Failing(s) /\ ~Connected(s)
    /\ Goes(s, "cut", <<>>)
    /\ UNCHANGED <<events, ever, session, queue, pc, asked, opens, upsets>>

(* reconnect takes the lock again, and flush sends the batch again. *)
Reconnect(s) ==
    /\ writer[s].up /\ writer[s].at = "cut" /\ session.by = Nobody
    /\ LET batch == writer[s].batch
       IN  /\ Sends(s, batch)
           /\ Goes(s, IF batch = <<>> THEN "idle" ELSE "sent", batch)
    /\ UNCHANGED <<events, ever, queue, pc, asked, opens, upsets>>

(* breakWith: the retries took too long. *)
Break(s) ==
    /\ writer[s].up /\ writer[s].at = "cut"
    /\ writer' = [writer EXCEPT ![s].broken = TRUE, ![s].at = "idle", ![s].batch = <<>>]
    /\ Told(ToSet(writer[s].batch), "failed")
    /\ UNCHANGED <<events, ever, session, queue, asked, opens, upsets>>

-----------------------------------------------------------------------------
(* The database. *)

InsertMutant(batch) == ever \o batch

(* ON CONFLICT DO NOTHING: a record that has a row gets no other. *)
Inserted(rows, r) == IF r \in ToSet(rows) THEN rows ELSE Append(rows, r)

Insert(batch) == FoldLeft(Inserted, ever, batch)

(* The statement commits, whether its client is still there or not. *)
Commit ==
    /\ session.stmt # <<>> /\ ToSet(session.stmt) \cap Bad = {}
    /\ ever' = Insert(session.stmt)
    /\ events' = [n \in DOMAIN events \cup (Len(ever) + 1 .. Len(ever')) |->
                    IF n \in DOMAIN events THEN events[n] ELSE ever'[n]]
    /\ session' = [session EXCEPT !.stmt = <<>>, !.answer = "ok"]
    /\ UNCHANGED <<writer, queue, pc, asked, opens, upsets>>

Reject ==
    /\ ToSet(session.stmt) \cap Bad # {}
    /\ session' = [session EXCEPT !.stmt = <<>>, !.answer = "data"]
    /\ UNCHANGED <<events, ever, writer, queue, pc, asked, opens, upsets>>

Cut ==
    /\ session.attached /\ upsets < MaxUpsets
    /\ upsets' = upsets + 1
    /\ session' = [session EXCEPT !.attached = FALSE]
    /\ UNCHANGED <<events, ever, writer, queue, pc, asked, opens>>

(* The database notices that the client is gone. *)
SessionEnds ==
    /\ session.by # Nobody /\ ~session.attached
    /\ session' = Free
    /\ UNCHANGED <<events, ever, writer, queue, pc, asked, opens, upsets>>

-----------------------------------------------------------------------------
(* Servers. *)

(* compact: among the rows the lookup tables have, the newest record of a  *)
(* key takes the place of the oldest.                                      *)
Compact(upTo) ==
    LET stale == {n \in DOMAIN events : n <= upTo /\ events[n] \in Ruled}
    IN  IF Cardinality(stale) < 2 THEN events
        ELSE [n \in (DOMAIN events \ stale) \cup {Min(stale)} |->
                IF n = Min(stale) THEN events[Max(stale)] ELSE events[n]]

(* Open, tried until the lock is free. *)
Open(s, upTo) ==
    /\ ~writer[s].up /\ opens < MaxOpens /\ session.by = Nobody
    /\ opens' = opens + 1
    /\ Sends(s, <<>>)
    /\ events' = Compact(upTo)
    /\ writer' = [writer EXCEPT ![s] = [Down EXCEPT !.up = TRUE]]
    /\ UNCHANGED <<ever, queue, pc, asked, upsets>>

(* The process is gone, and whoever waited for an answer does not get one. *)
Gone(s) ==
    /\ writer' = [writer EXCEPT ![s] = Down]
    /\ queue' = [queue EXCEPT ![s] = <<>>]
    /\ Told(Entering(s) \cup ToSet(queue[s] \o writer[s].batch), "lost")
    /\ session' = IF session.by = s THEN [session EXCEPT !.attached = FALSE] ELSE session

Kill(s) ==
    /\ writer[s].up /\ upsets < MaxUpsets /\ upsets' = upsets + 1
    /\ Gone(s)
    /\ UNCHANGED <<events, ever, asked, opens>>

(* OnBroken's exit, or main's end after Close: at its own time, which no   *)
(* property may count on.                                                  *)
Exit(s) ==
    /\ writer[s].up /\ (writer[s].broken \/ writer[s].at = "dead")
    /\ Gone(s)
    /\ UNCHANGED <<events, ever, asked, opens, upsets>>

(* Close as far as its wait for the writer. *)
Close(s) ==
    /\ writer[s].up /\ ~writer[s].closed /\ upsets < MaxUpsets /\ upsets' = upsets + 1
    /\ writer' = [writer EXCEPT ![s].closed = TRUE]
    /\ UNCHANGED <<events, ever, session, queue, pc, asked, opens>>

(* run sees stop and finds nothing queued: the writer ends. *)
Drained(s) ==
    /\ writer[s].up /\ writer[s].closed /\ writer[s].at = "idle" /\ queue[s] = <<>>
    /\ Goes(s, "done", <<>>)
    /\ UNCHANGED <<events, ever, session, queue, pc, asked, opens, upsets>>

(* The rest of Close: dead is closed, and the lock is given back. *)
Closed(s) ==
    /\ writer[s].at = "done"
    /\ Goes(s, "dead", <<>>)
    /\ session' = IF Connected(s) THEN Free ELSE session
    /\ UNCHANGED <<events, ever, queue, pc, asked, opens, upsets>>

WriterStep(s) ==
    \/ Begin(s) \/ Stored(s) \/ Split(s) \/ NextOne(s) \/ Notice(s) \/ KeepAlive(s)
    \/ Reconnect(s) \/ Break(s) \/ Drained(s)

LogNext ==
    \/ \E s \in Server, r \in Record : AppendRecord(s, r) \/ Enqueue(s, r)
    \/ \E s \in Server : WriterStep(s) \/ Close(s) \/ Closed(s) \/ Abandoned(s)
    \/ Commit \/ Reject \/ Cut \/ SessionEnds

-----------------------------------------------------------------------------
(* Properties *)

(* The table keeps the promise of a Log, through lost answers, repeated    *)
(* batches and takeovers: what was acknowledged is there, in order, once.  *)
Promise == INSTANCE DurableLog WITH
    safe  <- ever,
    tail  <- <<>>,
    acked <- {r \in Record : pc[r] = "acked"}

ImplementsDurableLog == Promise!Spec

(* No Append waits for ever: the writer answers it or refuses it, however  *)
(* long the database is away, and the log refuses the one that passed the  *)
(* check before a Close and was queued after the writer had left.          *)
AppendReturns == []<>(\A r \in Record : pc[r] \notin {"enters", "waits"})

(* In no run, and not true: "Close finishes what is queued" (pg.go:376).   *)
(* Only the batch at work is finished, a writer whose log is closed        *)
(* refuses what it finds in its queue.                                     *)
ClosingFinishes ==
    [][\A s \in Server : \A r \in ToSet(queue[s]) :
         writer[s].at = "idle" /\ pc'[r] = "failed" => writer[s].broken]_logVars
=============================================================================
