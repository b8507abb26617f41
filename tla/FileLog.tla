------------------------------- MODULE FileLog -------------------------------
(***************************************************************************)
(* store.FileLog: an append-only file with group commit.  Appenders share  *)
(* one fsync: whoever finds no sync running flushes the buffer and syncs   *)
(* it for everybody, the others sleep on a condition variable.             *)
(*                                                                         *)
(* Every record is appended by a goroutine of its own, so a record names   *)
(* its appender.  The mutex l.mu is held from the top of Append to the     *)
(* first cond.Wait or to the fsync, so each stretch under the lock is one  *)
(* action.  A line of the file is a record or Garbage: a torn fragment     *)
(* that a later write was joined to.                                       *)
(***************************************************************************)
EXTENDS Naturals, Sequences, SequencesExt, FiniteSets

CONSTANTS Record,        \* the records (one appender each)
          Garbage,       \* a line that does not parse
          MaxRestarts    \* bound on how often the server is started again

ASSUME FileLogAssumption ==
    /\ Garbage \notin Record
    /\ MaxRestarts \in Nat

VARIABLES
    lines,     \* the file as the writer sees it: what is in it, then the buffer
    flushed,   \* how many lines the operating system has
    ondisk,    \* how many lines surely survive a power cut
    torn,      \* the file ends in a fragment of a line
    base,      \* lines in the file when it was opened
    pending,   \* FileLog.pending: records put into the buffer since then
    synced,    \* FileLog.synced: how many of those are known to be on disk
    syncing,   \* FileLog.syncing
    broken,    \* FileLog.broken # nil
    up,        \* the server is running with the log open (l.f # nil)
    pc,        \* where each record's Append is
    mine,      \* Append's local: the record's number since the file was opened
    upTo,      \* Append's local: what the sync it runs will cover
    replayed,  \* the records the last start rebuilt its state from
    restarts   \* how often the log has been opened again

vars == <<lines, flushed, ondisk, torn, base, pending, synced, syncing, broken,
          up, pc, mine, upTo, replayed, restarts>>

Waiting == {"asleep", "awake", "syncing"}
Status  == {"new", "acked", "failed", "lost"} \cup Waiting

TypeOK ==
    /\ lines \in Seq(Record \cup {Garbage})
    /\ flushed \in 0 .. Len(lines)
    /\ ondisk \in 0 .. flushed
    /\ torn \in BOOLEAN
    /\ base \in 0 .. Len(lines)
    /\ pending \in Nat
    /\ synced \in Nat
    /\ syncing \in BOOLEAN
    /\ broken \in BOOLEAN
    /\ up \in BOOLEAN
    /\ pc \in [Record -> Status]
    /\ mine \in [Record -> Nat]
    /\ upTo \in [Record -> Nat]
    /\ replayed \in SUBSET Record
    /\ restarts \in 0 .. MaxRestarts

Init ==
    /\ lines = <<>> /\ flushed = 0 /\ ondisk = 0 /\ torn = FALSE
    /\ base = 0 /\ pending = 0 /\ synced = 0
    /\ syncing = FALSE /\ broken = FALSE /\ up = TRUE
    /\ pc = [r \in Record |-> "new"]
    /\ mine = [r \in Record |-> 0]
    /\ upTo = [r \in Record |-> 0]
    /\ replayed = {}
    /\ restarts = 0

-----------------------------------------------------------------------------
(* A definition named ...Mutant is a plausible bug in the one after it;    *)
(* only the mutation runs use it.                                          *)
WokenMutant(p) == p

(* cond.Broadcast: every sleeper will look at the log's state again. *)
Woken(p) == [r \in Record |-> IF p[r] = "asleep" THEN "awake" ELSE p[r]]

StartSyncMutant(r, n, total) ==
    /\ upTo' = [upTo EXCEPT ![r] = n]
    /\ flushed' = IF up THEN total ELSE flushed
    /\ UNCHANGED syncing

(* Flush the buffer and start the sync that will cover everything written. *)
StartSync(r, n, total) ==
    /\ syncing' = TRUE
    /\ upTo' = [upTo EXCEPT ![r] = n]
    /\ flushed' = IF up THEN total ELSE flushed   \* a closed file takes nothing

(* A write lands after what the file holds; a fragment left at its end and *)
(* the new line would make one line that does not parse.                   *)
Written(r) == Append(lines, IF torn THEN Garbage ELSE r)

(* Append: the record goes into the buffer; then either a running sync is  *)
(* waited for, or this appender runs one.                                  *)
AppendRecord(r) ==
    /\ up /\ ~broken /\ pc[r] = "new"
    /\ lines' = Written(r)
    /\ torn' = FALSE
    /\ pending' = pending + 1
    /\ mine' = [mine EXCEPT ![r] = pending + 1]
    /\ \/ /\ syncing
          /\ pc' = [pc EXCEPT ![r] = "asleep"]
          /\ flushed' \in {flushed, Len(lines)}   \* a full buffer spills by itself
          /\ UNCHANGED <<syncing, upTo>>
       \/ /\ ~syncing
          /\ pc' = [pc EXCEPT ![r] = "syncing"]
          /\ StartSync(r, pending + 1, Len(lines) + 1)
    /\ UNCHANGED <<ondisk, base, synced, broken, up, replayed, restarts>>

(* Append is refused: the log is closed or broken, or the write itself     *)
(* fails, which breaks the log.  The record reaches no complete line.      *)
RefuseAppend(r) ==
    /\ pc[r] = "new"
    /\ \/ /\ (up /\ broken) \/ ~up
          /\ pc' = [pc EXCEPT ![r] = "failed"]
          /\ UNCHANGED broken
       \/ /\ up /\ ~broken
          /\ broken' = TRUE
          /\ pc' = Woken([pc EXCEPT ![r] = "failed"])
    /\ UNCHANGED <<lines, flushed, ondisk, torn, base, pending, synced, syncing,
                   up, mine, upTo, replayed, restarts>>

(* The loop of Append, for an appender that has been woken. *)
Recheck(r) ==
    /\ pc[r] = "awake"
    /\ \/ /\ synced >= mine[r]
          /\ pc' = [pc EXCEPT ![r] = "acked"]
          /\ UNCHANGED <<syncing, upTo, flushed>>
       \/ /\ synced < mine[r] /\ broken
          /\ pc' = [pc EXCEPT ![r] = "failed"]
          /\ UNCHANGED <<syncing, upTo, flushed>>
       \/ /\ synced < mine[r] /\ ~broken /\ syncing
          /\ pc' = [pc EXCEPT ![r] = "asleep"]
          /\ UNCHANGED <<syncing, upTo, flushed>>
       \/ /\ synced < mine[r] /\ ~broken /\ ~syncing
          /\ pc' = [pc EXCEPT ![r] = "syncing"]
          /\ StartSync(r, pending, Len(lines))
    /\ UNCHANGED <<lines, ondisk, torn, base, pending, synced, broken, up, mine,
                   replayed, restarts>>

CoveredMutant(r) == pending

(* What a finished sync says is on disk: what was pending when it began. *)
Covered(r) == upTo[r]

(* The sync ends well: what it covered is on disk, everyone is woken, and  *)
(* this appender's own record is acknowledged.                             *)
FinishSync(r) ==
    /\ pc[r] = "syncing" /\ up
    /\ ondisk' = IF base + upTo[r] > ondisk THEN base + upTo[r] ELSE ondisk
    /\ synced' = IF Covered(r) > synced THEN Covered(r) ELSE synced
    /\ syncing' = FALSE
    /\ pc' = Woken([pc EXCEPT ![r] = "acked"])
    /\ UNCHANGED <<lines, flushed, torn, base, pending, broken, up, mine, upTo,
                   replayed, restarts>>

(* The flush or the fsync fails (or the log was closed under it): nothing  *)
(* is acknowledged from here on, whatever reached the disk, and the system *)
(* may drop what it could not write.                                       *)
FailSync(r) ==
    /\ pc[r] = "syncing"
    /\ flushed' \in ondisk .. flushed
    /\ broken' = TRUE
    /\ syncing' = FALSE
    /\ pc' = Woken([pc EXCEPT ![r] = "failed"])
    /\ UNCHANGED <<lines, ondisk, torn, base, pending, synced, up, mine, upTo,
                   replayed, restarts>>

(* Close waits for a running sync, writes out the buffer and closes the    *)
(* file; the errors of its own flush and sync are ignored.                 *)
Close ==
    /\ up /\ ~syncing
    /\ up' = FALSE
    /\ \/ ~broken /\ flushed' = Len(lines) /\ ondisk' = Len(lines)
       \/ UNCHANGED <<flushed, ondisk>>
    /\ pc' = Woken(pc)
    /\ UNCHANGED <<lines, torn, base, pending, synced, syncing, broken, mine,
                   upTo, replayed, restarts>>

-----------------------------------------------------------------------------
Lost(p) == [r \in Record |-> IF p[r] \in Waiting THEN "lost" ELSE p[r]]

(* The process ends.  keep lines of the file are left, n of them surely on *)
(* disk; the line after them may have been cut in the middle, or a write   *)
(* that failed half way may have left a fragment.                          *)
Stop(keep, n) ==
    /\ lines' = SubSeq(lines, 1, keep)
    /\ flushed' = keep
    /\ ondisk' = n
    /\ base' = 0 /\ pending' = 0 /\ synced' = 0
    /\ torn' \in IF keep < Len(lines) \/ torn \/ broken THEN BOOLEAN ELSE {FALSE}
    /\ up' = FALSE /\ syncing' = FALSE
    /\ pc' = Lost(pc)
    /\ UNCHANGED <<broken, mine, upTo, replayed, restarts>>

(* The server process is killed: what the operating system has stays, on   *)
(* disk or not yet.                                                        *)
KillProcess == /\ up \/ \E r \in Record : pc[r] \in Waiting
               /\ Stop(flushed, ondisk)

(* The machine stops: any part of what was not synced is gone. *)
PowerCut == \E keep \in ondisk .. flushed : Stop(keep, keep)

ValidLengthMutant == IF lines = <<>> THEN 0 ELSE Len(lines) - 1

(* The good part of the file: the lines before the first that does not     *)
(* parse.                                                                  *)
ValidLength ==
    CHOOSE n \in 0 .. Len(lines) :
        /\ \A i \in 1 .. n : lines[i] # Garbage
        /\ n < Len(lines) => lines[n + 1] = Garbage

(* OpenFile truncates whatever follows the good part, and the server       *)
(* rebuilds its state from the rest.                                       *)
OpenFile ==
    /\ ~up /\ restarts < MaxRestarts
    /\ \A r \in Record : pc[r] \notin Waiting
    /\ lines' = SubSeq(lines, 1, ValidLength)
    /\ flushed' = ValidLength
    /\ ondisk' = IF ondisk < ValidLength THEN ondisk ELSE ValidLength
    /\ torn' = FALSE
    /\ base' = ValidLength
    /\ pending' = 0 /\ synced' = 0
    /\ syncing' = FALSE /\ broken' = FALSE /\ up' = TRUE
    /\ replayed' = {lines[i] : i \in 1 .. ValidLength}
    /\ restarts' = restarts + 1
    /\ UNCHANGED <<pc, mine, upTo>>

-----------------------------------------------------------------------------
Next ==
    \/ \E r \in Record : \/ AppendRecord(r) \/ RefuseAppend(r) \/ Recheck(r)
                         \/ FinishSync(r) \/ FailSync(r)
    \/ Close \/ KillProcess \/ PowerCut \/ OpenFile

Spec == Init /\ [][Next]_vars

(* Go runs every goroutine that can run, and an fsync returns. *)
Fairness == \A r \in Record : /\ WF_vars(Recheck(r))
                              /\ WF_vars(FinishSync(r) \/ FailSync(r))

FairSpec == Spec /\ Fairness

-----------------------------------------------------------------------------
(* Properties *)

(* An acknowledged record is on disk, in the part of the file a restart    *)
(* reads, through every kill, power cut and restart (FileLog.Append        *)
(* returns nil only after a sync that covers the record).                  *)
AckedSurvive ==
    \A r \in Record : pc[r] = "acked" =>
        \E i \in 1 .. ondisk : /\ lines[i] = r
                               /\ \A j \in 1 .. i : lines[j] # Garbage

(* Never two syncs at once: the flag and the appender running it agree, so *)
(* a later sync cannot report an earlier one's records.                    *)
OneSync ==
    /\ syncing <=> \E r \in Record : pc[r] = "syncing"
    /\ \A r, s \in Record : pc[r] = "syncing" /\ pc[s] = "syncing" => r = s

(* No appender sleeps for ever: every Append that is waiting returns, or   *)
(* its server dies (the condition variable's wake-ups are not lost).       *)
AppendReturns ==
    \A r \in Record : pc[r] \in Waiting ~> pc[r] \in {"acked", "failed", "lost"}

(* The file keeps the promise of a Log. *)
Promise == INSTANCE DurableLog WITH
    safe  <- SubSeq(lines, 1, ondisk),
    tail  <- SubSeq(lines, ondisk + 1, Len(lines)),
    acked <- {r \in Record : pc[r] = "acked"}

ImplementsDurableLog == Promise!Spec
=============================================================================
