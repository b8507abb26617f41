----------------------------- MODULE DurableLog -----------------------------
(***************************************************************************)
(* What package store promises of a Log, whatever keeps the records: an    *)
(* appended record is acknowledged only once it survives any crash, and a  *)
(* crash can only drop records, newest first, that were never              *)
(* acknowledged.  FileLog (the fsync'd file) and PgLog (the table of a     *)
(* database) implement this.                                               *)
(***************************************************************************)
EXTENDS Naturals, Sequences, SequencesExt, Functions

CONSTANT Record          \* the records callers append, each at most once

VARIABLES safe,          \* the records that survive any crash, oldest first
          tail,          \* the records written after them that may be lost
          acked          \* the records whose Append has returned nil

vars == <<safe, tail, acked>>

TypeOK ==
    /\ safe \in Seq(Record)
    /\ tail \in Seq(Record)
    /\ acked \in SUBSET Record

Init ==
    /\ safe = <<>>
    /\ tail = <<>>
    /\ acked = {}

(* A caller's record joins the log: it is not promised to anybody yet. *)
Write(r) ==
    /\ r \notin ToSet(safe \o tail) \cup acked
    /\ tail' = Append(tail, r)
    /\ UNCHANGED <<safe, acked>>

(* Some of the oldest unsafe records become safe, and some records that    *)
(* are safe are acknowledged.                                              *)
Harden ==
    \E n \in 0 .. Len(tail) :
        /\ safe' = safe \o SubSeq(tail, 1, n)
        /\ tail' = SubSeq(tail, n + 1, Len(tail))
        /\ acked \subseteq acked'
        /\ acked' \subseteq acked \cup ToSet(safe')

(* A crash keeps every safe record and some of the others, oldest first;   *)
(* what was on disk anyway is found to be safe.                            *)
Crash ==
    \E k \in 0 .. Len(tail) : \E h \in 0 .. k :
        /\ safe' = safe \o SubSeq(tail, 1, h)
        /\ tail' = SubSeq(tail, h + 1, k)
        /\ UNCHANGED acked

(* Records join the log for good at once, as one transaction does it.      *)
Commit ==
    /\ tail = <<>> /\ IsPrefix(safe, safe')
    /\ safe' # safe /\ IsInjective(safe')
    /\ ToSet(safe') \subseteq Record
    /\ UNCHANGED <<tail, acked>>

Next == Commit \/ (\E r \in Record : Write(r)) \/ Harden \/ Crash

Spec == Init /\ [][Next]_vars
=============================================================================
