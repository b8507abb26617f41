----------------------------- MODULE MCFileLog -----------------------------
(* FileLog with three appenders: one syncing, one sharing its sync and one *)
(* arriving after it; two restarts, so that a restart finds what an        *)
(* earlier restart left.                                                   *)
EXTENDS FileLog

=============================================================================
