--------------------------- MODULE MCScheduledSend ---------------------------
(* One key: a guarded schedule, a bulk item, two keyed sends, and a cancel.   *)
EXTENDS ScheduledSend

CONSTANTS s1, s2, d1, d2, x1
=============================================================================
