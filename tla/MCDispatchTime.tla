--------------------------- MODULE MCDispatchTime ---------------------------
(***************************************************************************)
(* The default configuration for TLC, in tenths of a second: an order of   *)
(* two chunks, attempts that are answered at once or time out, and a       *)
(* Retry-After that leaves the small int64.                                *)
(***************************************************************************)
EXTENDS DispatchTime

MCRetryAfters  == {0, 1, 20, 4000}
MCAttemptTimes == {0, Timeout}
MCWriteTimes   == {0, WriteTimeout}
=============================================================================
