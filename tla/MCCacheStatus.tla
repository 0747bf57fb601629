--------------------------- MODULE MCCacheStatus ---------------------------
(* Ages and dates on both sides of the one-second limit. *)
EXTENDS CacheStatus

MCAges == {-1, 0, 1, 3}
MCDates == {-2, 0, 7}
=============================================================================
