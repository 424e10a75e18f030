--------------------------- MODULE MCRateLimiter ---------------------------
(* A message costs 2 ticks, a burst is 2 messages, and a sweep, due every 3  *)
(* ticks, drops buckets idle for more than 4: as in the code, a bucket is    *)
(* full again before it may be dropped.  Twelve ticks are enough for a       *)
(* bucket to be created, drained, dropped and created again.                *)
EXTENDS RateLimiter

CONSTANTS k1, k2
MCKeys == {k1, k2}
=============================================================================
