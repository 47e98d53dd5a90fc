-------------------------- MODULE MCRequestLimiter --------------------------
(* Three clients that want more than the limits give, four lease objects.  *)
EXTENDS RequestLimiter
=============================================================================
