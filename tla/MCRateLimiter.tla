--------------------------- MODULE MCRateLimiter ---------------------------
(* The rate limiter on two parameters, for TLC.                            *)
EXTENDS RateLimiter
=============================================================================
