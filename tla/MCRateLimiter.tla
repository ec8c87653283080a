--------------------------- MODULE MCRateLimiter ----------------------------
(* Two visitors, a rate of two per minute, a minute of two ticks.          *)
EXTENDS RateLimiter, TLC

VisitorSymmetry == Permutations(IPs)
=============================================================================
