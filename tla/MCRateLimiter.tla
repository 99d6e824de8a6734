--------------------------- MODULE MCRateLimiter ---------------------------
(* RateLimiter for TLC: MaxTime bounds time, and with it the admissions; the *)
(* parameters are small integers that do not divide each other.              *)
EXTENDS RateLimiter

=============================================================================
