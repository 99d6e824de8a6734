----------------------------- MODULE MCPhoneOTP -----------------------------
(* PhoneOTP for TLC: requests, accounts and devices are interchangeable.    *)
EXTENDS PhoneOTP, TLC

CONSTANTS a1, a2, d1, d2, p1, p2, p3

Symmetry == Permutations({p1, p2}) \cup Permutations({a1, a2}) \cup Permutations({d1, d2})

=============================================================================
