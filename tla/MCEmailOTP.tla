----------------------------- MODULE MCEmailOTP -----------------------------
(* EmailOTP for TLC: requests, addresses and roles are interchangeable.     *)
EXTENDS EmailOTP, TLC

CONSTANTS p1, p2, e1, e2, ph1, ph2, r1, r2

ProcSymmetry == Permutations({p1, p2})
RequestSymmetry == ProcSymmetry \cup Permutations({e1, e2}) \cup Permutations({ph1, ph2})

\* With MaxRate = MaxCodes no send counter ever refuses a send; all one decides is
\* whether its sender takes one more step that changes nothing but counters.
WithoutRates == <<code, attempts, older, marker, phoneRate, users, registered,
                  issued, issuedFor, wrong, req>>

=============================================================================
