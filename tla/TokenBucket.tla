---------------------------- MODULE TokenBucket ----------------------------
(***************************************************************************)
(* What a rate limit promises its callers: a level that refills by the     *)
(* same amount with every unit of time, up to a capacity, and pays for     *)
(* every request admitted.  Between any two moments it therefore admits no *)
(* more than the capacity and what was refilled in between.  A bucket kept *)
(* by clocks that disagree gives back up to Slack with an admission; with  *)
(* Slack = 0 it is exact.                                                  *)
(***************************************************************************)
EXTENDS Integers

CONSTANTS
    Full,   \* level of a full bucket
    Cost,   \* what a request takes
    Rate,   \* what a unit of time gives
    Slack   \* what an admission may give back

VARIABLES level, admitted

vars == <<level, admitted>>

Init == level = Full /\ admitted = 0

Refill ==
    /\ level' = IF level + Rate > Full THEN Full ELSE level + Rate
    /\ UNCHANGED admitted

Admit ==
    /\ level >= Cost
    /\ \E extra \in 0 .. Slack :
         level - Cost + extra <= Full /\ level' = level - Cost + extra
    /\ admitted' = admitted + 1

Next == Refill \/ Admit

Spec == Init /\ [][Next]_vars

=============================================================================
