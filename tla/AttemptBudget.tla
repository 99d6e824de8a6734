--------------------------- MODULE AttemptBudget ---------------------------
(***************************************************************************)
(* What a one-time code promises, whatever stores it: every code has Limit *)
(* answers.  A wrong answer spends one, an accepted answer redeems one,    *)
(* and once the budget of a code is gone the code is dead for good.        *)
(* PhoneOTP implements this with the attempts column of otp_requests, its  *)
(* CHECK constraint and the login transaction.                             *)
(***************************************************************************)
EXTENDS Naturals

CONSTANTS
    CodeIds,  \* the codes that may be issued
    Limit     \* answers a code takes before it is burned

VARIABLES
    spent,    \* spent[k]: wrong answers recorded against code k
    redeemed  \* redeemed[k]: logins granted for code k

vars == <<spent, redeemed>>

Exhausted(k) == spent[k] + redeemed[k] >= Limit

Init ==
    /\ spent = [k \in CodeIds |-> 0]
    /\ redeemed = [k \in CodeIds |-> 0]

Spend(k) ==
    /\ ~Exhausted(k)
    /\ spent' = [spent EXCEPT ![k] = @ + 1]
    /\ UNCHANGED redeemed

Redeem(k) ==
    /\ ~Exhausted(k)
    /\ redeemed' = [redeemed EXCEPT ![k] = @ + 1]
    /\ UNCHANGED spent

Next == \E k \in CodeIds : Spend(k) \/ Redeem(k)

Spec == Init /\ [][Next]_vars
=============================================================================
