----------------------------- MODULE MCBackend -----------------------------
(* Backend for TLC: one update of the name with a field of each role, and    *)
(* one of another field of each role that leaves the name out.               *)
EXTENDS Backend

CONSTANTS p1, p2, n1, n2, v1

Give(name, fields) ==
    [name |-> name, fields |-> [f \in P!Fields |-> IF f \in fields THEN v1 ELSE None]]

MCUpdates ==
    {Give(n2, {"gender", "is_available"}), Give(None, {"date_of_birth", "current_city"})}

=============================================================================
