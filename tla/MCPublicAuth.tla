---------------------------- MODULE MCPublicAuth ----------------------------
(* PublicAuth for TLC: two numbers, one written in two ways, one that begins  *)
(* with 91, one with a prefix too many, and one that is no mobile's.          *)
EXTENDS PublicAuth, TLC

Symmetry == Permutations(Devices) \cup Permutations(IPs)

MCSpellings ==
    {<<"98", "d8">>, <<" ", "+91", "98", "d8">>,
     <<"91", "d8">>, <<"+91", "+91", "98", "d8">>, <<"12", "d8">>}

MCCapacity == [scope \in Scopes |-> 1]

=============================================================================
