--------------------------- MODULE MCAddressBook ---------------------------
(* AddressBook for TLC.                                                     *)
EXTENDS AddressBook

CONSTANTS p1, p2, t1, t2

\* Keeping the default writes TRUE or FALSE, as asking for it does.
BookEdits == {None} \X {"yes", "no"}
AllEdits == (Texts \cup {None}) \X {"yes", "no", "keep"}

=============================================================================
