---------------------------- MODULE PhoneNumbers ----------------------------
(***************************************************************************)
(* pkg/utils/phone.go.  A string is a sequence of pieces: a space, the     *)
(* prefixes the code knows ("+91", "91", "0") and stretches of digits that *)
(* begin with none of them.  As no piece begins with another, a prefix of  *)
(* the string is its first piece or is not there.                          *)
(***************************************************************************)
EXTENDS Integers, Sequences
Sets == INSTANCE FiniteSetsExt

Pieces == {" ", "+91", "91", "0", "98", "12", "d7", "d8"}

\* "98" and "12" are two digits a number may and may not begin with, "d7" and
\* "d8" seven and eight more.
PieceLength(piece) ==
    CASE piece \in {" ", "0"} -> 1
      [] piece \in {"91", "98", "12"} -> 2
      [] piece = "+91" -> 3
      [] piece = "d7" -> 7
      [] piece = "d8" -> 8

Length(s) ==
    LET upTo[i \in 0 .. Len(s)] == IF i = 0 THEN 0 ELSE upTo[i - 1] + PieceLength(s[i])
    IN  upTo[Len(s)]

TrimSpace(s) ==
    LET solid == {i \in DOMAIN s : s[i] # " "}
    IN  IF solid = {} THEN <<>> ELSE SubSeq(s, Sets!Min(solid), Sets!Max(solid))

TrimPrefix(s, piece) == IF s # <<>> /\ Head(s) = piece THEN Tail(s) ELSE s

NormalizeE164(p) ==
    LET bare  == TrimPrefix(TrimSpace(p), "+91")
        local == IF Length(bare) = 12 THEN TrimPrefix(bare, "91") ELSE bare
    IN  IF Length(local) = 11 THEN TrimPrefix(local, "0") ELSE local

\* indianMobileRegex: ten digits, the first of them 6 to 9.
IsMobile(s) ==
    /\ Length(s) = 10
    /\ \A i \in DOMAIN s : s[i] \notin {" ", "+91"}
    /\ Head(s) \in {"91", "98"}

ValidateIndianPhone(p) == IsMobile(NormalizeE164(p))

\* The number a service goes on with; it is called with what a validator let
\* pass, and has no answer to what is not a number.
RequireValidPhone(p) ==
    LET normalized == NormalizeE164(p)
    IN  IF ValidateIndianPhone(normalized) THEN normalized ELSE <<>>

=============================================================================
