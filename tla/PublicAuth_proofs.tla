-------------------------- MODULE PublicAuth_proofs --------------------------
(* Proofs about PublicAuth, for any routes, devices, addresses, limits and    *)
(* spellings, and about the strings of PhoneNumbers, of any length.           *)
EXTENDS PublicAuth, FiniteSetTheorems, WellFoundedInduction, TLAPS

----------------------------------------------------------------------------
(* Induction over the naturals, from the library's fact that < is well-founded. *)

LessThan == {pair \in Nat \X Nat : pair[1] < pair[2]}

LEMMA LeastNumber ==
    ASSUME NEW T, T \subseteq Nat, T # {}
    PROVE  \E m \in T : \A n \in T : m <= n
<1>1. IsWellFoundedOn(LessThan, Nat)
  BY NatLessThanWellFounded DEF OpToRel, LessThan
<1>2. PICK m \in T : \A n \in T : <<n, m>> \notin LessThan
  BY <1>1, WFMin
<1>3. \A n \in T : ~(n < m)
  BY <1>2 DEF LessThan
<1>4. QED
  BY <1>3

LEMMA Counting ==
    ASSUME NEW T, 0 \in T, \A n \in Nat : n \in T => n + 1 \in T
    PROVE  Nat \subseteq T
<1> SUFFICES ASSUME Nat \ T # {}
             PROVE  FALSE
  OBVIOUS
<1>1. PICK m \in Nat \ T : \A n \in Nat \ T : m <= n
  BY LeastNumber
<1>2. m # 0 /\ m - 1 \in Nat /\ m - 1 \in T
  BY <1>1
<1>3. QED
  BY <1>1, <1>2

----------------------------------------------------------------------------
(* Lengths *)

\* The lengths of the beginnings of s.
UpTo(s, f) ==
    f = [i \in 0 .. Len(s) |-> IF i = 0 THEN 0 ELSE f[i - 1] + PieceLength(s[i])]

LEMMA PieceLengthType ==
    ASSUME NEW s \in Seq(Pieces), NEW i \in 1 .. Len(s)
    PROVE  PieceLength(s[i]) \in Nat
<1>1. s[i] \in Pieces
  OBVIOUS
<1>2. QED
  BY <1>1 DEF Pieces, PieceLength

LEMMA Measured ==
    ASSUME NEW s \in Seq(Pieces)
    PROVE  \E f \in [0 .. Len(s) -> Nat] : UpTo(s, f)
<1> DEFINE Part(n, f) ==
             \A i \in 0 .. n : f[i] = IF i = 0 THEN 0 ELSE f[i - 1] + PieceLength(s[i])
           T == {n \in Nat : n <= Len(s) => \E f \in [0 .. n -> Nat] : Part(n, f)}
<1>1. 0 \in T
  <2>1. PICK f : f = [i \in 0 .. 0 |-> 0]
    OBVIOUS
  <2>2. f \in [0 .. 0 -> Nat] /\ Part(0, f)
    BY <2>1
  <2>3. QED
    BY <2>2
<1>2. ASSUME NEW n \in Nat, n \in T
      PROVE  n + 1 \in T
  <2> HIDE DEF Part
  <2> SUFFICES ASSUME n + 1 <= Len(s)
               PROVE  \E g \in [0 .. n + 1 -> Nat] : Part(n + 1, g)
    OBVIOUS
  <2> USE DEF Part
  <2>1. PICK f \in [0 .. n -> Nat] : Part(n, f)
    BY <1>2
  <2>2. PICK g : g = [i \in 0 .. n + 1 |-> IF i = n + 1 THEN f[n] + PieceLength(s[n + 1])
                                                       ELSE f[i]]
    OBVIOUS
  <2>3. PieceLength(s[n + 1]) \in Nat
    BY PieceLengthType
  <2>4. g \in [0 .. n + 1 -> Nat]
    BY <2>2, <2>3
  <2>5. ASSUME NEW i \in 0 .. n + 1
        PROVE  g[i] = IF i = 0 THEN 0 ELSE g[i - 1] + PieceLength(s[i])
    <3>1. CASE i = n + 1
      BY <2>2, <3>1
    <3>2. CASE i # n + 1
      <4>1. i \in 0 .. n /\ (i # 0 => i - 1 \in 0 .. n)
        BY <3>2
      <4>2. g[i] = f[i] /\ (i # 0 => g[i - 1] = f[i - 1])
        BY <2>2, <3>2, <4>1
      <4>3. QED
        BY <2>1, <4>1, <4>2
    <3>3. QED
      BY <3>1, <3>2
  <2>6. QED
    BY <2>4, <2>5
<1> HIDE DEF T
<1>3. Nat \subseteq T
  BY <1>1, <1>2, Counting
<1>4. PICK f \in [0 .. Len(s) -> Nat] : Part(Len(s), f)
  BY <1>3 DEF T
<1>5. f = [i \in 0 .. Len(s) |-> IF i = 0 THEN 0 ELSE f[i - 1] + PieceLength(s[i])]
  BY <1>4
<1>6. QED
  BY <1>5 DEF UpTo

LEMMA UpToStep ==
    ASSUME NEW s \in Seq(Pieces), NEW f, UpTo(s, f)
    PROVE  /\ f[0] = 0
           /\ \A i \in 1 .. Len(s) : f[i] = f[i - 1] + PieceLength(s[i])
BY DEF UpTo

LEMMA UpToUnique ==
    ASSUME NEW s \in Seq(Pieces), NEW f, UpTo(s, f), NEW g, UpTo(s, g)
    PROVE  f = g
<1> DEFINE T == {n \in Nat : n <= Len(s) => f[n] = g[n]}
<1>0. /\ \A i \in 0 .. Len(s) : f[i] = IF i = 0 THEN 0 ELSE f[i - 1] + PieceLength(s[i])
      /\ \A i \in 0 .. Len(s) : g[i] = IF i = 0 THEN 0 ELSE g[i - 1] + PieceLength(s[i])
  BY DEF UpTo
<1>1. 0 \in T
  BY <1>0
<1>2. ASSUME NEW n \in Nat, n \in T
      PROVE  n + 1 \in T
  <2>1. n + 1 <= Len(s) => f[n] = g[n]
    BY <1>2
  <2>2. n + 1 <= Len(s) => f[n + 1] = f[n] + PieceLength(s[n + 1])
                           /\ g[n + 1] = g[n] + PieceLength(s[n + 1])
    BY <1>0
  <2>3. QED
    BY <2>1, <2>2
<1> HIDE DEF T
<1>3. Nat \subseteq T
  BY <1>1, <1>2, Counting
<1>4. \A n \in 0 .. Len(s) : f[n] = g[n]
  BY <1>3 DEF T
<1>5. f = [i \in 0 .. Len(s) |-> f[i]] /\ g = [i \in 0 .. Len(s) |-> g[i]]
  BY DEF UpTo
<1>6. QED
  BY <1>4, <1>5

\* The length of a string is what any such function says of all of it.
LEMMA LengthIs ==
    ASSUME NEW s \in Seq(Pieces), NEW f, UpTo(s, f)
    PROVE  Length(s) = f[Len(s)]
<1> DEFINE h == CHOOSE upTo :
             upTo = [i \in 0 .. Len(s) |-> IF i = 0 THEN 0 ELSE upTo[i - 1] + PieceLength(s[i])]
<1>1. UpTo(s, h)
  BY DEF UpTo
<1>2. Length(s) = h[Len(s)]
  BY DEF Length
<1> HIDE DEF h
<1>3. QED
  BY <1>1, <1>2, UpToUnique

LEMMA LengthAdds ==
    ASSUME NEW s \in Seq(Pieces), NEW t \in Seq(Pieces)
    PROVE  Length(s \o t) = Length(s) + Length(t)
<1>1. PICK f \in [0 .. Len(s) -> Nat] : UpTo(s, f)
  BY Measured
<1>2. PICK g \in [0 .. Len(t) -> Nat] : UpTo(t, g)
  BY Measured
<1>3. PICK u : u = s \o t
  OBVIOUS
<1>4. /\ u \in Seq(Pieces) /\ Len(u) = Len(s) + Len(t)
      /\ \A i \in 1 .. Len(s) : u[i] = s[i]
      /\ \A i \in 1 .. Len(t) : u[Len(s) + i] = t[i]
  BY <1>3
<1>5. PICK h : h = [i \in 0 .. Len(u) |-> IF i <= Len(s) THEN f[i] ELSE f[Len(s)] + g[i - Len(s)]]
  OBVIOUS
<1>6. /\ f[0] = 0 /\ g[0] = 0
      /\ \A i \in 1 .. Len(s) : f[i] = f[i - 1] + PieceLength(s[i])
      /\ \A i \in 1 .. Len(t) : g[i] = g[i - 1] + PieceLength(t[i])
  BY <1>1, <1>2, UpToStep
<1>7. ASSUME NEW i \in 0 .. Len(u)
      PROVE  h[i] = IF i = 0 THEN 0 ELSE h[i - 1] + PieceLength(u[i])
  <2>1. CASE i = 0
    BY <1>5, <1>6, <2>1
  <2>2. CASE i \in 1 .. Len(s)
    <3>1. h[i] = f[i] /\ h[i - 1] = f[i - 1] /\ u[i] = s[i]
      BY <1>4, <1>5, <2>2
    <3>2. QED
      BY <1>6, <2>2, <3>1
  <2>3. CASE i > Len(s)
    <3>1. PICK j \in 1 .. Len(t) : i = Len(s) + j
      <4>1. i - Len(s) \in 1 .. Len(t) /\ i = Len(s) + (i - Len(s))
        BY <1>4, <2>3
      <4>2. QED
        BY <4>1
    <3>2. h[i] = f[Len(s)] + g[j] /\ u[i] = t[j]
      BY <1>4, <1>5, <2>3, <3>1
    <3>3. h[i - 1] = f[Len(s)] + g[j - 1]
      <4>1. CASE j = 1
        <5>1. i - 1 = Len(s) /\ i - 1 \in 0 .. Len(u)
          BY <3>1, <4>1
        <5>2. h[i - 1] = f[Len(s)] /\ f[Len(s)] \in Nat /\ g[j - 1] = 0
          BY <1>5, <1>6, <4>1, <5>1
        <5>3. QED
          BY <5>2
      <4>2. CASE j # 1
        BY <1>5, <3>1, <4>2
      <4>3. QED
        BY <4>1, <4>2
    <3>4. PieceLength(t[j]) \in Nat
      BY PieceLengthType
    <3>5. g[j - 1] \in Nat /\ f[Len(s)] \in Nat
      <4>1. j - 1 \in 0 .. Len(t) /\ Len(s) \in 0 .. Len(s)
        OBVIOUS
      <4>2. QED
        BY <4>1
    <3>6. QED
      BY <1>6, <2>3, <3>2, <3>3, <3>4, <3>5
  <2>4. QED
    BY <2>1, <2>2, <2>3
<1>8. UpTo(u, h)
  BY <1>5, <1>7 DEF UpTo
<1>9. h[Len(u)] = f[Len(s)] + g[Len(t)]
  <2>1. CASE Len(t) = 0
    BY <1>4, <1>5, <1>6, <2>1
  <2>2. CASE Len(t) # 0
    BY <1>4, <1>5, <2>2
  <2>3. QED
    BY <2>1, <2>2
<1>10. QED
  BY <1>1, <1>2, <1>3, <1>4, <1>8, <1>9, LengthIs

LEMMA LengthType ==
    ASSUME NEW s \in Seq(Pieces)
    PROVE  Length(s) \in Nat
BY Measured, LengthIs

LEMMA LengthOfOne ==
    ASSUME NEW piece \in Pieces
    PROVE  Length(<<piece>>) = PieceLength(piece)
<1>1. PICK s : s = <<piece>>
  OBVIOUS
<1>3. s \in Seq(Pieces) /\ Len(s) = 1 /\ s[1] = piece
  BY <1>1
<1>2. PICK f \in [0 .. Len(s) -> Nat] : UpTo(s, f)
  BY <1>3, Measured
<1>4. f[0] = 0 /\ f[1] = f[0] + PieceLength(piece)
  BY <1>2, <1>3, UpToStep
<1>5. PieceLength(piece) \in Nat
  BY DEF Pieces, PieceLength
<1>6. QED
  BY <1>1, <1>2, <1>3, <1>4, <1>5, LengthIs

LEMMA LengthOfNone == Length(<<>>) = 0
<1>1. PICK s : s = <<>>
  OBVIOUS
<1>4. s \in Seq(Pieces)
  BY <1>1
<1>2. PICK f \in [0 .. Len(s) -> Nat] : UpTo(s, f)
  BY <1>4, Measured
<1>3. Len(s) = 0 /\ f[0] = 0
  BY <1>1, <1>2, <1>4, UpToStep
<1>5. QED
  BY <1>1, <1>2, <1>3, <1>4, LengthIs
LEMMA MinIs ==
    ASSUME NEW S, S \subseteq Nat, NEW m \in S, \A n \in S : m <= n
    PROVE  Sets!Min(S) = m
<1>1. PICK c : c = Sets!Min(S)
  OBVIOUS
<1>2. c \in S /\ \A n \in S : c <= n
  BY <1>1 DEF Sets!Min
<1>3. c <= m /\ m <= c /\ c \in Nat /\ m \in Nat
  BY <1>2
<1>4. QED
  BY <1>1, <1>3

LEMMA MaxIs ==
    ASSUME NEW S, S \subseteq Nat, NEW m \in S, \A n \in S : n <= m
    PROVE  Sets!Max(S) = m
<1>1. PICK c : c = Sets!Max(S)
  OBVIOUS
<1>2. c \in S /\ \A n \in S : c >= n
  <2>1. \A n \in S : m >= n
    OBVIOUS
  <2>2. QED
    BY <1>1, <2>1 DEF Sets!Max
<1>3. c <= m /\ m <= c /\ c \in Nat /\ m \in Nat
  BY <1>2
<1>4. QED
  BY <1>1, <1>3

LEMMA Indices ==
    ASSUME NEW s \in Seq(Pieces)
    PROVE  /\ Len(s) \in Nat /\ \A i : i \in DOMAIN s <=> i \in 1 .. Len(s)
           /\ \A i \in DOMAIN s : i \in Nat /\ 1 <= i /\ i <= Len(s)
<1>1. Len(s) \in Nat
  OBVIOUS
<1>2. DOMAIN s = 1 .. Len(s)
  OBVIOUS
<1>3. QED
  BY <1>1, <1>2

\* What stands between spaces is what TrimSpace leaves.
LEMMA TrimSpaceCuts ==
    ASSUME NEW s \in Seq(Pieces), NEW first \in DOMAIN s, NEW last \in DOMAIN s,
           s[first] # " ", s[last] # " ",
           \A i \in DOMAIN s : s[i] # " " => first <= i /\ i <= last
    PROVE  TrimSpace(s) = SubSeq(s, first, last)
<1>1. PICK solid : solid = {i \in DOMAIN s : s[i] # " "}
  OBVIOUS
<1>2. /\ first \in solid /\ last \in solid
      /\ \A i \in solid : first <= i /\ i <= last
  BY <1>1
<1>3. solid \subseteq Nat
  <2>1. \A i \in DOMAIN s : i \in Nat
    BY Indices
  <2>2. QED
    BY <1>1, <2>1
<1>4. Sets!Min(solid) = first
  BY <1>2, <1>3, MinIs
<1>5. Sets!Max(solid) = last
  BY <1>2, <1>3, MaxIs
<1>6. QED
  BY <1>1, <1>2, <1>4, <1>5 DEF TrimSpace

LEMMA TrimSpaceType ==
    ASSUME NEW s \in Seq(Pieces)
    PROVE  TrimSpace(s) \in Seq(Pieces)
<1>1. PICK solid : solid = {i \in DOMAIN s : s[i] # " "}
  OBVIOUS
<1>2. CASE solid = {}
  <2>1. TrimSpace(s) = <<>>
    BY <1>1, <1>2 DEF TrimSpace
  <2>2. QED
    BY <2>1
<1>3. CASE solid # {}
  <2>0. /\ Len(s) \in Nat
        /\ \A i \in DOMAIN s : i \in Nat /\ i \in 1 .. Len(s)
    BY Indices
  <2>1. solid \subseteq Nat /\ solid \subseteq 1 .. Len(s)
    BY <1>1, <2>0
  <2>2. PICK first \in solid : \A i \in solid : first <= i
    BY <1>3, <2>1, LeastNumber
  <2>3. Sets!Min(solid) \in solid
    BY <2>1, <2>2, MinIs
  <2>4. PICK fromEnd : fromEnd = {Len(s) - i : i \in solid}
    OBVIOUS
  <2>5. fromEnd \subseteq Nat /\ fromEnd # {}
    BY <1>3, <2>1, <2>4
  <2>6. PICK least \in fromEnd : \A n \in fromEnd : least <= n
    BY <2>5, LeastNumber
  <2>7. PICK last \in solid : least = Len(s) - last
    BY <2>4
  <2>8. ASSUME NEW i \in solid
        PROVE  i <= last
    <3>1. Len(s) - last <= Len(s) - i
      BY <2>4, <2>6, <2>7
    <3>2. QED
      BY <2>0, <2>1, <3>1
  <2>9. Sets!Max(solid) \in solid
    BY <2>1, <2>8, MaxIs
  <2>10. TrimSpace(s) = SubSeq(s, Sets!Min(solid), Sets!Max(solid))
    BY <1>1, <1>3 DEF TrimSpace
  <2>11. PICK m \in 1 .. Len(s) : m = Sets!Min(solid)
    BY <2>1, <2>3
  <2>12. PICK n \in 1 .. Len(s) : n = Sets!Max(solid)
    BY <2>1, <2>9
  <2>13. SubSeq(s, m, n) \in Seq(Pieces)
    OBVIOUS
  <2>14. QED
    BY <2>10, <2>11, <2>12, <2>13
<1>4. QED
  BY <1>2, <1>3

LEMMA TrimPrefixType ==
    ASSUME NEW s \in Seq(Pieces), NEW piece
    PROVE  TrimPrefix(s, piece) \in Seq(Pieces)
BY DEF TrimPrefix

LEMMA NormalizeType ==
    ASSUME NEW s \in Seq(Pieces)
    PROVE  NormalizeE164(s) \in Seq(Pieces)
<1>1. PICK bare \in Seq(Pieces) : bare = TrimPrefix(TrimSpace(s), "+91")
  BY TrimSpaceType, TrimPrefixType
<1>2. PICK local \in Seq(Pieces) : local = IF Length(bare) = 12 THEN TrimPrefix(bare, "91") ELSE bare
  BY TrimPrefixType
<1>3. NormalizeE164(s) = IF Length(local) = 11 THEN TrimPrefix(local, "0") ELSE local
  BY <1>1, <1>2 DEF NormalizeE164
<1>4. QED
  BY <1>3, TrimPrefixType

----------------------------------------------------------------------------
(* Numbers *)

LEMMA MobileShape ==
    ASSUME NEW m \in Seq(Pieces), IsMobile(m)
    PROVE  /\ m # <<>> /\ Len(m) \in Nat \ {0} /\ Length(m) = 10
           /\ m[1] \in {"91", "98"} /\ Head(m) = m[1] /\ m[1] # " " /\ m[Len(m)] # " "
<1>1. Length(m) = 10 /\ Head(m) \in {"91", "98"}
  BY DEF IsMobile
<1>2. m # <<>>
  BY <1>1, LengthOfNone
<1>3. Len(m) \in Nat \ {0} /\ Head(m) = m[1] /\ Len(m) \in DOMAIN m
  BY <1>2
<1>4. m[Len(m)] # " "
  BY <1>3 DEF IsMobile
<1>5. QED
  BY <1>1, <1>2, <1>3, <1>4

LEMMA OnePieceMore ==
    ASSUME NEW m \in Seq(Pieces), NEW piece \in Pieces, NEW w, w = <<piece>> \o m
    PROVE  /\ w \in Seq(Pieces) /\ w # <<>> /\ Head(w) = piece /\ Tail(w) = m
           /\ Length(w) = PieceLength(piece) + Length(m)
<1>1. PICK p : p = <<piece>>
  OBVIOUS
<1>2. p \in Seq(Pieces) /\ Len(p) = 1 /\ p[1] = piece
  BY <1>1
<1>3. Length(w) = Length(p) + Length(m)
  BY <1>1, <1>2, LengthAdds
<1>4. Length(p) = PieceLength(piece)
  BY <1>1, LengthOfOne
<1>5. /\ w \in Seq(Pieces) /\ Len(w) = 1 + Len(m) /\ w[1] = piece
      /\ \A i \in 1 .. Len(m) : w[i + 1] = m[i]
  BY <1>1, <1>2
<1>6. Tail(w) = m
  <2>1. PICK t : t = Tail(w)
    OBVIOUS
  <2>2. t \in Seq(Pieces) /\ Len(t) = Len(m) /\ \A i \in 1 .. Len(m) : t[i] = w[i + 1]
    BY <1>5, <2>1
  <2>3. QED
    BY <1>5, <2>1, <2>2
<1>7. w # <<>> /\ Head(w) = piece
  BY <1>5
<1>8. QED
  BY <1>3, <1>4, <1>5, <1>6, <1>7

\* The ways of writing a number: bare, or after the country's code, the trunk's
\* prefix or both.
WaysToWrite(m) ==
    {m, <<"+91">> \o m, <<"91">> \o m, <<"0">> \o m, <<"+91">> \o (<<"0">> \o m)}

\* What is written in front of a mobile number is taken off it, and nothing else,
\* though the number itself may begin with one of the prefixes.
LEMMA PrefixTakenOff ==
    ASSUME NEW m \in Seq(Pieces), IsMobile(m), NEW word \in WaysToWrite(m),
           NEW s, TrimSpace(s) = word
    PROVE  NormalizeE164(s) = m
<1>1. m # <<>> /\ Length(m) = 10 /\ Head(m) \in {"91", "98"}
  BY MobileShape
<1>2. PICK bare : bare = TrimPrefix(word, "+91")
  OBVIOUS
<1>3. PICK local : local = IF Length(bare) = 12 THEN TrimPrefix(bare, "91") ELSE bare
  OBVIOUS
<1>4. NormalizeE164(s) = IF Length(local) = 11 THEN TrimPrefix(local, "0") ELSE local
  BY <1>2, <1>3 DEF NormalizeE164
<1>5. \A w : TrimPrefix(w, "0") = IF w # <<>> /\ Head(w) = "0" THEN Tail(w) ELSE w
  BY DEF TrimPrefix
<1>6. {"+91", "91", "0"} \subseteq Pieces /\ PieceLength("0") = 1 /\ PieceLength("91") = 2
  BY DEF Pieces, PieceLength
<1>7. CASE bare = m
  <2>1. local = m
    BY <1>1, <1>3, <1>7
  <2>2. QED
    BY <1>1, <1>4, <2>1
<1>8. CASE bare = <<"0">> \o m
  <2>1. Length(bare) = 1 + 10 /\ bare # <<>> /\ Head(bare) = "0" /\ Tail(bare) = m
    BY <1>1, <1>6, <1>8, OnePieceMore
  <2>2. local = bare
    BY <1>3, <2>1
  <2>3. Length(local) = 11
    BY <2>1, <2>2
  <2>4. QED
    BY <1>4, <1>5, <2>1, <2>2, <2>3
<1>9. CASE word = m
  <2>1. bare = m
    BY <1>1, <1>2, <1>9 DEF TrimPrefix
  <2>2. QED
    BY <1>7, <2>1
<1>10. CASE word = <<"+91">> \o m
  <2>1. word # <<>> /\ Head(word) = "+91" /\ Tail(word) = m
    BY <1>6, <1>10, OnePieceMore
  <2>2. bare = m
    BY <1>2, <2>1 DEF TrimPrefix
  <2>3. QED
    BY <1>7, <2>2
<1>11. CASE word = <<"91">> \o m
  <2>1. word # <<>> /\ Head(word) = "91" /\ Tail(word) = m /\ Length(word) = 2 + 10
    BY <1>1, <1>6, <1>11, OnePieceMore
  <2>2. bare = word
    BY <1>2, <2>1 DEF TrimPrefix
  <2>3. local = m
    BY <1>3, <2>1, <2>2 DEF TrimPrefix
  <2>4. QED
    BY <1>1, <1>4, <2>3
<1>12. CASE word = <<"0">> \o m
  <2>1. word # <<>> /\ Head(word) = "0"
    BY <1>6, <1>12, OnePieceMore
  <2>2. bare = word
    BY <1>2, <2>1 DEF TrimPrefix
  <2>3. QED
    BY <1>8, <1>12, <2>2
<1>13. CASE word = <<"+91">> \o (<<"0">> \o m)
  <2>1. PICK rest : rest = <<"0">> \o m
    OBVIOUS
  <2>2. rest \in Seq(Pieces)
    BY <1>6, <2>1, OnePieceMore
  <2>3. word # <<>> /\ Head(word) = "+91" /\ Tail(word) = rest
    BY <1>6, <1>13, <2>1, <2>2, OnePieceMore
  <2>4. bare = rest
    BY <1>2, <2>3 DEF TrimPrefix
  <2>5. QED
    BY <1>8, <2>1, <2>4
<1>14. QED
  BY <1>9, <1>10, <1>11, <1>12, <1>13 DEF WaysToWrite

\* A bare number is read as it is: normalizing it once more changes nothing.
LEMMA MobileFixed ==
    ASSUME NEW m \in Seq(Pieces), IsMobile(m)
    PROVE  NormalizeE164(m) = m
<1>1. Len(m) \in Nat \ {0} /\ m[1] # " " /\ m[Len(m)] # " "
  BY MobileShape
<1>2. TrimSpace(m) = SubSeq(m, 1, Len(m))
  <2>1. 1 \in DOMAIN m /\ Len(m) \in DOMAIN m
    <3>1. PICK n \in Nat \ {0} : n = Len(m)
      BY <1>1
    <3>2. 1 \in 1 .. n /\ n \in 1 .. n
      OBVIOUS
    <3>3. QED
      BY <3>1, <3>2, Indices
  <2>2. \A i \in DOMAIN m : 1 <= i /\ i <= Len(m)
    BY Indices
  <2>3. QED
    BY <1>1, <2>1, <2>2, TrimSpaceCuts
<1>3. SubSeq(m, 1, Len(m)) = m
  OBVIOUS
<1>4. QED
  BY <1>2, <1>3, PrefixTakenOff DEF WaysToWrite

\* Nor do spaces around it matter.
LEMMA UsualForms ==
    ASSUME NEW m \in Seq(Pieces), IsMobile(m), NEW s \in Seq(Pieces),
           NEW first \in DOMAIN s, NEW last \in DOMAIN s,
           s[first] # " ", s[last] # " ",
           \A i \in DOMAIN s : s[i] # " " => first <= i /\ i <= last,
           SubSeq(s, first, last) \in WaysToWrite(m)
    PROVE  /\ NormalizeE164(s) = m /\ ValidateIndianPhone(s)
           /\ RequireValidPhone(NormalizeE164(s)) = m
<1>1. TrimSpace(s) = SubSeq(s, first, last)
  BY TrimSpaceCuts
<1>2. NormalizeE164(s) = m
  BY <1>1, PrefixTakenOff
<1>3. NormalizeE164(m) = m
  BY MobileFixed
<1>4. QED
  BY <1>2, <1>3 DEF ValidateIndianPhone, RequireValidPhone

\* Of any string the validator accepts, one normalization makes a bare number, and the
\* next one, the service's, nothing else: limits, validator and service read it alike.
THEOREM ReadOnce ==
    ASSUME NEW s \in Seq(Pieces), ValidateIndianPhone(s)
    PROVE  /\ IsMobile(NormalizeE164(s))
           /\ RequireValidPhone(NormalizeE164(s)) = NormalizeE164(s)
<1>1. PICK m \in Seq(Pieces) : m = NormalizeE164(s)
  BY NormalizeType
<1>2. IsMobile(m)
  BY <1>1 DEF ValidateIndianPhone
<1>3. NormalizeE164(m) = m
  BY <1>2, MobileFixed
<1>4. RequireValidPhone(m) = m
  BY <1>2, <1>3 DEF RequireValidPhone, ValidateIndianPhone
<1>5. QED
  BY <1>1, <1>2, <1>4
\* The numbers of NumbersReadAlike are mobile numbers.
LEMMA TwoPieces ==
    ASSUME NEW m \in {<<"98", "d8">>, <<"91", "d8">>}
    PROVE  m \in Seq(Pieces) /\ IsMobile(m)
<1>1. PICK head \in {"98", "91"} : m = <<head, "d8">>
  OBVIOUS
<1>2. head \in Pieces /\ "d8" \in Pieces /\ PieceLength(head) = 2 /\ PieceLength("d8") = 8
  BY <1>1 DEF Pieces, PieceLength
<1>3. PICK rest : rest = <<"d8">>
  OBVIOUS
<1>4. rest \in Seq(Pieces)
  BY <1>2, <1>3
<1>5. m = <<head>> \o rest
  BY <1>1, <1>3
<1>6. m \in Seq(Pieces) /\ Length(m) = 2 + Length(rest) /\ Head(m) = head
  BY <1>2, <1>4, <1>5, OnePieceMore
<1>7. Length(rest) = 8
  BY <1>2, <1>3, LengthOfOne
<1>8. \A i \in DOMAIN m : m[i] \notin {" ", "+91"}
  <2>1. Len(m) = 2 /\ m[1] = head /\ m[2] = "d8"
    BY <1>1
  <2>2. \A i \in DOMAIN m : i = 1 \/ i = 2
    BY <1>6, <2>1, Indices
  <2>3. QED
    BY <2>1, <2>2
<1>9. Length(m) = 10
  BY <1>6, <1>7
<1>10. QED
  BY <1>6, <1>8, <1>9 DEF IsMobile

LEMMA Single ==
    ASSUME NEW x \in Pieces
    PROVE  <<x>> \in Seq(Pieces) /\ Len(<<x>>) = 1 /\ <<x>>[1] = x
OBVIOUS

LEMMA NotEmpty ==
    ASSUME NEW w \in Seq(Pieces), w # <<>>
    PROVE  /\ Len(w) \in Nat \ {0} /\ 1 \in DOMAIN w /\ Len(w) \in DOMAIN w
           /\ SubSeq(w, 1, Len(w)) = w
<1>1. Len(w) \in Nat \ {0}
  OBVIOUS
<1>2. PICK n \in Nat \ {0} : n = Len(w)
  BY <1>1
<1>3. DOMAIN w = 1 .. n
  BY <1>2
<1>4. 1 \in 1 .. n /\ n \in 1 .. n
  OBVIOUS
<1>5. SubSeq(w, 1, n) = w
  BY <1>2
<1>6. QED
  BY <1>2, <1>3, <1>4, <1>5

LEMMA Joined ==
    ASSUME NEW p \in Seq(Pieces), NEW t \in Seq(Pieces)
    PROVE  /\ p \o t \in Seq(Pieces) /\ Len(p \o t) = Len(p) + Len(t)
           /\ \A i \in 1 .. Len(p) : (p \o t)[i] = p[i]
           /\ \A i \in 1 .. Len(t) : (p \o t)[Len(p) + i] = t[i]
OBVIOUS

LEMMA Pair ==
    ASSUME NEW x \in Pieces, NEW y \in Pieces
    PROVE  <<x>> \o <<y>> = <<x, y>>
<1>1. PICK p : p = <<x>>
  OBVIOUS
<1>2. PICK q : q = <<y>>
  OBVIOUS
<1>3. PICK both : both = <<x, y>>
  OBVIOUS
<1>4. /\ p \in Seq(Pieces) /\ Len(p) = 1 /\ p[1] = x
      /\ q \in Seq(Pieces) /\ Len(q) = 1 /\ q[1] = y
  BY <1>1, <1>2, Single
<1>5. both \in Seq(Pieces) /\ Len(both) = 2 /\ both[1] = x /\ both[2] = y
  BY <1>3
<1>6. PICK s : s = p \o q
  OBVIOUS
<1>7. s \in Seq(Pieces) /\ Len(s) = 2 /\ s[1] = x /\ s[2] = y
  <2>1. /\ s \in Seq(Pieces) /\ Len(s) = Len(p) + Len(q)
        /\ \A i \in 1 .. Len(p) : s[i] = p[i]
        /\ \A i \in 1 .. Len(q) : s[Len(p) + i] = q[i]
    BY <1>4, <1>6, Joined
  <2>2. s[1] = p[1] /\ s[1 + 1] = q[1]
    BY <1>4, <2>1
  <2>3. QED
    BY <1>4, <2>1, <2>2
<1>8. s = both
  BY <1>5, <1>7
<1>9. QED
  BY <1>1, <1>2, <1>3, <1>6, <1>8

\* A string behind a single piece.
LEMMA Behind ==
    ASSUME NEW p \in Seq(Pieces), Len(p) = 1, NEW t \in Seq(Pieces), t # <<>>
    PROVE  /\ p \o t \in Seq(Pieces) /\ p \o t # <<>> /\ Len(p \o t) = 1 + Len(t)
           /\ (p \o t)[1] = p[1] /\ (p \o t)[2] = t[1] /\ (p \o t)[1 + Len(t)] = t[Len(t)]
           /\ 2 \in DOMAIN (p \o t) /\ 1 + Len(t) \in DOMAIN (p \o t)
           /\ \A i \in DOMAIN (p \o t) : i = 1 \/ (2 <= i /\ i <= 1 + Len(t))
           /\ SubSeq(p \o t, 2, 1 + Len(t)) = t
<1>1. PICK n \in Nat \ {0} : n = Len(t)
  OBVIOUS
<1>2. PICK s : s = p \o t
  OBVIOUS
<1>3. /\ s \in Seq(Pieces) /\ Len(s) = 1 + n /\ s[1] = p[1]
      /\ \A i \in 1 .. n : s[1 + i] = t[i]
  <2>1. /\ s \in Seq(Pieces) /\ Len(s) = Len(p) + n
        /\ \A i \in 1 .. Len(p) : s[i] = p[i]
        /\ \A i \in 1 .. n : s[Len(p) + i] = t[i]
    BY <1>1, <1>2, Joined
  <2>2. 1 \in 1 .. Len(p)
    OBVIOUS
  <2>3. QED
    BY <2>1, <2>2
<1>4. DOMAIN s = 1 .. 1 + n
  BY <1>3
<1>5. 1 \in 1 .. n /\ n \in 1 .. n /\ 2 \in 1 .. 1 + n /\ 1 + n \in 1 .. 1 + n
  OBVIOUS
<1>6. s[2] = t[1] /\ s[1 + n] = t[n]
  <2>1. s[1 + 1] = t[1] /\ s[1 + n] = t[n]
    BY <1>3, <1>5
  <2>2. QED
    BY <2>1
<1>7. \A i \in 1 .. 1 + n : i = 1 \/ (2 <= i /\ i <= 1 + n)
  OBVIOUS
<1>8. SubSeq(s, 2, 1 + n) = t
  <2>1. PICK u : u = SubSeq(s, 2, 1 + n)
    OBVIOUS
  <2>2. u \in Seq(Pieces) /\ Len(u) = n /\ \A i \in 1 .. n : u[i] = s[1 + i]
    BY <1>3, <2>1
  <2>3. \A i \in 1 .. n : u[i] = t[i]
    BY <1>3, <2>2
  <2>4. QED
    BY <1>1, <2>1, <2>2, <2>3
<1>9. s # <<>>
  BY <1>3
<1>10. QED
  BY <1>1, <1>2, <1>3, <1>4, <1>5, <1>6, <1>7, <1>8, <1>9

LEMMA Associative ==
    ASSUME NEW p \in Seq(Pieces), NEW q \in Seq(Pieces), NEW t \in Seq(Pieces)
    PROVE  (p \o q) \o t = p \o (q \o t)
OBVIOUS

\* Nothing of it is trimmed.
Trimmed(w) == w # <<>> /\ w[1] # " " /\ w[Len(w)] # " "

LEMMA TrimmedFixed ==
    ASSUME NEW w \in Seq(Pieces), Trimmed(w)
    PROVE  TrimSpace(w) = w
<1>1. w # <<>> /\ w[1] # " " /\ w[Len(w)] # " "
  BY DEF Trimmed
<1>2. 1 \in DOMAIN w /\ Len(w) \in DOMAIN w /\ SubSeq(w, 1, Len(w)) = w
  BY <1>1, NotEmpty
<1>3. \A i \in DOMAIN w : 1 <= i /\ i <= Len(w)
  BY Indices
<1>4. QED
  BY <1>1, <1>2, <1>3, TrimSpaceCuts

Blank == <<" ">>

LEMMA SpaceInFront ==
    ASSUME NEW w \in Seq(Pieces), Trimmed(w)
    PROVE  Blank \o w \in Seq(Pieces) /\ TrimSpace(Blank \o w) = w
<1>1. w # <<>> /\ w[1] # " " /\ w[Len(w)] # " "
  BY DEF Trimmed
<1>2. Blank \in Seq(Pieces) /\ Len(Blank) = 1 /\ Blank[1] = " "
  BY Single DEF Blank, Pieces
<1>3. PICK s : s = Blank \o w
  OBVIOUS
<1>4. /\ s \in Seq(Pieces) /\ s[1] = Blank[1]
      /\ s[2] = w[1] /\ s[1 + Len(w)] = w[Len(w)]
      /\ 2 \in DOMAIN s /\ 1 + Len(w) \in DOMAIN s
      /\ \A i \in DOMAIN s : i = 1 \/ (2 <= i /\ i <= 1 + Len(w))
      /\ SubSeq(s, 2, 1 + Len(w)) = w
  BY <1>1, <1>2, <1>3, Behind
<1>5. TrimSpace(s) = SubSeq(s, 2, 1 + Len(w))
  BY <1>1, <1>2, <1>4, TrimSpaceCuts
<1>6. QED
  BY <1>3, <1>4, <1>5

LEMMA OnePrefix ==
    ASSUME NEW m \in Seq(Pieces), IsMobile(m), NEW piece \in {"+91", "91", "0"}
    PROVE  /\ <<piece>> \o m \in Seq(Pieces) /\ Trimmed(<<piece>> \o m)
           /\ <<piece>> \o m \in WaysToWrite(m)
<1>1. m # <<>> /\ m[Len(m)] # " "
  BY MobileShape
<1>2. piece \in Pieces /\ piece # " "
  BY DEF Pieces
<1>3. PICK p : p = <<piece>>
  OBVIOUS
<1>4. p \in Seq(Pieces) /\ Len(p) = 1 /\ p[1] = piece
  BY <1>2, <1>3, Single
<1>5. PICK w : w = p \o m
  OBVIOUS
<1>6. /\ w \in Seq(Pieces) /\ w # <<>> /\ w[1] = p[1]
      /\ Len(w) = 1 + Len(m) /\ w[1 + Len(m)] = m[Len(m)]
  BY <1>1, <1>4, <1>5, Behind
<1>7. Trimmed(w)
  BY <1>1, <1>2, <1>4, <1>6 DEF Trimmed
<1>8. w \in WaysToWrite(m)
  BY <1>3, <1>5 DEF WaysToWrite
<1>9. QED
  BY <1>3, <1>5, <1>6, <1>7, <1>8

\* A prefix is taken off any mobile number.
LEMMA PrefixesRead ==
    ASSUME NEW m \in Seq(Pieces), IsMobile(m),
           NEW prefix \in {<<>>, <<"+91">>, <<"91">>, <<"0">>, <<" ", "+91">>}
    PROVE  NormalizeE164(prefix \o m) = m
<1>1. CASE prefix = <<>>
  <2>1. prefix \o m = m
    BY <1>1
  <2>2. QED
    BY <2>1, MobileFixed
<1>2. ASSUME NEW piece \in {"+91", "91", "0"}, prefix = <<piece>>
      PROVE  NormalizeE164(prefix \o m) = m
  <2>1. PICK s : s = <<piece>> \o m
    OBVIOUS
  <2>2. TrimSpace(s) = s /\ s \in WaysToWrite(m)
    BY <2>1, OnePrefix, TrimmedFixed
  <2>3. QED
    BY <1>2, <2>1, <2>2, PrefixTakenOff
<1>3. CASE prefix = <<" ", "+91">>
  <2>1. PICK w : w = <<"+91">> \o m
    OBVIOUS
  <2>2. w \in Seq(Pieces) /\ Trimmed(w) /\ w \in WaysToWrite(m)
    BY <2>1, OnePrefix
  <2>3. NormalizeE164(Blank \o w) = m
    BY <2>2, SpaceInFront, PrefixTakenOff
  <2>4. Blank \o w = prefix \o m
    <3>1. PICK p : p = <<"+91">>
      OBVIOUS
    <3>2. p \in Seq(Pieces) /\ Blank \in Seq(Pieces)
      BY <3>1, Single DEF Pieces, Blank
    <3>3. (Blank \o p) \o m = Blank \o (p \o m)
      BY <3>2, Associative
    <3>4. Blank \o p = <<" ", "+91">>
      <4>1. <<" ">> \o <<"+91">> = <<" ", "+91">>
        BY Pair DEF Pieces
      <4>2. QED
        BY <3>1, <4>1 DEF Blank
    <3>5. QED
      BY <1>3, <2>1, <3>1, <3>3, <3>4
  <2>5. QED
    BY <2>3, <2>4
<1>4. QED
  BY <1>1, <1>2, <1>3

----------------------------------------------------------------------------
(* Types *)

CallSet == [route: Routes, session: 0 .. MaxTokens, device: Devices \cup {NoDevice},
            phone: Seq(Pieces), role: RoleNames \cup {""}]

LEMMA Bounds ==
    /\ MaxTokens \in Nat /\ MaxRequests \in Nat /\ MaxRefills \in Nat /\ MaxFaults \in Nat
    /\ \A scope \in Scopes : Capacity[scope] \in Nat \ {0}
<1>1. {MaxTokens, MaxRequests, MaxRefills, MaxFaults} \subseteq Nat
  BY PublicAuthAssumption
<1>2. Capacity \in [Scopes -> Nat \ {0}]
  BY PublicAuthAssumption
<1>3. QED
  BY <1>1, <1>2

LEMMA Typed ==
    ASSUME TypeOK
    PROVE  /\ tokens \in Seq(Devices) /\ Len(tokens) <= MaxTokens
           /\ \A bucket \in DOMAIN spent : spent[bucket] \in 0 .. Capacity[bucket[1]]
           /\ requests \in Nat /\ refills \in Nat /\ faults \in Nat
           /\ served \in Seq(CallSet) /\ Len(served) <= requests
<1>1. requests \in 0 .. MaxRequests /\ refills \in 0 .. MaxRefills /\ faults \in 0 .. MaxFaults
  BY DEF TypeOK
<1>2. requests \in Nat /\ refills \in Nat /\ faults \in Nat
  BY <1>1, Bounds
<1>3. QED
  BY <1>2 DEF TypeOK, CallSet

\* Guest tokens there are.
LEMMA SessionBound ==
    ASSUME TypeOK, NEW session \in DOMAIN tokens
    PROVE  session \in 1 .. MaxTokens
<1>1. Len(tokens) <= MaxTokens /\ Len(tokens) \in Nat /\ DOMAIN tokens = 1 .. Len(tokens)
  BY Typed
<1>2. QED
  BY <1>1, Bounds

BucketsNamed == \A bucket \in DOMAIN spent : bucket[1] \in Scopes

\* The routes have two limits at most.
LEMMA ShortLists ==
    /\ IsFiniteSet({}) /\ IsFiniteSet(1 .. 1) /\ IsFiniteSet(1 .. 2)
    /\ 1 .. 1 = {1} /\ 1 .. 2 = {1, 2}
<1>1. 1 \in Int /\ 2 \in Int
  OBVIOUS
<1>2. IsFiniteSet(1 .. 1) /\ IsFiniteSet(1 .. 2)
  BY ONLY <1>1, FS_Interval
<1>3. QED
  BY <1>2, FS_EmptySet

LEMMA LimitsNamed ==
    ASSUME NEW r, r.route \in Routes
    PROVE  /\ IsFiniteSet(DOMAIN Limits(r)) /\ DOMAIN Limits(r) \subseteq Nat
           /\ \A i \in DOMAIN Limits(r) : Limits(r)[i][1] \in Scopes
<1>1. CASE r.route = "check-phone"
  <2>1. DOMAIN Limits(r) = 1 .. 2
    BY <1>1 DEF Limits
  <2>2. Limits(r)[1][1] \in Scopes /\ Limits(r)[2][1] \in Scopes
    BY <1>1 DEF Limits, Scopes
  <2>3. QED
    BY <2>1, <2>2, ShortLists
<1>2. CASE r.route = "register"
  <2>1. DOMAIN Limits(r) = 1 .. 2
    BY <1>2 DEF Limits
  <2>2. Limits(r)[1][1] \in Scopes /\ Limits(r)[2][1] \in Scopes
    BY <1>2 DEF Limits, Scopes
  <2>3. QED
    BY <2>1, <2>2, ShortLists
<1>3. CASE r.route = "send-otp"
  <2>1. DOMAIN Limits(r) = 1 .. 2
    BY <1>3 DEF Limits
  <2>2. Limits(r)[1][1] \in Scopes /\ Limits(r)[2][1] \in Scopes
    BY <1>3 DEF Limits, Scopes
  <2>3. QED
    BY <2>1, <2>2, ShortLists
<1>4. CASE r.route = "verify-otp"
  <2>1. DOMAIN Limits(r) = {}
    BY <1>4 DEF Limits
  <2>2. QED
    BY <2>1, ShortLists
<1>5. CASE r.route = "send-email-otp"
  <2>1. DOMAIN Limits(r) = 1 .. 2
    BY <1>5 DEF Limits
  <2>2. Limits(r)[1][1] \in Scopes /\ Limits(r)[2][1] \in Scopes
    BY <1>5 DEF Limits, Scopes
  <2>3. QED
    BY <2>1, <2>2, ShortLists
<1>6. CASE r.route = "verify-email"
  <2>1. DOMAIN Limits(r) = 1 .. 1
    BY <1>6 DEF Limits
  <2>2. Limits(r)[1][1] \in Scopes
    BY <1>6 DEF Limits, Scopes
  <2>3. QED
    BY <2>1, <2>2, ShortLists
<1>7. QED
  BY <1>1, <1>2, <1>3, <1>4, <1>5, <1>6, PublicAuthAssumption

\* Only a bucket that was not empty is charged.
LEMMA ChargeFits ==
    ASSUME TypeOK, BucketsNamed, NEW limits, NEW down, Charge(limits, down),
           DOMAIN limits \subseteq Nat, \A i \in DOMAIN limits : limits[i][1] \in Scopes
    PROVE  \A b \in DOMAIN spent' : b[1] \in Scopes /\ spent'[b] \in 0 .. Capacity[b[1]]
<1> DEFINE passed  == {i \in DOMAIN limits : \A j \in Refusing(limits, down) : i < j}
           charged == {limits[i] : i \in passed \ down}
<1>1. spent' = [b \in DOMAIN spent \cup charged |->
                  Spent(b) + IF b \in charged THEN 1 ELSE 0]
  BY DEF Charge
<1>2. \A b \in charged : b[1] \in Scopes /\ ~Empty(b)
  <2> SUFFICES ASSUME NEW i \in passed \ down
               PROVE  limits[i][1] \in Scopes /\ ~Empty(limits[i])
    OBVIOUS
  <2>1. ASSUME Empty(limits[i])
        PROVE  FALSE
    <3>1. i \in Refusing(limits, down)
      BY <2>1 DEF Refusing
    <3>2. i < i /\ i \in Nat
      BY <3>1
    <3>3. QED
      BY <3>2
  <2>2. QED
    BY <2>1
<1> HIDE DEF charged
<1>3. \A b \in DOMAIN spent : b[1] \in Scopes /\ spent[b] \in 0 .. Capacity[b[1]]
  BY DEF TypeOK, BucketsNamed
<1>4. \A s \in Scopes : Capacity[s] \in Nat \ {0}
  BY PublicAuthAssumption
<1>5. \A b \in DOMAIN spent \cup charged : Spent(b) \in 0 .. Capacity[b[1]]
  BY <1>2, <1>3, <1>4 DEF Spent
<1>6. ASSUME NEW b \in charged
      PROVE  Spent(b) + 1 \in 0 .. Capacity[b[1]]
  <2>1. b[1] \in Scopes /\ ~(Spent(b) >= Capacity[b[1]])
    BY <1>2 DEF Empty
  <2>2. QED
    BY <1>4, <1>5, <2>1
<1>7. ASSUME NEW b \in DOMAIN spent \cup charged
      PROVE  b[1] \in Scopes /\ spent'[b] \in 0 .. Capacity[b[1]]
  <2>1. CASE b \in charged
    BY <1>1, <1>2, <1>6, <2>1
  <2>2. CASE b \notin charged
    <3>1. b[1] \in Scopes /\ spent'[b] = Spent(b) + 0
      BY <1>1, <1>3, <2>2
    <3>2. QED
      BY <1>4, <1>5, <3>1
  <2>3. QED
    BY <2>1, <2>2
<1>8. QED
  BY <1>1, <1>7

LEMMA AskedTyped ==
    ASSUME NEW session \in 1 .. MaxTokens, NEW r \in Asked[session]
    PROVE  /\ r.route \in Routes /\ r.session = session /\ r.phone \in Seq(Pieces)
           /\ r.device \in Devices \cup {NoDevice} /\ r.role \in RoleNames
<1>1. r \in [route: Routes, session: {session}, device: Devices \cup {NoDevice},
             ip: IPs, phone: Spellings, role: RoleNames, rest: BOOLEAN]
  BY DEF Asked
<1>2. QED
  BY <1>1, PublicAuthAssumption

LEMMA ServiceInputTyped ==
    ASSUME NEW session \in 1 .. MaxTokens, NEW r \in Asked[session]
    PROVE  ServiceInput(r) \in CallSet
<1>1. /\ r.route \in Routes /\ r.session = session /\ r.phone \in Seq(Pieces)
      /\ r.device \in Devices \cup {NoDevice} /\ r.role \in RoleNames
  BY AskedTyped
<1>2. <<>> \in Seq(Pieces)
  OBVIOUS
<1>3. RequireValidPhone(NormalizeE164(r.phone)) \in Seq(Pieces)
  <2>1. NormalizeE164(NormalizeE164(r.phone)) \in Seq(Pieces)
    BY <1>1, NormalizeType
  <2>2. QED
    BY <1>2, <2>1 DEF RequireValidPhone
<1>4. session \in 0 .. MaxTokens /\ 0 \in 0 .. MaxTokens
  BY PublicAuthAssumption
<1>5. QED
  BY <1>1, <1>2, <1>3, <1>4 DEF ServiceInput, CallSet

\* What is served is only added to.
LEMMA ServeAppends ==
    ASSUME served \in Seq(CallSet), NEW call \in CallSet, served' = Append(served, call)
    PROVE  /\ served' \in Seq(CallSet) /\ Len(served') = Len(served) + 1
           /\ DOMAIN served' = DOMAIN served \cup {Len(served) + 1}
           /\ Len(served) + 1 \notin DOMAIN served
           /\ served'[Len(served) + 1] = call
           /\ \A i \in DOMAIN served : served'[i] = served[i]
OBVIOUS

LEMMA RequestTyped ==
    ASSUME TypeOK, BucketsNamed, NEW session \in 1 .. MaxTokens, NEW r \in Asked[session],
           Request(r)
    PROVE  TypeOK' /\ BucketsNamed'
<1>0. r.route \in Routes
  BY AskedTyped
<1>1. PICK limits : limits = Limits(r)
  OBVIOUS
<1>2. PICK down \in SUBSET DOMAIN limits :
         /\ faults' = faults + Cardinality(down) /\ faults' <= MaxFaults
         /\ Serve(r, limits, down) \/ TurnAway(r, limits, down)
         /\ Charge(limits, down)
  BY <1>1 DEF Request
<1>3. Cardinality(down) \in Nat
  BY <1>0, <1>1, LimitsNamed, FS_Subset, FS_CardinalityType
<1>4. faults' \in 0 .. MaxFaults
  BY <1>2, <1>3, Typed, Bounds
<1>5. requests' = requests + 1 /\ requests \in Nat /\ requests' \in 0 .. MaxRequests
  <2>1. requests < MaxRequests /\ requests' = requests + 1
    BY DEF Request
  <2>2. QED
    BY <2>1, Typed, Bounds
<1>6. tokens' = tokens /\ refills' = refills
  BY DEF Request
<1>7. \A b \in DOMAIN spent' : b[1] \in Scopes /\ spent'[b] \in 0 .. Capacity[b[1]]
  BY <1>0, <1>1, <1>2, LimitsNamed, ChargeFits
<1>8. served' \in Seq(CallSet) /\ Len(served') <= requests'
  <2>0. served \in Seq(CallSet) /\ Len(served) <= requests /\ Len(served) \in Nat
    BY Typed
  <2>1. CASE TurnAway(r, limits, down)
    BY <1>5, <2>0, <2>1 DEF TurnAway
  <2>2. CASE Serve(r, limits, down)
    <3>1. PICK call \in CallSet : served' = Append(served, call)
      BY <2>2, ServiceInputTyped DEF Serve
    <3>2. QED
      BY <1>5, <2>0, <3>1, ServeAppends
  <2>3. QED
    BY <1>2, <2>1, <2>2
<1>9. QED
  BY <1>4, <1>5, <1>6, <1>7, <1>8 DEF TypeOK, BucketsNamed, CallSet

LEMMA TypeStep ==
    ASSUME TypeOK, BucketsNamed, [Next]_vars
    PROVE  TypeOK' /\ BucketsNamed'
<1>1. ASSUME NEW device \in Devices, InitSession(device)
      PROVE  TypeOK' /\ BucketsNamed'
  <2>0. Len(tokens) < MaxTokens /\ tokens' = Append(tokens, device)
    BY <1>1 DEF InitSession
  <2>1. tokens' \in Seq(Devices) /\ Len(tokens') <= MaxTokens
    BY <2>0, Typed, Bounds
  <2>2. QED
    BY <1>1, <2>1 DEF InitSession, limitVars, TypeOK, BucketsNamed
<1>2. ASSUME NEW bucket \in DOMAIN spent, Refill(bucket)
      PROVE  TypeOK' /\ BucketsNamed'
  <2>1. /\ bucket[1] \in Scopes /\ Capacity[bucket[1]] \in Nat
        /\ spent[bucket] \in 0 .. Capacity[bucket[1]] /\ spent[bucket] > 0
    BY <1>2, Typed, Bounds DEF Refill, BucketsNamed
  <2>2. spent[bucket] - 1 \in 0 .. Capacity[bucket[1]]
    BY <2>1
  <2>3. refills' \in 0 .. MaxRefills
    <3>1. refills < MaxRefills /\ refills' = refills + 1
      BY <1>2 DEF Refill
    <3>2. QED
      BY <3>1, Typed, Bounds
  <2>4. /\ DOMAIN spent' = DOMAIN spent /\ spent'[bucket] = spent[bucket] - 1
        /\ \A b \in DOMAIN spent \ {bucket} : spent'[b] = spent[b]
    BY <1>2 DEF Refill
  <2>5. QED
    BY <1>2, <2>2, <2>3, <2>4 DEF Refill, TypeOK, BucketsNamed
<1>3. ASSUME NEW session \in DOMAIN tokens, NEW r \in Asked[session], Request(r)
      PROVE  TypeOK' /\ BucketsNamed'
  <2>1. session \in 1 .. MaxTokens
    BY SessionBound
  <2>2. QED
    BY <1>3, <2>1, RequestTyped
<1>4. CASE UNCHANGED vars
  BY <1>4 DEF vars, limitVars, TypeOK, BucketsNamed
<1>5. QED
  BY <1>1, <1>2, <1>3, <1>4 DEF Next

TypedInv == TypeOK /\ BucketsNamed

LEMMA TypedInvariant == Spec => []TypedInv
<1>1. Init => TypedInv
  BY PublicAuthAssumption DEF Init, TypeOK, BucketsNamed, TypedInv
<1>2. TypedInv /\ [Next]_vars => TypedInv'
  BY TypeStep DEF TypedInv
<1>3. QED
  BY <1>1, <1>2, PTL DEF Spec

\* Every variable keeps its type and no bucket is overdrawn, whatever the limits
\* of a request share and whichever of them Redis does not answer for.
THEOREM TypeCorrect == Spec => []TypeOK
<1>1. TypedInv => TypeOK
  BY DEF TypedInv
<1>2. QED
  BY <1>1, TypedInvariant, PTL

----------------------------------------------------------------------------
(* What services are called with *)

\* What holds of every call there has been holds of every call there is, if it
\* holds of what a request is made into.
LEMMA OneCallMore ==
    ASSUME TypeOK, NEW session \in 1 .. MaxTokens, NEW r \in Asked[session], Request(r)
    PROVE  \/ served' = served
           \/ /\ ValidateBody(r)
              /\ DOMAIN served' = DOMAIN served \cup {Len(served) + 1}
              /\ Len(served) + 1 \notin DOMAIN served
              /\ served'[Len(served) + 1] = ServiceInput(r)
              /\ \A i \in DOMAIN served : served'[i] = served[i]
<1>1. PICK limits, down : Serve(r, limits, down) \/ TurnAway(r, limits, down)
  BY DEF Request
<1>2. CASE TurnAway(r, limits, down)
  BY <1>2 DEF TurnAway
<1>3. CASE Serve(r, limits, down)
  <2>1. served \in Seq(CallSet)
    BY Typed
  <2>2. PICK call \in CallSet : call = ServiceInput(r)
    BY ServiceInputTyped
  <2>3. served' = Append(served, call) /\ ValidateBody(r)
    BY <1>3, <2>2 DEF Serve
  <2>4. QED
    BY <2>1, <2>2, <2>3, ServeAppends
<1>4. QED
  BY <1>1, <1>2, <1>3

\* A call the service gets for a device names a session that was opened on it.
CallBound(call) ==
    "device" \in Fields(call.route) =>
        /\ call.session \in DOMAIN tokens
        /\ call.device = tokens[call.session]

CallsBound == \A i \in DOMAIN served : CallBound(served[i])

\* A request that has passed the guest token and its body's validator is made
\* into a call that is bound: the validator asks for the header the middleware
\* can do without.
LEMMA ServiceInputBound ==
    ASSUME NEW r, GuestTokenMiddleware(r), ValidateBody(r)
    PROVE  CallBound(ServiceInput(r))
<1>1. ServiceInput(r).route = r.route
  BY DEF ServiceInput
<1> SUFFICES ASSUME "device" \in Fields(r.route)
             PROVE  /\ ServiceInput(r).session \in DOMAIN tokens
                    /\ ServiceInput(r).device = tokens[ServiceInput(r).session]
  BY <1>1 DEF CallBound
<1>2. ServiceInput(r).session = r.session
  BY DEF ServiceInput
<1>3. ServiceInput(r).device = r.device
  BY DEF ServiceInput
<1>4. r.device # NoDevice
  BY DEF ValidateBody
<1>5. QED
  BY <1>2, <1>3, <1>4 DEF GuestTokenMiddleware

LEMMA BoundStep ==
    ASSUME TypeOK, CallsBound, [Next]_vars
    PROVE  CallsBound'
<1>1. ASSUME NEW device \in Devices, InitSession(device)
      PROVE  CallsBound'
  <2>1. /\ tokens' = Append(tokens, device) /\ served' = served
        /\ tokens \in Seq(Devices)
    BY <1>1 DEF InitSession, TypeOK
  <2>2. \A s \in DOMAIN tokens : s \in DOMAIN tokens' /\ tokens'[s] = tokens[s]
    BY <2>1
  <2>3. QED
    BY <2>1, <2>2 DEF CallsBound, CallBound
<1>2. ASSUME NEW bucket \in DOMAIN spent, Refill(bucket)
      PROVE  CallsBound'
  BY <1>2 DEF Refill, CallsBound, CallBound
<1>3. ASSUME NEW session \in DOMAIN tokens, NEW r \in Asked[session], Request(r)
      PROVE  CallsBound'
  <2>1. session \in 1 .. MaxTokens
    BY SessionBound
  <2>2. tokens' = tokens /\ GuestTokenMiddleware(r)
    BY <1>3 DEF Request
  <2>3. CASE served' = served
    BY <2>2, <2>3 DEF CallsBound, CallBound
  <2>4. CASE /\ ValidateBody(r)
             /\ DOMAIN served' = DOMAIN served \cup {Len(served) + 1}
             /\ served'[Len(served) + 1] = ServiceInput(r)
             /\ \A i \in DOMAIN served : served'[i] = served[i]
    <3>1. CallBound(ServiceInput(r))
      BY <2>2, <2>4, ServiceInputBound
    <3>2. \A i \in DOMAIN served' : CallBound(served'[i])
      BY <2>4, <3>1 DEF CallsBound
    <3>3. QED
      BY <2>2, <3>2 DEF CallsBound, CallBound
  <2>5. QED
    BY <1>3, <2>1, <2>3, <2>4, OneCallMore
<1>4. CASE UNCHANGED vars
  BY <1>4 DEF vars, CallsBound, CallBound
<1>5. QED
  BY <1>1, <1>2, <1>3, <1>4 DEF Next

\* No service creates an account, sends a code or takes an answer for another
\* device than the guest session's, however many sessions, devices and requests.
THEOREM BoundToDevice == Spec => []DeviceBound
<1>1. Init => CallsBound
  BY DEF Init, CallsBound
<1>2. CallsBound => DeviceBound
  BY DEF CallsBound, CallBound, DeviceBound
<1>3. TypedInv /\ CallsBound /\ [Next]_vars => CallsBound'
  BY BoundStep DEF TypedInv
<1>4. QED
  BY <1>1, <1>2, <1>3, TypedInvariant, PTL DEF Spec

----------------------------------------------------------------------------
(* The number a limit counts, a validator accepts and a service uses *)

\* The three routes with a limit per number, and the bucket they count a call in.
LimitedRoutes == {"check-phone", "send-otp", "register"}

CallBucket(call) ==
    CASE call.route = "check-phone" ->
            <<"auth_check_phone_phone", <<"phone", call.phone>>>>
      [] call.route = "send-otp" ->
            <<"auth_send_otp", <<"phone", call.phone, call.role>>>>
      [] call.route = "register" ->
            <<"auth_register", <<"phone", call.phone, call.role>>>>

CallsOf(bucket) ==
    {i \in DOMAIN served : /\ served[i].route \in LimitedRoutes
                           /\ CallBucket(served[i]) = bucket}

Paid(bucket) == Cardinality(CallsOf(bucket)) <= Spent(bucket) + refills + faults

CallsPaid == \A bucket : Paid(bucket)

\* The second limit of these routes is counted under what the service is called with:
\* the limit, the validator and the service read a number alike.
LEMMA ChargedBucket ==
    ASSUME NEW session \in 1 .. MaxTokens, NEW r \in Asked[session],
           r.route \in LimitedRoutes, ValidateBody(r)
    PROVE  /\ 2 \in DOMAIN Limits(r) /\ ServiceInput(r).route = r.route
           /\ Limits(r)[2] = CallBucket(ServiceInput(r))
<1>1. r.phone \in Seq(Pieces)
  BY AskedTyped
<1>2. "phone" \in Fields(r.route) /\ "role" \in Fields(r.route)
  BY DEF LimitedRoutes, Fields
<1>3. ValidateIndianPhone(r.phone) /\ r.role \in RolesOf(r.route)
  BY <1>2 DEF ValidateBody
<1>4. PICK m : m = NormalizeE164(r.phone)
  OBVIOUS
<1>5. IsMobile(m) /\ NormalizeE164(m) = m /\ RequireValidPhone(m) = m
  <2>1. IsMobile(m) /\ m \in Seq(Pieces) /\ RequireValidPhone(m) = m
    BY <1>1, <1>3, <1>4, ReadOnce, NormalizeType
  <2>2. QED
    BY <2>1, MobileFixed
<1>6. ValidateIndianPhone(m)
  BY <1>5 DEF ValidateIndianPhone
<1>7. r.role \in Roles /\ Lower(r.role) = r.role
  BY <1>3 DEF RolesOf, Roles, Lower
<1>8. /\ ServiceInput(r).route = r.route /\ ServiceInput(r).phone = m
      /\ ServiceInput(r).role = r.role
  BY <1>2, <1>4, <1>5 DEF ServiceInput
<1>9. PhoneKeyFunc(r) = <<"phone", m>>
  BY <1>4, <1>6 DEF PhoneKeyFunc
<1>10. PhoneRoleKeyFunc(r) = <<"phone", m, r.role>>
  BY <1>4, <1>6, <1>7 DEF PhoneRoleKeyFunc
<1>11. CASE r.route = "check-phone"
  <2>1. 2 \in DOMAIN Limits(r) /\ Limits(r)[2] = <<"auth_check_phone_phone", PhoneKeyFunc(r)>>
    BY <1>11 DEF Limits
  <2>2. CallBucket(ServiceInput(r)) = <<"auth_check_phone_phone", <<"phone", m>>>>
    BY <1>8, <1>11 DEF CallBucket
  <2>3. QED
    BY <1>8, <1>9, <2>1, <2>2
<1>12. CASE r.route = "send-otp"
  <2>1. 2 \in DOMAIN Limits(r) /\ Limits(r)[2] = <<"auth_send_otp", PhoneRoleKeyFunc(r)>>
    BY <1>12 DEF Limits
  <2>2. CallBucket(ServiceInput(r)) = <<"auth_send_otp", <<"phone", m, r.role>>>>
    BY <1>8, <1>12 DEF CallBucket
  <2>3. QED
    BY <1>8, <1>10, <2>1, <2>2
<1>13. CASE r.route = "register"
  <2>1. 2 \in DOMAIN Limits(r) /\ Limits(r)[2] = <<"auth_register", PhoneRoleKeyFunc(r)>>
    BY <1>13 DEF Limits
  <2>2. CallBucket(ServiceInput(r)) = <<"auth_register", <<"phone", m, r.role>>>>
    BY <1>8, <1>13 DEF CallBucket
  <2>3. QED
    BY <1>8, <1>10, <2>1, <2>2
<1>14. QED
  BY <1>11, <1>12, <1>13 DEF LimitedRoutes

\* A request that is not refused takes a token from each of its limits, but for
\* those Redis does not answer for; and no request gives any back.
LEMMA ChargeAdds ==
    ASSUME NEW limits, NEW down, Charge(limits, down), NEW b, Spent(b) \in Nat
    PROVE  /\ Spent(b)' \in {Spent(b), Spent(b) + 1}
           /\ \A i \in DOMAIN limits \ down :
                 Refusing(limits, down) = {} /\ limits[i] = b => Spent(b)' = Spent(b) + 1
<1> DEFINE passed  == {i \in DOMAIN limits : \A j \in Refusing(limits, down) : i < j}
           charged == {limits[i] : i \in passed \ down}
<1>1. spent' = [x \in DOMAIN spent \cup charged |->
                  Spent(x) + IF x \in charged THEN 1 ELSE 0]
  BY DEF Charge
<1>2. \A i \in DOMAIN limits \ down : Refusing(limits, down) = {} => limits[i] \in charged
  OBVIOUS
<1> HIDE DEF charged
<1>3. CASE b \in charged
  <2>1. b \in DOMAIN spent' /\ spent'[b] = Spent(b) + 1
    BY <1>1, <1>3
  <2>2. QED
    BY <2>1 DEF Spent
<1>4. CASE b \notin charged
  <2>1. Spent(b)' = Spent(b)
    <3>1. CASE b \in DOMAIN spent
      <4>1. b \in DOMAIN spent' /\ spent'[b] = Spent(b) + 0
        BY <1>1, <1>4, <3>1
      <4>2. QED
        BY <4>1 DEF Spent
    <3>2. CASE b \notin DOMAIN spent
      <4>1. b \notin DOMAIN spent'
        BY <1>1, <1>4, <3>2
      <4>2. QED
        BY <3>2, <4>1 DEF Spent
    <3>3. QED
      BY <3>1, <3>2
  <2>2. QED
    BY <1>2, <1>4, <2>1
<1>5. QED
  BY <1>3, <1>4

LEMMA SpentType ==
    ASSUME TypeOK, BucketsNamed, NEW b
    PROVE  Spent(b) \in Nat /\ (b[1] \in Scopes => Spent(b) <= Capacity[b[1]])
<1>1. CASE b \in DOMAIN spent
  <2>1. spent[b] \in 0 .. Capacity[b[1]] /\ Capacity[b[1]] \in Nat
    BY <1>1, Typed, Bounds DEF BucketsNamed
  <2>2. QED
    BY <1>1, <2>1 DEF Spent
<1>2. CASE b \notin DOMAIN spent
  BY <1>2, Bounds DEF Spent
<1>3. QED
  BY <1>1, <1>2

LEMMA CallsFinite ==
    ASSUME TypeOK
    PROVE  /\ IsFiniteSet(DOMAIN served)
           /\ \A S \in SUBSET DOMAIN served : IsFiniteSet(S) /\ Cardinality(S) \in Nat
<1>1. DOMAIN served = 1 .. Len(served) /\ Len(served) \in Nat
  BY Typed
<1>2. IsFiniteSet(1 .. Len(served))
  BY <1>1, FS_Interval
<1>3. QED
  BY <1>1, <1>2, FS_Subset, FS_CardinalityType

LEMMA RequestPaid ==
    ASSUME TypeOK, BucketsNamed, NEW session \in 1 .. MaxTokens, NEW r \in Asked[session],
           Request(r), NEW b, Paid(b)
    PROVE  Paid(b)'
<1>1. PICK limits : limits = Limits(r)
  OBVIOUS
<1>2. PICK down \in SUBSET DOMAIN limits :
         /\ faults' = faults + Cardinality(down)
         /\ Serve(r, limits, down) \/ TurnAway(r, limits, down)
         /\ Charge(limits, down)
  BY <1>1 DEF Request
<1>3. IsFiniteSet(down) /\ Cardinality(down) \in Nat /\ (down # {} => Cardinality(down) >= 1)
  <2>1. IsFiniteSet(down)
    BY <1>1, AskedTyped, LimitsNamed, FS_Subset
  <2>2. QED
    BY <2>1, FS_EmptySet, FS_CardinalityType
<1>4. refills' = refills /\ refills \in Nat /\ faults \in Nat /\ Spent(b) \in Nat
  BY Typed, SpentType DEF Request
<1>5. Spent(b)' \in {Spent(b), Spent(b) + 1}
  BY <1>2, <1>4, ChargeAdds
<1>6. PICK n : n = Cardinality(CallsOf(b))
  OBVIOUS
<1>7. n \in Nat /\ n <= Spent(b) + refills + faults
  BY <1>6, CallsFinite DEF Paid, CallsOf
<1>8. ASSUME CallsOf(b)' = CallsOf(b)
      PROVE  Paid(b)'
  <2>1. Cardinality(CallsOf(b))' = n
    BY <1>6, <1>8
  <2>2. n <= Spent(b)' + refills' + faults'
    BY <1>2, <1>3, <1>4, <1>5, <1>7
  <2>3. QED
    BY <2>1, <2>2 DEF Paid
<1>9. CASE TurnAway(r, limits, down)
  <2>1. CallsOf(b)' = CallsOf(b)
    BY <1>9 DEF TurnAway, CallsOf
  <2>2. QED
    BY <1>8, <2>1
<1>10. CASE Serve(r, limits, down)
  <2>1. PICK call \in CallSet : call = ServiceInput(r)
    BY ServiceInputTyped
  <2>2. /\ served' = Append(served, call) /\ ValidateBody(r) /\ Refusing(limits, down) = {}
        /\ served \in Seq(CallSet)
    BY <1>10, <2>1, Typed DEF Serve
  <2>3. PICK next : next = Len(served) + 1
    OBVIOUS
  <2>4. /\ DOMAIN served' = DOMAIN served \cup {next} /\ next \notin DOMAIN served
        /\ served'[next] = call /\ \A i \in DOMAIN served : served'[i] = served[i]
    BY <2>2, <2>3, ServeAppends
  <2>5. CASE ~(call.route \in LimitedRoutes /\ CallBucket(call) = b)
    <3>1. CallsOf(b)' = CallsOf(b)
      BY <2>4, <2>5 DEF CallsOf
    <3>2. QED
      BY <1>8, <3>1
  <2>6. CASE call.route \in LimitedRoutes /\ CallBucket(call) = b
    <3>1. CallsOf(b)' = CallsOf(b) \cup {next}
      BY <2>4, <2>6 DEF CallsOf
    <3>2. next \notin CallsOf(b) /\ IsFiniteSet(CallsOf(b))
      BY <2>4, CallsFinite DEF CallsOf
    <3>3. Cardinality(CallsOf(b))' = n + 1
      BY <1>6, <3>1, <3>2, FS_AddElement
    <3>4. 2 \in DOMAIN limits /\ limits[2] = b
      <4>1. r.route = call.route
        BY <2>1 DEF ServiceInput
      <4>2. QED
        BY <1>1, <2>1, <2>2, <2>6, <4>1, ChargedBucket
    <3>5. n + 1 <= Spent(b)' + refills' + faults'
      <4>1. CASE 2 \in down
        <5>1. faults' >= faults + 1 /\ faults' \in Nat
          BY <1>2, <1>3, <1>4, <4>1
        <5>2. QED
          BY <1>4, <1>5, <1>7, <5>1
      <4>2. CASE 2 \notin down
        <5>1. Spent(b)' = Spent(b) + 1
          BY <1>2, <1>4, <2>2, <3>4, <4>2, ChargeAdds
        <5>2. QED
          BY <1>2, <1>3, <1>4, <1>7, <5>1
      <4>3. QED
        BY <4>1, <4>2
    <3>6. QED
      BY <3>3, <3>5 DEF Paid
  <2>7. QED
    BY <2>5, <2>6
<1>11. QED
  BY <1>2, <1>9, <1>10

LEMMA PaidStep ==
    ASSUME TypeOK, BucketsNamed, [Next]_vars, NEW b, Paid(b)
    PROVE  Paid(b)'
<1>1. ASSUME NEW device \in Devices, InitSession(device)
      PROVE  Paid(b)'
  BY <1>1 DEF InitSession, limitVars, Paid, CallsOf, Spent
<1>2. ASSUME NEW bucket \in DOMAIN spent, Refill(bucket)
      PROVE  Paid(b)'
  <2>1. CallsOf(b)' = CallsOf(b)
    BY <1>2 DEF Refill, CallsOf
  <2>2. PICK n : n = Cardinality(CallsOf(b))
    OBVIOUS
  <2>3. n \in Nat /\ n <= Spent(b) + refills + faults
    BY <2>2, CallsFinite DEF Paid, CallsOf
  <2>4. Spent(b) \in Nat /\ refills \in Nat /\ faults \in Nat
    BY Typed, SpentType
  <2>5. Spent(b)' \in {Spent(b), Spent(b) - 1}
    <3>1. /\ DOMAIN spent' = DOMAIN spent
          /\ spent'[bucket] = spent[bucket] - 1
          /\ \A x \in DOMAIN spent \ {bucket} : spent'[x] = spent[x]
      BY <1>2 DEF Refill
    <3>2. QED
      BY <3>1 DEF Spent
  <2>6. refills' = refills + 1 /\ faults' = faults
    BY <1>2 DEF Refill
  <2>7. n <= Spent(b)' + refills' + faults'
    BY <2>3, <2>4, <2>5, <2>6
  <2>8. QED
    BY <2>1, <2>2, <2>7 DEF Paid
<1>3. ASSUME NEW session \in DOMAIN tokens, NEW r \in Asked[session], Request(r)
      PROVE  Paid(b)'
  BY <1>3, SessionBound, RequestPaid
<1>4. CASE UNCHANGED vars
  BY <1>4 DEF vars, limitVars, Paid, CallsOf, Spent
<1>5. QED
  BY <1>1, <1>2, <1>3, <1>4 DEF Next

\* Calls in one bucket are no more than it holds, refills, or was not asked for.
LEMMA BucketBounds ==
    ASSUME TypeOK, BucketsNamed, CallsPaid, NEW b, b[1] \in Scopes,
           NEW S, S \subseteq CallsOf(b)
    PROVE  Cardinality(S) <= Capacity[b[1]] + (refills + faults)
<1>1. IsFiniteSet(CallsOf(b)) /\ Cardinality(CallsOf(b)) \in Nat
  BY CallsFinite DEF CallsOf
<1>2. Cardinality(S) \in Nat /\ Cardinality(S) <= Cardinality(CallsOf(b))
  BY <1>1, FS_Subset, FS_CardinalityType
<1>3. Cardinality(CallsOf(b)) <= Spent(b) + refills + faults
  BY DEF CallsPaid, Paid
<1>4. /\ Spent(b) \in Nat /\ Spent(b) <= Capacity[b[1]] /\ Capacity[b[1]] \in Nat
      /\ refills \in Nat /\ faults \in Nat
  BY SpentType, Typed, Bounds
<1>5. QED
  BY <1>1, <1>2, <1>3, <1>4

LEMMA PaidSuffices ==
    ASSUME TypeOK, BucketsNamed, CallsPaid
    PROVE  SpellingsShareBucket
<1> SUFFICES ASSUME NEW i \in DOMAIN served
             PROVE  /\ served[i].route = "check-phone" =>
                         Calls("check-phone", served[i].phone, Roles)
                            <= Capacity["auth_check_phone_phone"] + (refills + faults)
                    /\ served[i].route = "send-otp" =>
                         Calls("send-otp", served[i].phone, {served[i].role})
                            <= Capacity["auth_send_otp"] + (refills + faults)
                    /\ served[i].route = "register" =>
                         Calls("register", served[i].phone, {served[i].role})
                            <= Capacity["auth_register"] + (refills + faults)
  BY DEF SpellingsShareBucket
<1>1. PICK phone : phone = served[i].phone
  OBVIOUS
<1>2. PICK role : role = served[i].role
  OBVIOUS
<1>3. Calls("check-phone", phone, Roles) <= Capacity["auth_check_phone_phone"] + (refills + faults)
  <2>1. PICK b : b = <<"auth_check_phone_phone", <<"phone", phone>>>>
    OBVIOUS
  <2>2. {j \in DOMAIN served : /\ served[j].route = "check-phone"
                               /\ served[j].phone = phone
                               /\ served[j].role \in Roles} \subseteq CallsOf(b)
    BY <2>1 DEF CallsOf, CallBucket, LimitedRoutes
  <2>3. b[1] = "auth_check_phone_phone" /\ b[1] \in Scopes
    BY <2>1 DEF Scopes
  <2>4. QED
    BY <2>2, <2>3, BucketBounds DEF Calls
<1>4. Calls("send-otp", phone, {role}) <= Capacity["auth_send_otp"] + (refills + faults)
  <2>1. PICK b : b = <<"auth_send_otp", <<"phone", phone, role>>>>
    OBVIOUS
  <2>2. {j \in DOMAIN served : /\ served[j].route = "send-otp"
                               /\ served[j].phone = phone
                               /\ served[j].role \in {role}} \subseteq CallsOf(b)
    BY <2>1 DEF CallsOf, CallBucket, LimitedRoutes
  <2>3. b[1] = "auth_send_otp" /\ b[1] \in Scopes
    BY <2>1 DEF Scopes
  <2>4. QED
    BY <2>2, <2>3, BucketBounds DEF Calls
<1>5. Calls("register", phone, {role}) <= Capacity["auth_register"] + (refills + faults)
  <2>1. PICK b : b = <<"auth_register", <<"phone", phone, role>>>>
    OBVIOUS
  <2>2. {j \in DOMAIN served : /\ served[j].route = "register"
                               /\ served[j].phone = phone
                               /\ served[j].role \in {role}} \subseteq CallsOf(b)
    BY <2>1 DEF CallsOf, CallBucket, LimitedRoutes
  <2>3. b[1] = "auth_register" /\ b[1] \in Scopes
    BY <2>1 DEF Scopes
  <2>4. QED
    BY <2>2, <2>3, BucketBounds DEF Calls
<1>6. QED
  BY <1>1, <1>2, <1>3, <1>4, <1>5

\* However a number is written, the limits per number count it in one bucket and
\* let through no more than that holds, refills, or could not be asked for: for any
\* spellings, addresses, sessions and capacities.
THEOREM OneBucketPerNumber == Spec => []SpellingsShareBucket
<1>1. Init => CallsPaid
  <2> SUFFICES ASSUME Init, NEW b
               PROVE  Paid(b)
    BY DEF CallsPaid
  <2>1. CallsOf(b) = {} /\ Spent(b) = 0 /\ refills = 0 /\ faults = 0
    BY DEF Init, CallsOf, Spent
  <2>2. QED
    BY <2>1, FS_EmptySet DEF Paid
<1>2. TypedInv /\ CallsPaid /\ [Next]_vars => CallsPaid'
  BY PaidStep DEF CallsPaid, TypedInv
<1>3. TypedInv /\ CallsPaid => SpellingsShareBucket
  BY PaidSuffices DEF TypedInv
<1>4. QED
  BY <1>1, <1>2, <1>3, TypedInvariant, PTL DEF Spec

----------------------------------------------------------------------------
(* Numbers are read alike *)

CallRead(call) ==
    /\ "phone" \in Fields(call.route) => IsMobile(call.phone)
    /\ "role" \in Fields(call.route) => call.role \in RolesOf(call.route)

CallsRead == \A i \in DOMAIN served : CallRead(served[i])

LEMMA ServiceInputRead ==
    ASSUME NEW session \in 1 .. MaxTokens, NEW r \in Asked[session], ValidateBody(r)
    PROVE  CallRead(ServiceInput(r))
<1>1. PICK call : call = ServiceInput(r)
  OBVIOUS
<1>2. call.route = r.route
  BY <1>1 DEF ServiceInput
<1>3. ASSUME "phone" \in Fields(r.route)
      PROVE  IsMobile(call.phone)
  <2>1. call.phone = RequireValidPhone(NormalizeE164(r.phone))
    BY <1>1, <1>3 DEF ServiceInput
  <2>2. ValidateIndianPhone(r.phone) /\ r.phone \in Seq(Pieces)
    BY <1>3, AskedTyped DEF ValidateBody
  <2>3. QED
    BY <2>1, <2>2, ReadOnce
<1>4. ASSUME "role" \in Fields(r.route)
      PROVE  call.role \in RolesOf(r.route)
  BY <1>1, <1>4 DEF ServiceInput, ValidateBody
<1>5. QED
  BY <1>1, <1>2, <1>3, <1>4 DEF CallRead

LEMMA ReadStep ==
    ASSUME TypeOK, CallsRead, [Next]_vars
    PROVE  CallsRead'
<1>1. CASE served' = served
  BY <1>1 DEF CallsRead
<1>2. ASSUME NEW session \in DOMAIN tokens, NEW r \in Asked[session], Request(r)
      PROVE  CallsRead'
  <2>1. CASE /\ ValidateBody(r)
             /\ DOMAIN served' = DOMAIN served \cup {Len(served) + 1}
             /\ served'[Len(served) + 1] = ServiceInput(r)
             /\ \A i \in DOMAIN served : served'[i] = served[i]
    <3>1. CallRead(ServiceInput(r))
      BY <2>1, SessionBound, ServiceInputRead
    <3>2. QED
      BY <2>1, <3>1 DEF CallsRead
  <2>2. QED
    BY <1>1, <1>2, <2>1, SessionBound, OneCallMore
<1>3. QED
  BY <1>1, <1>2 DEF Next, InitSession, Refill, vars

\* A number that is read as a mobile's is asked for and served as that number by
\* whoever holds a guest token.
LEMMA NotTurnedAway ==
    ASSUME NEW session \in DOMAIN tokens, NEW s, NEW m \in Seq(Pieces), IsMobile(m),
           NormalizeE164(s) = m
    PROVE  LET r == [route |-> "check-phone", session |-> session,
                     device |-> tokens[session], ip |-> CHOOSE ip \in IPs : TRUE,
                     phone |-> s, role |-> "client", rest |-> TRUE]
           IN  GuestTokenMiddleware(r) /\ ValidateBody(r) /\ ServiceInput(r).phone = m
<1>0. PICK r : r = [route |-> "check-phone", session |-> session,
                    device |-> tokens[session], ip |-> CHOOSE ip \in IPs : TRUE,
                    phone |-> s, role |-> "client", rest |-> TRUE]
  OBVIOUS
<1>1. /\ r.route = "check-phone" /\ r.session = session /\ r.device = tokens[session]
      /\ r.phone = s /\ r.role = "client"
  BY <1>0
<1>2. Fields(r.route) = {"phone", "role"}
  BY <1>1 DEF Fields
<1>3. NormalizeE164(m) = m
  BY MobileFixed
<1>4. ValidateIndianPhone(s) /\ RequireValidPhone(NormalizeE164(s)) = m
  BY <1>3 DEF ValidateIndianPhone, RequireValidPhone
<1>5. GuestTokenMiddleware(r)
  BY <1>1 DEF GuestTokenMiddleware
<1>6. ValidateBody(r)
  BY <1>1, <1>2, <1>4 DEF ValidateBody, RolesOf, Roles
<1>7. ServiceInput(r).phone = m
  BY <1>1, <1>2, <1>4 DEF ServiceInput
<1>8. QED
  BY <1>0, <1>5, <1>6, <1>7

\* However many spaces stand around a mobile number and whichever of the prefixes
\* right before it, whoever holds a guest token is not turned away for it and is served
\* as that number, whatever digits it begins with.
THEOREM UsualFormsServed ==
    ASSUME NEW session \in DOMAIN tokens, NEW m \in Seq(Pieces), IsMobile(m),
           NEW s \in Seq(Pieces), NEW first \in DOMAIN s, NEW last \in DOMAIN s,
           s[first] # " ", s[last] # " ",
           \A i \in DOMAIN s : s[i] # " " => first <= i /\ i <= last,
           SubSeq(s, first, last) \in WaysToWrite(m)
    PROVE  LET r == [route |-> "check-phone", session |-> session,
                     device |-> tokens[session], ip |-> CHOOSE ip \in IPs : TRUE,
                     phone |-> s, role |-> "client", rest |-> TRUE]
           IN  GuestTokenMiddleware(r) /\ ValidateBody(r) /\ ServiceInput(r).phone = m
<1>1. NormalizeE164(s) = m
  BY UsualForms
<1>2. QED
  BY <1>1, NotTurnedAway

\* Whatever spellings bodies name, no service is called with anything but a bare mobile
\* number and a role it knows, and a number written bare or with a prefix right before it
\* is accepted.
THEOREM ReadAlike == Spec => []NumbersReadAlike
<1>1. Init => CallsRead
  BY DEF Init, CallsRead
<1>2. TypedInv /\ CallsRead /\ [Next]_vars => CallsRead'
  BY ReadStep DEF TypedInv
<1>3. CallsRead => NumbersReadAlike
  <2> DEFINE Req(session, s) ==
               [route |-> "check-phone", session |-> session, device |-> tokens[session],
                ip |-> CHOOSE ip \in IPs : TRUE, phone |-> s, role |-> "client",
                rest |-> TRUE]
             Good(r, number) ==
               GuestTokenMiddleware(r) /\ ValidateBody(r) /\ ServiceInput(r).phone = number
  <2>1. ASSUME NEW session \in DOMAIN tokens,
               NEW number \in {<<"98", "d8">>, <<"91", "d8">>},
               NEW prefix \in {<<>>, <<"+91">>, <<"91">>, <<"0">>, <<" ", "+91">>}
        PROVE  Good(Req(session, prefix \o number), number)
    <3>1. number \in Seq(Pieces) /\ IsMobile(number)
      BY TwoPieces
    <3>2. PICK s : s = prefix \o number
      OBVIOUS
    <3>3. NormalizeE164(s) = number
      BY <3>1, <3>2, PrefixesRead
    <3>4. Good(Req(session, s), number)
      BY <3>1, <3>3, NotTurnedAway
    <3>5. QED
      BY <3>2, <3>4
  <2>2. QED
    BY <2>1 DEF NumbersReadAlike, CallsRead, CallRead
<1>4. QED
  BY <1>1, <1>2, <1>3, TypedInvariant, PTL DEF Spec

=============================================================================
