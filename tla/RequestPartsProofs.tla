--------------------------- MODULE RequestPartsProofs ---------------------------
(***************************************************************************)
(* Theorems about the three parts of a request to the web terminal: host   *)
(* names of any length over any characters are compared, key files of any  *)
(* length are read, and logins end as they should for every server and     *)
(* every login.                                                            *)
(***************************************************************************)
EXTENDS PrimaryDomain, PrivateKeys, SshAuth, SequenceTheorems, WellFoundedInduction, TLAPS

-----------------------------------------------------------------------------
(* PrimaryDomain                                                             *)

\* What the loop has compared so far: the last n characters, which are equal.
Compared == -1 - i

DotIn(s, n) == \E j \in 1..n : At(s, -j) = Dot

OneDotIn(s, n) ==
    \E j \in 1..n : At(s, -j) = Dot /\ \A k \in 1..n : At(s, -k) = Dot => k = j

LoopInv ==
    /\ i \in Int
    /\ Compared \in 0..Shorter(domain1, domain2)
    /\ SameEnd(domain1, domain2, Compared)
    /\ dots \in {0, 1}
    /\ dots = 0 => ~ DotIn(domain1, Compared)
    /\ dots = 1 => OneDotIn(domain1, Compared)

ComparisonInv ==
    /\ ComparisonTypeOK
    /\ same = "idle" => i = -1 /\ dots = 0
    /\ same = "comparing" => LoopInv
    /\ ComparesPrimaryDomains

-----------------------------------------------------------------------------

LEMMA ShorterIsShorter ==
    ASSUME NEW s \in Seq(Char), NEW t \in Seq(Char)
    PROVE  /\ Shorter(s, t) \in Nat
           /\ Shorter(s, t) <= Len(s) /\ Shorter(s, t) <= Len(t)
           /\ Shorter(s, t) = Len(s) \/ Shorter(s, t) = Len(t)
BY DEF Shorter

\* Names that are equal on their last n characters and differ on the one
\* before, with less than two dots in the equal part, have different primary
\* domains.
LEMMA DifferentChars ==
    ASSUME NEW s \in Seq(Char), NEW t \in Seq(Char), NEW n \in Nat,
           n < Shorter(s, t), SameEnd(s, t, n),
           ~ DotIn(s, n) \/ OneDotIn(s, n),
           At(s, -(n + 1)) # At(t, -(n + 1))
    PROVE  ~ SamePrimaryDomain(s, t)
<1>1. Shorter(s, t) \in Nat BY ShorterIsShorter
<1>2. s # t OBVIOUS
<1>3. ASSUME NEW p \in 1..Shorter(s, t),
             LastTwoLabels(s, p), LastTwoLabels(t, p), SameEnd(s, t, p)
      PROVE  FALSE
  <2>1. p <= n
    <3>1. p >= n + 1 => n + 1 \in 1..p BY <1>1
    <3>2. n + 1 \in 1..p => At(s, -(n + 1)) = At(t, -(n + 1))
          BY <1>3 DEF SameEnd
    <3> QED BY <3>1, <3>2, <1>1
  <2>2. PICK j \in 1..p : At(s, -j) = Dot BY <1>3 DEF LastTwoLabels
  <2>3. PICK j1 \in 1..n : /\ At(s, -j1) = Dot
                           /\ \A k \in 1..n : At(s, -k) = Dot => k = j1
    <3>1. DotIn(s, n) BY <2>1, <2>2 DEF DotIn
    <3> QED BY <3>1 DEF OneDotIn
  <2>4. j1 = j BY <2>1, <2>2, <2>3
  <2>5. p # Len(s) /\ p # Len(t) BY <2>1, <1>1, ShorterIsShorter
  <2>6. At(s, -p - 1) = Dot /\ At(t, -p - 1) = Dot
        BY <1>3, <2>5 DEF LastTwoLabels
  <2>7. -p - 1 = -(p + 1) BY <1>1
  <2>8. p # n BY <2>6, <2>7
  <2>9. p + 1 \in 1..n BY <2>1, <2>8
  <2>10. p + 1 = j1 BY <2>3, <2>6, <2>7, <2>9
  <2> QED BY <2>2, <2>4, <2>10
<1> QED BY <1>2, <1>3 DEF SamePrimaryDomain

\* The second dot is found: the labels to its right are the last two of both.
LEMMA SecondDot ==
    ASSUME NEW s \in Seq(Char), NEW t \in Seq(Char), NEW n \in Nat,
           n < Shorter(s, t), SameEnd(s, t, n), OneDotIn(s, n),
           At(s, -(n + 1)) = Dot, At(t, -(n + 1)) = Dot
    PROVE  SamePrimaryDomain(s, t)
<1>1. Shorter(s, t) \in Nat BY ShorterIsShorter
<1>2. -n - 1 = -(n + 1) OBVIOUS
<1>3. n \in 1..Shorter(s, t) BY <1>1 DEF OneDotIn
<1>4. n \in 1..Len(s) /\ n \in 1..Len(t) BY <1>3, ShorterIsShorter
<1>5. OneDotIn(t, n) BY DEF OneDotIn, SameEnd
<1>6. LastTwoLabels(s, n) BY <1>2, <1>4 DEF LastTwoLabels, OneDotIn
<1>7. LastTwoLabels(t, n) BY <1>2, <1>4, <1>5 DEF LastTwoLabels, OneDotIn
<1> QED BY <1>3, <1>6, <1>7 DEF SamePrimaryDomain

\* All of the shorter name is equal to the end of the longer one.
LEMMA OneEndsTheOther ==
    ASSUME NEW s \in Seq(Char), NEW t \in Seq(Char),
           SameEnd(s, t, Shorter(s, t)),
           ~ DotIn(s, Shorter(s, t)) \/ OneDotIn(s, Shorter(s, t))
    PROVE  /\ Len(s) = Len(t) => s = t
           /\ Len(s) # Len(t) =>
                 (SamePrimaryDomain(s, t)
                  <=> /\ DotIn(s, Shorter(s, t))
                      /\ EndsAtDot(s, t, - Shorter(s, t) - 1))
<1> DEFINE m == Shorter(s, t)
           longer == IF Len(s) > m THEN s ELSE t
<1>1. /\ m \in Nat /\ m <= Len(s) /\ m <= Len(t)
      /\ m = Len(s) \/ m = Len(t)
      BY ShorterIsShorter
<1>2. Len(s) = Len(t) => s = t
  <2> SUFFICES ASSUME Len(s) = Len(t) PROVE s = t OBVIOUS
  <2>1. m = Len(s) BY <1>1
  <2>2. ASSUME NEW k \in 1..Len(s) PROVE s[k] = t[k]
    <3>1. Len(s) + 1 - k \in 1..m BY <2>1
    <3>2. At(s, -(Len(s) + 1 - k)) = At(t, -(Len(s) + 1 - k))
          BY <3>1 DEF SameEnd
    <3>3. Len(s) + 1 + -(Len(s) + 1 - k) = k OBVIOUS
    <3> QED BY <3>2, <3>3 DEF At
  <2> QED BY <2>2
<1>3. ASSUME Len(s) # Len(t) PROVE s # t BY <1>3
<1>4. ASSUME Len(s) # Len(t), DotIn(s, m), At(longer, -m - 1) = Dot
      PROVE  SamePrimaryDomain(s, t)
  <2>1. OneDotIn(s, m) BY <1>4
  <2>2. OneDotIn(t, m)
    BY <1>4 DEF OneDotIn, SameEnd
  <2>3. m \in 1..Shorter(s, t) BY <1>1, <1>4 DEF DotIn
  <2>4. m \in 1..Len(s) /\ m \in 1..Len(t) BY <2>3, <1>1
  <2>5. m = Len(s) \/ At(s, -m - 1) = Dot BY <1>1, <1>4
  <2>6. m = Len(t) \/ At(t, -m - 1) = Dot BY <1>1, <1>4
  <2>7. LastTwoLabels(s, m) BY <2>1, <2>4, <2>5 DEF LastTwoLabels, OneDotIn
  <2>8. LastTwoLabels(t, m) BY <2>2, <2>4, <2>6 DEF LastTwoLabels, OneDotIn
  <2> QED BY <2>3, <2>7, <2>8 DEF SamePrimaryDomain
<1>5. ASSUME Len(s) # Len(t), SamePrimaryDomain(s, t)
      PROVE  DotIn(s, m) /\ At(longer, -m - 1) = Dot
  <2>1. PICK n \in 1..m : LastTwoLabels(s, n) /\ LastTwoLabels(t, n)
        BY <1>3, <1>5 DEF SamePrimaryDomain
  <2>2. PICK j \in 1..n : At(s, -j) = Dot BY <2>1 DEF LastTwoLabels
  <2>3. j \in 1..m BY <2>1, <2>2, <1>1
  <2>4. DotIn(s, m) BY <2>2, <2>3 DEF DotIn
  <2>5. n = m
    <3> SUFFICES ASSUME n # m PROVE FALSE OBVIOUS
    <3>1. n < m BY <1>1, <2>1
    <3>2. n # Len(s) BY <3>1, <1>1
    <3>3. At(s, -n - 1) = Dot BY <2>1, <3>2 DEF LastTwoLabels
    <3>4. n + 1 \in 1..m /\ -n - 1 = -(n + 1) BY <3>1, <1>1
    <3>5. PICK j1 \in 1..m : \A k \in 1..m : At(s, -k) = Dot => k = j1
          BY <2>4 DEF OneDotIn
    <3>6. n + 1 = j1 BY <3>3, <3>4, <3>5
    <3>7. j = j1 BY <2>2, <2>3, <3>5
    <3> QED BY <3>6, <3>7, <2>1, <2>2
  <2>6. At(longer, -m - 1) = Dot
    <3>1. CASE Len(s) > m BY <3>1, <2>1, <2>5 DEF LastTwoLabels
    <3>2. CASE ~ (Len(s) > m)
      <4>1. m # Len(t) BY <3>2, <1>1, <1>5
      <4> QED BY <4>1, <3>2, <2>1, <2>5 DEF LastTwoLabels
    <3> QED BY <3>1, <3>2
  <2> QED BY <2>4, <2>6
<1> QED BY <1>2, <1>4, <1>5 DEF EndsAtDot

-----------------------------------------------------------------------------

LEMMA DomainsAreSequences ==
    ComparisonTypeOK => domain1 \in Seq(Char) /\ domain2 \in Seq(Char)
<1>1. <<>> \in Seq(Char) OBVIOUS
<1> QED BY <1>1, DomainAssumption DEF ComparisonTypeOK

LEMMA ComparisonInitInv == ComparisonInit => ComparisonInv
BY DEF ComparisonInit, ComparisonInv, ComparisonTypeOK, ComparesPrimaryDomains

LEMMA CompareInv ==
    ASSUME ComparisonInv, NEW d1 \in Domain, NEW d2 \in Domain, Compare(d1, d2)
    PROVE  ComparisonInv'
<1>1. d1 \in Seq(Char) /\ d2 \in Seq(Char) BY DomainAssumption
<1>2. ComparisonTypeOK'
      BY DEF ComparisonInv, ComparisonTypeOK, Compare
<1>3. i' = -1 /\ dots' = 0 /\ domain1' = d1 /\ domain2' = d2
      BY DEF ComparisonInv, Compare
<1>4. Compared' = 0 BY <1>3 DEF Compared
<1>5. LoopInv'
  <2>1. Shorter(d1, d2) \in Nat BY <1>1, ShorterIsShorter
  <2> QED BY <1>3, <1>4, <2>1 DEF LoopInv, SameEnd, DotIn
<1> QED BY <1>2, <1>5 DEF ComparisonInv, ComparesPrimaryDomains, Compare

LEMMA CompareCharInv ==
    ASSUME ComparisonInv, CompareChar
    PROVE  ComparisonInv'
<1> DEFINE n == Compared
<1>1. domain1 \in Seq(Char) /\ domain2 \in Seq(Char)
      BY DomainsAreSequences DEF ComparisonInv
<1>2. domain1' = domain1 /\ domain2' = domain2 BY DEF CompareChar
<1>3. LoopInv BY DEF ComparisonInv, CompareChar
<1>4. Shorter(domain1, domain2) \in Nat BY <1>1, ShorterIsShorter
<1>5. n \in Nat /\ n < Shorter(domain1, domain2) /\ i = -(n + 1)
      BY <1>3, <1>4 DEF LoopInv, Compared, CompareChar
<1>6. SameEnd(domain1, domain2, n) BY <1>3 DEF LoopInv
<1>7. ~ DotIn(domain1, n) \/ OneDotIn(domain1, n) BY <1>3 DEF LoopInv
<1>8. CASE At(domain1, i) # At(domain2, i)
  <2>1. same' = "no" /\ i' = i /\ dots' = dots
        BY <1>8 DEF CompareChar, Result
  <2>2. ~ SamePrimaryDomain(domain1, domain2)
        BY <1>1, <1>5, <1>6, <1>7, <1>8, DifferentChars
  <2> QED BY <2>1, <2>2, <1>2
          DEF ComparisonInv, ComparisonTypeOK, ComparesPrimaryDomains
<1>9. CASE At(domain1, i) = At(domain2, i) /\ At(domain1, i) = Dot /\ dots = 1
  <2>1. same' = "yes" /\ i' = i /\ dots' = 2
        BY <1>9 DEF CompareChar, Result, Enough
  <2>2. OneDotIn(domain1, n) BY <1>3, <1>9 DEF LoopInv
  <2>3. SamePrimaryDomain(domain1, domain2)
        BY <1>1, <1>5, <1>6, <1>9, <2>2, SecondDot
  <2> QED BY <2>1, <2>3, <1>2
          DEF ComparisonInv, ComparisonTypeOK, ComparesPrimaryDomains
<1>10. CASE /\ At(domain1, i) = At(domain2, i)
            /\ ~ (At(domain1, i) = Dot /\ dots = 1)
  <2>1. dots \in {0, 1} BY <1>3 DEF LoopInv
  <2>2. /\ same' = "comparing" /\ i' = i - 1
        /\ dots' = IF At(domain1, i) = Dot THEN dots + 1 ELSE dots
    <3>1. dots' = IF At(domain1, i) = Dot THEN dots + 1 ELSE dots
          BY <1>10 DEF CompareChar
    <3>2. ~ (At(domain1, i) = Dot /\ dots' = 2)
          BY <1>10, <2>1, <3>1
    <3> QED BY <1>10, <3>1, <3>2 DEF CompareChar, Enough
  <2>3. Compared' = n + 1 /\ i' \in Int
        BY <2>2, <1>5 DEF Compared
  <2>4. SameEnd(domain1, domain2, n + 1)
    <3> SUFFICES ASSUME NEW j \in 1..(n + 1)
                 PROVE  At(domain1, -j) = At(domain2, -j)
        BY DEF SameEnd
    <3>1. CASE j = n + 1 BY <3>1, <1>5, <1>10
    <3>2. CASE j # n + 1
      <4>1. j \in 1..n BY <3>2, <1>5
      <4> QED BY <4>1, <1>6 DEF SameEnd
    <3> QED BY <3>1, <3>2
  <2>5. /\ dots' \in {0, 1}
        /\ dots' = 0 => ~ DotIn(domain1, n + 1)
        /\ dots' = 1 => OneDotIn(domain1, n + 1)
    <3>1. CASE At(domain1, i) = Dot
      <4>1. dots = 0 /\ dots' = 1 BY <3>1, <2>1, <2>2, <1>10
      <4>2. ~ DotIn(domain1, n) BY <4>1, <1>3 DEF LoopInv
      <4>3. n + 1 \in 1..(n + 1) /\ At(domain1, -(n + 1)) = Dot
            BY <3>1, <1>5
      <4>4. ASSUME NEW k \in 1..(n + 1), At(domain1, -k) = Dot
            PROVE  k = n + 1
        <5>1. ~ (k \in 1..n) BY <4>2, <4>4 DEF DotIn
        <5> QED BY <5>1, <1>5
      <4> QED BY <4>1, <4>3, <4>4 DEF OneDotIn
    <3>2. CASE At(domain1, i) # Dot
      <4>1. dots' = dots BY <3>2, <2>2
      <4>2. At(domain1, -(n + 1)) # Dot BY <3>2, <1>5
      <4>3. ASSUME NEW k \in 1..(n + 1), At(domain1, -k) = Dot
            PROVE  k \in 1..n
        <5>1. k # n + 1 BY <4>2, <4>3
        <5> QED BY <5>1, <1>5
      <4>4. dots = 0 => ~ DotIn(domain1, n + 1)
            BY <4>3, <1>3 DEF LoopInv, DotIn
      <4>5. dots = 1 => OneDotIn(domain1, n + 1)
        <5> SUFFICES ASSUME dots = 1 PROVE OneDotIn(domain1, n + 1) OBVIOUS
        <5>1. PICK j \in 1..n :
                 /\ At(domain1, -j) = Dot
                 /\ \A k \in 1..n : At(domain1, -k) = Dot => k = j
              BY <1>3 DEF LoopInv, OneDotIn
        <5>2. j \in 1..(n + 1) BY <1>5
        <5>3. \A k \in 1..(n + 1) : At(domain1, -k) = Dot => k = j
              BY <4>3, <5>1
        <5> QED BY <5>1, <5>2, <5>3 DEF OneDotIn
      <4> QED BY <4>1, <4>4, <4>5, <2>1
    <3> QED BY <3>1, <3>2
  <2>6. LoopInv'
    <3>1. n + 1 \in 0..Shorter(domain1, domain2) BY <1>4, <1>5
    <3> QED BY <1>2, <2>3, <2>4, <2>5, <3>1 DEF LoopInv
  <2> QED BY <2>2, <2>3, <2>5, <2>6, <1>2
          DEF ComparisonInv, ComparisonTypeOK, ComparesPrimaryDomains
<1> QED BY <1>8, <1>9, <1>10

LEMMA EndOfLoopInv ==
    ASSUME ComparisonInv, EndOfLoop
    PROVE  ComparisonInv'
<1> DEFINE m == Shorter(domain1, domain2)
<1>1. domain1 \in Seq(Char) /\ domain2 \in Seq(Char)
      BY DomainsAreSequences DEF ComparisonInv
<1>2. LoopInv BY DEF ComparisonInv, EndOfLoop
<1>3. m \in Nat BY <1>1, ShorterIsShorter
<1>4. Compared = m /\ i = - m - 1
      BY <1>2, <1>3 DEF LoopInv, Compared, EndOfLoop
<1>5. SameEnd(domain1, domain2, m) BY <1>2, <1>4 DEF LoopInv
<1>6. dots \in {0, 1} /\ (dots # 0 <=> DotIn(domain1, m))
      BY <1>2, <1>4 DEF LoopInv, DotIn, OneDotIn
<1>7. ~ DotIn(domain1, m) \/ OneDotIn(domain1, m)
      BY <1>2, <1>4 DEF LoopInv
<1>8. (same' = "yes") <=> \/ Len(domain1) = Len(domain2)
                          \/ dots # 0 /\ EndsAtDot(domain1, domain2, i)
      BY DEF EndOfLoop, Result
<1>9. (same' = "yes") <=> SamePrimaryDomain(domain1, domain2)
  <2>1. CASE Len(domain1) = Len(domain2)
    <3>1. domain1 = domain2 BY <2>1, <1>1, <1>5, <1>7, OneEndsTheOther
    <3> QED BY <3>1, <2>1, <1>8 DEF SamePrimaryDomain
  <2>2. CASE Len(domain1) # Len(domain2)
    <3>1. SamePrimaryDomain(domain1, domain2)
          <=> DotIn(domain1, m) /\ EndsAtDot(domain1, domain2, - m - 1)
          BY <2>2, <1>1, <1>5, <1>7, OneEndsTheOther
    <3> QED BY <3>1, <2>2, <1>4, <1>6, <1>8
  <2> QED BY <2>1, <2>2
<1>10. same' \in {"yes", "no"} /\ UNCHANGED <<domain1, domain2, i, dots>>
       BY DEF EndOfLoop, Result
<1> QED BY <1>9, <1>10
        DEF ComparisonInv, ComparisonTypeOK, ComparesPrimaryDomains

LEMMA ComparisonInductive ==
    ComparisonInv /\ [ComparisonNext]_comparison => ComparisonInv'
<1> SUFFICES ASSUME ComparisonInv, [ComparisonNext]_comparison
             PROVE  ComparisonInv'
    OBVIOUS
<1>1. ASSUME NEW d1 \in Domain, NEW d2 \in Domain, Compare(d1, d2)
      PROVE  ComparisonInv'
      BY <1>1, CompareInv
<1>2. CASE CompareChar BY <1>2, CompareCharInv
<1>3. CASE EndOfLoop BY <1>3, EndOfLoopInv
<1>4. CASE UNCHANGED comparison
      BY <1>4 DEF comparison, ComparisonInv, ComparisonTypeOK, LoopInv, Compared,
         ComparesPrimaryDomains
<1> QED BY <1>1, <1>2, <1>3, <1>4 DEF ComparisonNext

-----------------------------------------------------------------------------

\* The loop never counts a third dot, and its result is yes or no.
THEOREM ComparisonTypeCorrect == ComparisonSpec => []ComparisonTypeOK
<1>1. ComparisonInv => ComparisonTypeOK BY DEF ComparisonInv
<1> QED BY <1>1, ComparisonInitInv, ComparisonInductive, PTL DEF ComparisonSpec

\* is_same_primary_domain says yes if and only if the names are equal or have
\* the same last two labels.
THEOREM ComparesPrimaryDomainsHolds == ComparisonSpec => []ComparesPrimaryDomains
<1>1. ComparisonInv => ComparesPrimaryDomains BY DEF ComparisonInv
<1> QED BY <1>1, ComparisonInitInv, ComparisonInductive, PTL DEF ComparisonSpec

-----------------------------------------------------------------------------
(* The header of a private key                                               *)

Line == {"RSA", "DSA", "EC", "OPENSSH", "OTHER", "text"}

LEMMA FilesAreTexts ==
    ASSUME NEW f \in KeyFile \cup {NoFile}
    PROVE  /\ f.lines \in Seq(Line) /\ f.type \in Types /\ f.encrypted \in BOOLEAN
           /\ f.passphrase \in {"", "right", "wrong"}
  <1>1. <<>> \in Seq(Line)
    OBVIOUS
  <1>2. CASE f \in KeyFile
    BY <1>2, KeyFileAssumption DEF Line
  <1>3. CASE f = NoFile
    BY <1>1, <1>3 DEF NoFile, Types
  <1> QED
    BY <1>2, <1>3

\* A set of naturals has a least element.
LEMMA Least ==
    ASSUME NEW T \in SUBSET Nat, T # {}
    PROVE  \E x \in T : \A y \in T : x <= y
  <1>1. \E x \in T : \A y \in T : ~ (<<y, x>> \in OpToRel(<, Nat))
    BY NatLessThanWellFounded, WFMin
  <1>2. PICK x \in T : \A y \in T : ~ (<<y, x>> \in OpToRel(<, Nat))
    BY <1>1
  <1>3. ASSUME NEW y \in T PROVE x <= y
    <2>1. ~ (y < x)
      BY <1>2, <1>3 DEF OpToRel
    <2> QED
      BY <2>1
  <1> QED
    BY <1>3

\* HeaderFrom returns the first line with a tag.
LEMMA HeaderFound ==
    ASSUME NEW s \in Seq(Line), NEW n \in Nat \ {0}
    PROVE  \/ /\ HeaderFrom(s, n) = 0
              /\ \A j \in n..Len(s) : s[j] \notin Tags
           \/ /\ HeaderFrom(s, n) \in n..Len(s)
              /\ s[HeaderFrom(s, n)] \in Tags
              /\ \A j \in n..Len(s) : s[j] \in Tags => HeaderFrom(s, n) <= j
  <1> DEFINE found == {j \in n..Len(s) : s[j] \in Tags}
  <1>1. CASE found = {}
    BY <1>1 DEF HeaderFrom
  <1>2. CASE found # {}
    <2>1. found \in SUBSET Nat
      OBVIOUS
    <2>2. \E j \in found : \A k \in found : j <= k
      BY <1>2, <2>1, Least
    <2>3. HeaderFrom(s, n) = CHOOSE j \in found : \A k \in found : j <= k
      BY <1>2 DEF HeaderFrom
    <2> HIDE DEF found
    <2>4. HeaderFrom(s, n) \in found /\ \A k \in found : HeaderFrom(s, n) <= k
      BY <2>2, <2>3
    <2> QED
      BY <2>4 DEF found
  <1> QED
    BY <1>1, <1>2

\* Read from the header that parse_name found, a key begins with that header.
LEMMA HeaderAgain ==
    ASSUME NEW s \in Seq(Line), HeaderFrom(s, 1) # 0
    PROVE  HeaderFrom(s, HeaderFrom(s, 1)) = HeaderFrom(s, 1)
  <1> DEFINE h == HeaderFrom(s, 1)
  <1>1. h \in 1..Len(s) /\ s[h] \in Tags
    BY HeaderFound
  <1>2. Len(s) \in Nat
    OBVIOUS
  <1> HIDE DEF h
  <1>3. HeaderFrom(s, h) \in h..Len(s) /\ HeaderFrom(s, h) <= h
    BY <1>1, <1>2, HeaderFound
  <1>4. HeaderFrom(s, h) = h
    BY <1>1, <1>2, <1>3
  <1> QED
    BY <1>4 DEF h

-----------------------------------------------------------------------------
(* PrivateKeys                                                               *)

\* The classes that are tried while an OPENSSH key is read, and that have not
\* been tried yet.
Remaining == {<<"Ed25519", "RSA", "ECDSA", "DSS">>, <<"RSA", "ECDSA", "DSS">>,
              <<"ECDSA", "DSS">>, <<"DSS">>}

\* The class of the key is not yet tried, if the key can be read at all.
Searching ==
    /\ offset = HeaderFrom(file.lines, 1)
    /\ offset # 0
    /\ \/ /\ file.lines[offset] = "OPENSSH"
          /\ names \in Remaining
          /\ Usable(file) => \E j \in 1..Len(names) : names[j] = file.type
       \/ /\ file.lines[offset] \in {"RSA", "DSA", "EC"}
          /\ names = <<TagToName(file.lines[offset])>>

KeyInv ==
    /\ KeyTypeOK
    /\ pkey = "idle" => file = NoFile /\ pos = 1 /\ offset = 0
    /\ pkey = "try" => Searching
    /\ pkey \in {"none", "parse"} => offset = 0 /\ pos = 1
    /\ pkey = "none" => file.lines = <<>>
    /\ UsableKeysAreRead

LEMMA LengthOfText ==
    ASSUME NEW s \in Seq(Line)
    PROVE  Len(s) \in Nat
  OBVIOUS

\* What the key file of the search is.
LEMMA FileIsText ==
    ASSUME KeyTypeOK
    PROVE  /\ file \in KeyFile \cup {NoFile} /\ file.lines \in Seq(Line)
           /\ file.type \in Types /\ file.encrypted \in BOOLEAN
           /\ file.passphrase \in {"", "right", "wrong"}
           /\ Len(file.lines) \in Nat
  <1>1. file \in KeyFile \cup {NoFile}
    BY DEF KeyTypeOK
  <1>2. /\ file.lines \in Seq(Line) /\ file.type \in Types
        /\ file.encrypted \in BOOLEAN
        /\ file.passphrase \in {"", "right", "wrong"}
    BY <1>1, FilesAreTexts
  <1>3. Len(file.lines) \in Nat
    BY <1>2, LengthOfText, Zenon
  <1> QED
    BY <1>1, <1>2, <1>3

\* The classes that are left after one was tried.
LEMMA TailOfRemaining ==
    ASSUME NEW n \in Remaining
    PROVE  /\ Head(n) \in Types /\ n \in ToTry /\ Tail(n) \in ToTry
           /\ Len(n) \in 1..4
           /\ Len(n) # 1 => Tail(n) \in Remaining
           /\ \A j \in 1..Len(n) : j # 1 => n[j] = Tail(n)[j - 1]
           /\ Len(Tail(n)) = Len(n) - 1
  <1>1. CASE n = <<"Ed25519", "RSA", "ECDSA", "DSS">>
    <2>1. Tail(n) = <<"RSA", "ECDSA", "DSS">>
      BY <1>1
    <2> QED
      BY <1>1, <2>1 DEF Types, ToTry, Remaining
  <1>2. CASE n = <<"RSA", "ECDSA", "DSS">>
    <2>1. Tail(n) = <<"ECDSA", "DSS">>
      BY <1>2
    <2> QED
      BY <1>2, <2>1 DEF Types, ToTry, Remaining
  <1>3. CASE n = <<"ECDSA", "DSS">>
    <2>1. Tail(n) = <<"DSS">>
      BY <1>3
    <2> QED
      BY <1>3, <2>1 DEF Types, ToTry, Remaining
  <1>4. CASE n = <<"DSS">>
    <2>1. Tail(n) = <<>>
      BY <1>4
    <2> QED
      BY <1>4, <2>1 DEF Types, ToTry, Remaining
  <1> QED
    BY <1>1, <1>2, <1>3, <1>4 DEF Remaining

LEMMA KeyInitInv == KeyInit => KeyInv
  <1> SUFFICES ASSUME KeyInit PROVE KeyInv
    OBVIOUS
  <1>1. NoFile.lines = <<>> /\ Len(<<>>) = 0
    BY DEF NoFile
  <1>2. KeyTypeOK
    BY <1>1 DEF KeyInit, KeyTypeOK, ToTry
  <1> QED
    BY <1>2 DEF KeyInit, KeyInv, UsableKeysAreRead

LEMMA GetPrivatekeyInv ==
    ASSUME KeyInv, NEW f \in KeyFile \cup {NoFile}, GetPrivatekey(f)
    PROVE  KeyInv'
  <1>1. /\ file' = f /\ pos' = 1 /\ offset' = 0 /\ names' = names
        /\ pkey' \in {"none", "parse"}
        /\ pkey' = "none" => f.lines = <<>>
    BY DEF KeyInv, GetPrivatekey
  <1>2. f.lines \in Seq(Line)
    BY FilesAreTexts
  <1>3. KeyTypeOK'
    BY <1>1, <1>2 DEF KeyInv, KeyTypeOK
  <1> QED
    BY <1>1, <1>3 DEF KeyInv, UsableKeysAreRead

LEMMA ParseNameInv == KeyInv /\ ParseName => KeyInv'
  <1> SUFFICES ASSUME KeyInv, ParseName PROVE KeyInv'
    OBVIOUS
  <1> DEFINE header == HeaderFrom(file.lines, 1)
  <1>1. /\ file \in KeyFile \cup {NoFile} /\ file.lines \in Seq(Line)
        /\ file.type \in Types /\ Len(file.lines) \in Nat
        /\ file' = file /\ offset = 0 /\ names \in ToTry
    BY FileIsText DEF KeyInv, KeyTypeOK, ParseName
  <1>2. CASE header = 0
    <2>1. /\ pkey' = "invalid" /\ pos' = Len(file.lines) + 1
          /\ offset' = offset /\ names' = names
      BY <1>2 DEF ParseName
    <2>2. KeyTypeOK'
      BY <1>1, <2>1 DEF KeyInv, KeyTypeOK
    <2>3. ~ Usable(file)
      BY <1>1, <1>2, HeaderFound DEF Usable
    <2> QED
      BY <1>1, <2>1, <2>2, <2>3 DEF KeyInv, UsableKeysAreRead, Usable
  <1>3. CASE header # 0
    <2>1. /\ pkey' = "try" /\ pos' = header + 1 /\ offset' = header
          /\ names' = IF TagToName(file.lines[header]) = "Ed25519"
                      THEN <<"Ed25519", "RSA", "ECDSA", "DSS">>
                      ELSE <<TagToName(file.lines[header])>>
      BY <1>3 DEF ParseName
    <2>2. header \in 1..Len(file.lines) /\ file.lines[header] \in Tags
      BY <1>1, <1>3, HeaderFound
    <2> HIDE DEF header
    <2>3. CASE file.lines[header] = "OPENSSH"
      <3>1. names' = <<"Ed25519", "RSA", "ECDSA", "DSS">>
        BY <2>1, <2>3 DEF TagToName
      <3>2. \E j \in 1..Len(names') : names'[j] = file.type
        BY <1>1, <3>1 DEF Types
      <3>3. names' \in ToTry /\ names' \in Remaining
        BY <3>1 DEF ToTry, Remaining
      <3>4. KeyTypeOK'
        BY <1>1, <2>1, <2>2, <3>3 DEF KeyTypeOK
      <3>5. Searching'
        BY <1>1, <1>3, <2>1, <2>3, <3>2, <3>3 DEF Searching, header
      <3> QED
        BY <2>1, <3>4, <3>5 DEF KeyInv, UsableKeysAreRead
    <2>4. CASE file.lines[header] \in {"RSA", "DSA", "EC"}
      <3>1. names' = <<TagToName(file.lines[header])>>
        BY <2>1, <2>4 DEF TagToName
      <3>2. TagToName(file.lines[header]) \in Types
        BY <2>4 DEF TagToName, Types
      <3>3. names' \in ToTry
        BY <3>1, <3>2 DEF ToTry
      <3>4. KeyTypeOK'
        BY <1>1, <2>1, <2>2, <3>3 DEF KeyTypeOK
      <3>5. Searching'
        BY <1>1, <1>3, <2>1, <2>4, <3>1 DEF Searching, header
      <3> QED
        BY <2>1, <3>4, <3>5 DEF KeyInv, UsableKeysAreRead
    <2> QED
      BY <2>2, <2>3, <2>4 DEF Tags
  <1> QED
    BY <1>2, <1>3

\* What a class makes of the key whose header was found.
LEMMA ClassReads ==
    ASSUME KeyInv, pkey = "try", NEW name \in Types
    PROVE  LET result == FromPrivateKey(name, Seek(offset)) IN
           /\ result = "key" => Usable(file)
           /\ result = "PasswordRequired" => ~ Usable(file)
           /\ /\ file.lines[offset] = "OPENSSH" /\ Usable(file)
              /\ name = file.type
              => result = "key"
           /\ /\ file.lines[offset] # "OPENSSH" /\ Usable(file)
              /\ name = TagToName(file.lines[offset])
              => result = "key"
  <1>1. /\ file \in KeyFile \cup {NoFile} /\ file.lines \in Seq(Line)
        /\ file.type \in Types /\ file.encrypted \in BOOLEAN
        /\ file.passphrase \in {"", "right", "wrong"}
    BY FileIsText DEF KeyInv
  <1>2. /\ offset = HeaderFrom(file.lines, 1) /\ offset # 0
    BY DEF KeyInv, Searching
  <1>3. HeaderFrom(file.lines, Seek(offset)) = offset
    BY <1>1, <1>2, HeaderAgain DEF Seek
  <1>4. offset \in 1..Len(file.lines) /\ file.lines[offset] \in Tags
    <2> DEFINE s == file.lines
    <2>1. s \in Seq(Line) /\ HeaderFrom(s, 1) # 0
      BY <1>1, <1>2
    <2> HIDE DEF s
    <2>2. HeaderFrom(s, 1) \in 1..Len(s) /\ s[HeaderFrom(s, 1)] \in Tags
      BY <2>1, HeaderFound
    <2> QED
      BY <1>2, <2>2 DEF s
  <1> DEFINE type == IF file.lines[offset] = "OPENSSH"
                     THEN file.type ELSE TagToName(file.lines[offset])
             open == \/ file.lines[offset] = "OPENSSH"
                     \/ type = name /\ name # "Ed25519"
  <1>5. FromPrivateKey(name, Seek(offset)) =
            IF ~ open THEN "SSHException"
            ELSE IF file.encrypted /\ file.passphrase = "" THEN "PasswordRequired"
            ELSE IF file.encrypted /\ file.passphrase = "wrong" THEN "SSHException"
            ELSE IF type = name THEN "key" ELSE "SSHException"
    BY <1>2, <1>3 DEF FromPrivateKey
  <1>6. Usable(file) <=> (file.encrypted => file.passphrase = "right")
    BY <1>4 DEF Usable
  <1>7. file.lines[offset] # "OPENSSH" => TagToName(file.lines[offset]) # "Ed25519"
    BY <1>4 DEF TagToName, Tags
  <1> QED
    BY <1>1, <1>5, <1>6, <1>7

LEMMA GetSpecificPkeyInv == KeyInv /\ GetSpecificPkey => KeyInv'
  <1> SUFFICES ASSUME KeyInv, GetSpecificPkey PROVE KeyInv'
    OBVIOUS
  <1> DEFINE result == FromPrivateKey(Head(names), Seek(offset))
  <1>1. /\ pkey = "try" /\ Searching /\ KeyTypeOK
        /\ file.lines \in Seq(Line) /\ Len(file.lines) \in Nat
    BY FileIsText DEF KeyInv, GetSpecificPkey
  <1>2. /\ pkey' = IF result = "key" THEN "key"
                   ELSE IF result = "PasswordRequired" THEN "invalid"
                   ELSE IF Len(names) = 1 THEN "invalid" ELSE "try"
        /\ names' = Tail(names) /\ pos' = Len(file.lines) + 1
        /\ file' = file /\ offset' = offset
    BY DEF GetSpecificPkey
  <1> HIDE DEF result
  <1>3. CASE file.lines[offset] = "OPENSSH"
    <2>1. names \in Remaining
          /\ (Usable(file) => \E j \in 1..Len(names) : names[j] = file.type)
      BY <1>1, <1>3 DEF Searching
    <2>2. /\ Head(names) \in Types /\ Tail(names) \in ToTry
          /\ Len(names) # 1 => Tail(names) \in Remaining
          /\ Len(names) = 1 /\ Usable(file) => Head(names) = file.type
          /\ Usable(file) /\ Head(names) # file.type =>
                \E j \in 1..Len(Tail(names)) : Tail(names)[j] = file.type
      <3>1. /\ Head(names) \in Types /\ Tail(names) \in ToTry
            /\ Len(names) \in 1..4
            /\ Len(names) # 1 => Tail(names) \in Remaining
            /\ \A j \in 1..Len(names) : j # 1 => names[j] = Tail(names)[j - 1]
            /\ Len(Tail(names)) = Len(names) - 1
        BY <2>1, TailOfRemaining
      <3>2. Head(names) = names[1]
        OBVIOUS
      <3> QED
        BY <2>1, <3>1, <3>2
    <2>3. /\ result = "key" => Usable(file)
          /\ result = "PasswordRequired" => ~ Usable(file)
          /\ Usable(file) /\ Head(names) = file.type => result = "key"
      BY <1>1, <1>3, <2>2, ClassReads DEF result
    <2>4. KeyTypeOK'
      BY <1>1, <1>2, <2>2 DEF KeyTypeOK
    <2>5. pkey' = "try" => Searching'
      BY <1>1, <1>2, <1>3, <2>2, <2>3 DEF Searching, Usable
    <2>6. UsableKeysAreRead'
      BY <1>2, <2>2, <2>3 DEF UsableKeysAreRead, Usable
    <2> QED
      BY <1>2, <2>4, <2>5, <2>6 DEF KeyInv
  <1>4. CASE file.lines[offset] # "OPENSSH"
    <2>1. /\ names = <<TagToName(file.lines[offset])>>
          /\ file.lines[offset] \in {"RSA", "DSA", "EC"}
      BY <1>1, <1>4 DEF Searching
    <2>2. /\ Len(names) = 1 /\ Tail(names) = <<>>
          /\ Head(names) = TagToName(file.lines[offset])
      BY <2>1
    <2>3. Head(names) \in Types
      BY <2>1, <2>2 DEF TagToName, Types
    <2>4. /\ result = "key" <=> Usable(file)
          /\ result = "PasswordRequired" => ~ Usable(file)
      BY <1>1, <1>4, <2>2, <2>3, ClassReads DEF result
    <2>5. KeyTypeOK'
      BY <1>1, <1>2, <2>2 DEF KeyTypeOK, ToTry
    <2>6. UsableKeysAreRead' /\ pkey' \in {"key", "invalid"}
      BY <1>2, <2>2, <2>4 DEF UsableKeysAreRead, Usable
    <2> QED
      BY <2>5, <2>6 DEF KeyInv
  <1> QED
    BY <1>3, <1>4

\* The invariant is inductive.
LEMMA KeyInductive == KeyInv /\ [KeyNext]_stream => KeyInv'
  <1> SUFFICES ASSUME KeyInv, [KeyNext]_stream PROVE KeyInv'
    OBVIOUS
  <1>1. CASE UNCHANGED stream
    BY <1>1 DEF stream, KeyInv, KeyTypeOK, Searching, UsableKeysAreRead, Usable
  <1> QED
    BY <1>1, GetPrivatekeyInv, ParseNameInv, GetSpecificPkeyInv DEF KeyNext

LEMMA KeyInvHolds == KeySpec => []KeyInv
  BY KeyInitInv, KeyInductive, PTL DEF KeySpec

-----------------------------------------------------------------------------
(* SshAuth: the inductive invariant                                          *)

\* Before a method has been tried.
NothingYet == accepted = <<>> /\ right = TRUE /\ round = 1

\* The ways to a login that only a dialogue can finish.
TellsCode == login.totp # "none" /\ CanTell({"verification"})

\* The key was taken, and a dialogue must follow.
AfterTheKey == accepted = <<"publickey">> /\ KeyStarts /\ ~ Chain(<<"publickey">>)

\* No key was taken, and no password is.
WithoutKey == accepted = <<>> /\ ~ KeyStarts /\ "password" \notin Following(<<>>)

\* What is known where connect is.
AuthPlace ==
    /\ auth = "idle" => NothingYet
    /\ auth = "publickey" => NothingYet /\ login.key # "none"
    /\ auth = "password" => NothingYet /\ ~ KeyStarts
    /\ auth = "fallback" => WithoutKey /\ (OneByOne /\ CanTell({}) => right)
    /\ auth = "two_factor" =>
        AfterTheKey \/ (WithoutKey /\ ~ (OneByOne /\ CanTell({})))
    /\ auth = "interactive" =>
        /\ AfterTheKey \/ (WithoutKey /\ ~ (OneByOne /\ CanTell({})))
        /\ login.totp # "none"
        /\ TellsCode => right

AuthInv == AuthTypeOK /\ AuthPlace /\ GoodCredentialsLogIn

-----------------------------------------------------------------------------
(* The server                                                                *)

\* A chain of one method lets it be the first.
LEMMA FirstMethod ==
    ASSUME NEW m \in Method, Chain(<<m>>)
    PROVE  m \in Following(<<>>)
  <1>1. Len(<<m>>) = 1 /\ <<m>>[1] = m /\ Len(<<>>) = 0
    OBVIOUS
  <1>2. <<m>> \in server.chains
    BY DEF Chain
  <1> QED
    BY <1>1, <1>2 DEF Following

\* So does a chain of two; the other one may follow.
LEMMA TwoMethods ==
    ASSUME NEW m \in Method, NEW n \in Method, Chain(<<m, n>>)
    PROVE  m \in Following(<<>>) /\ n \in Following(<<m>>)
  <1>1. /\ Len(<<m, n>>) = 2 /\ <<m, n>>[1] = m /\ <<m, n>>[2] = n
        /\ Len(<<>>) = 0 /\ Len(<<m>>) = 1 /\ <<m>>[1] = m
    OBVIOUS
  <1>2. <<m, n>> \in server.chains
    BY DEF Chain
  <1>3. m \in Following(<<>>)
    BY <1>1, <1>2 DEF Following
  <1>4. n \in Following(<<m>>)
    BY <1>1, <1>2 DEF Following
  <1> QED
    BY <1>3, <1>4

LEMMA AppendSecond ==
    ASSUME NEW m, NEW n
    PROVE  Append(<<m>>, n) = <<m, n>>
  <1>1. <<m>> \in Seq({m, n}) /\ <<m, n>> \in Seq({m, n})
    OBVIOUS
  <1>2. /\ Append(<<m>>, n) \in Seq({m, n})
        /\ Len(Append(<<m>>, n)) = 2
        /\ Append(<<m>>, n)[1] = m /\ Append(<<m>>, n)[2] = n
    BY <1>1
  <1>3. Len(<<m, n>>) = 2 /\ <<m, n>>[1] = m /\ <<m, n>>[2] = n
    OBVIOUS
  <1>4. \A j \in 1..2 : j = 1 \/ j = 2
    OBVIOUS
  <1>5. \A j \in 1..2 : Append(<<m>>, n)[j] = <<m, n>>[j]
    BY <1>2, <1>3, <1>4, Zenon
  <1> QED
    BY <1>1, <1>2, <1>3, <1>5, SeqEqual, Zenon

\* What can be logged in with, once no method before the dialogue has done it.
LEMMA DialogueLogIns ==
    ASSUME CanLogIn
    PROVE  /\ AfterTheKey =>
                /\ Chain(<<"publickey", "keyboard-interactive">>)
                /\ TellsCode
           /\ WithoutKey =>
                /\ Chain(<<"keyboard-interactive">>)
                /\ OneByOne
                /\ CanTell({}) \/ TellsCode
  <1>1. Chain(<<"password">>) => "password" \in Following(<<>>)
    BY FirstMethod DEF Method
  <1> QED
    BY <1>1 DEF CanLogIn, AfterTheKey, WithoutKey, TellsCode

\* The server and the login of a connection do not change.
LEMMA SameServer ==
    ASSUME server' = server, login' = login
    PROVE  /\ CanLogIn' = CanLogIn /\ KeyStarts' = KeyStarts
           /\ OneByOne' = OneByOne /\ TellsCode' = TellsCode
           /\ CanTell({})' = CanTell({})
           /\ Following(<<>>)' = Following(<<>>)
           /\ Chain(<<"publickey">>)' = Chain(<<"publickey">>)
    BY DEF CanLogIn, KeyStarts, OneByOne, TellsCode, CanTell, Following, Chain

-----------------------------------------------------------------------------
(* Initially, and step by step                                               *)

LEMMA AuthInitInv == AuthInit => AuthInv
  <1> SUFFICES ASSUME AuthInit PROVE AuthInv
    OBVIOUS
  <1>1. <<>> \in Seq(Method)
    OBVIOUS
  <1>2. AuthTypeOK
    BY <1>1 DEF AuthInit, AuthTypeOK
  <1>3. AuthPlace
    BY DEF AuthInit, AuthPlace, NothingYet
  <1>4. GoodCredentialsLogIn
    BY DEF AuthInit, GoodCredentialsLogIn, Ended, Raised
  <1> QED
    BY <1>2, <1>3, <1>4 DEF AuthInv

LEMMA StartAuthInv == AuthInv /\ StartAuth => AuthInv'
  <1> SUFFICES ASSUME AuthInv, StartAuth PROVE AuthInv'
    OBVIOUS
  <1>1. AuthTypeOK'
    BY DEF AuthInv, StartAuth, AuthTypeOK
  <1>2. AuthPlace'
    <2>1. KeyStarts' = KeyStarts
      BY SameServer DEF StartAuth
    <2>2. login.key = "none" => ~ KeyStarts
      BY DEF KeyStarts
    <2> QED
      BY <2>1, <2>2 DEF AuthInv, AuthPlace, StartAuth, NothingYet
  <1>3. GoodCredentialsLogIn'
    BY DEF StartAuth, GoodCredentialsLogIn, Ended, Raised
  <1> QED
    BY <1>1, <1>2, <1>3 DEF AuthInv

\* A key that the server takes is enough, or a dialogue follows if one can.
LEMMA TryPublickeyInv == AuthInv /\ TryPublickey => AuthInv'
  <1> SUFFICES ASSUME AuthInv, TryPublickey PROVE AuthInv'
    OBVIOUS
  <1> USE DEF AuthInv
  <1>1. /\ accepted = <<>> /\ login.key # "none" /\ NothingYet
        /\ UNCHANGED <<server, login, round, right>>
    BY DEF AuthPlace, TryPublickey, NothingYet
  <1>2. /\ CanLogIn' = CanLogIn /\ KeyStarts' = KeyStarts
        /\ Chain(<<"publickey">>)' = Chain(<<"publickey">>)
    BY <1>1, SameServer
  <1>3. CASE KeyStarts
    <2>1. /\ accepted' = Append(accepted, "publickey")
          /\ auth' = IF accepted' \in server.chains THEN "returned"
                     ELSE AfterKey(Following(accepted'))
      BY <1>1, <1>3 DEF TryPublickey, KeyStarts
    <2>2. accepted' = <<"publickey">>
      BY <1>1, <2>1
    <2>3. auth' \in {"returned", "two_factor"}
      BY <2>1 DEF AfterKey
    <2>4. accepted' \in Seq(Method)
      BY <2>2 DEF Method
    <2>5. AuthTypeOK'
      BY <1>1, <2>3, <2>4 DEF AuthTypeOK, Ended, Raised
    <2>6. auth' = "two_factor" => ~ Chain(<<"publickey">>)
      BY <2>1, <2>2 DEF Chain, AfterKey
    <2>7. AuthPlace'
      <3>1. auth' = "two_factor" => AfterTheKey'
        BY <1>2, <1>3, <2>2, <2>6 DEF AfterTheKey
      <3>2. CASE auth' = "returned"
        BY <3>2 DEF AuthPlace
      <3>3. CASE auth' = "two_factor"
        BY <3>1, <3>3, Zenon DEF AuthPlace
      <3> QED
        BY <2>3, <3>2, <3>3
    <2>8. ASSUME CanLogIn, auth' = "returned" PROVE Authenticated'
      <3>1. AfterKey(Following(<<"publickey">>)) # "returned" \/ Chain(<<"publickey">>)
        <4>1. CASE Chain(<<"publickey">>)
          BY <4>1
        <4>2. CASE Chain(<<"publickey", "keyboard-interactive">>)
          <5>1. "keyboard-interactive" \in Following(<<"publickey">>)
            BY <4>2, TwoMethods DEF Method
          <5> QED
            BY <5>1 DEF AfterKey, TwoFactorTypes
        <4> QED
          BY <1>3, <2>8, <4>1, <4>2 DEF CanLogIn
      <3>2. <<"publickey">> \in server.chains
        BY <2>1, <2>2, <2>8, <3>1 DEF Chain
      <3> QED
        BY <1>1, <2>2, <3>2 DEF Authenticated
    <2>9. GoodCredentialsLogIn'
      BY <1>2, <2>3, <2>8 DEF GoodCredentialsLogIn, Ended, Raised
    <2> QED
      BY <2>5, <2>7, <2>9
  <1>4. CASE ~ KeyStarts
    <2>1. auth' = "password" /\ accepted' = accepted
      BY <1>1, <1>4 DEF TryPublickey, KeyStarts
    <2>2. AuthTypeOK'
      BY <1>1, <2>1 DEF AuthTypeOK
    <2>3. AuthPlace'
      BY <1>1, <1>2, <1>4, <2>1 DEF AuthPlace, NothingYet
    <2>4. GoodCredentialsLogIn'
      BY <2>1 DEF GoodCredentialsLogIn, Ended, Raised
    <2> QED
      BY <2>2, <2>3, <2>4
  <1> QED
    BY <1>3, <1>4

\* A password that is taken logs in whoever needs no more.
LEMMA TryPasswordInv == AuthInv /\ TryPassword => AuthInv'
  <1> SUFFICES ASSUME AuthInv, TryPassword PROVE AuthInv'
    OBVIOUS
  <1> USE DEF AuthInv
  <1>1. /\ accepted = <<>> /\ right = TRUE /\ ~ KeyStarts
        /\ UNCHANGED <<server, login, round, right>>
    BY DEF AuthPlace, TryPassword, NothingYet
  <1>2. /\ CanLogIn' = CanLogIn /\ KeyStarts' = KeyStarts
        /\ Following(<<>>)' = Following(<<>>)
    BY <1>1, SameServer
  <1>3. CASE "password" \in Following(<<>>)
    <2>1. /\ auth' = IF login.password THEN "returned" ELSE "AuthenticationException"
          /\ accepted' = IF login.password THEN Append(accepted, "password")
                                           ELSE accepted
      BY <1>1, <1>3 DEF TryPassword
    <2>2. login.password => accepted' = <<"password">>
      BY <1>1, <2>1
    <2>3. accepted' \in Seq(Method)
      BY <2>1, <2>2 DEF Method, AuthTypeOK
    <2>4. AuthTypeOK'
      BY <1>1, <2>1, <2>3 DEF AuthTypeOK, Ended, Raised
    <2>5. AuthPlace'
      BY <2>1 DEF AuthPlace
    <2>6. CanLogIn => Chain(<<"password">>) /\ login.password
      BY <1>1, <1>3 DEF CanLogIn
    <2>7. CanLogIn => Authenticated'
      BY <1>1, <2>2, <2>6 DEF Authenticated, Chain
    <2>8. GoodCredentialsLogIn'
      BY <1>2, <2>1, <2>6, <2>7 DEF GoodCredentialsLogIn
    <2> QED
      BY <2>4, <2>5, <2>8
  <1>4. CASE "password" \notin Following(<<>>)
    <2>1. /\ accepted' = accepted
          /\ auth' = IF "keyboard-interactive" \in Following(<<>>)
                     THEN "fallback" ELSE "BadAuthenticationType"
      BY <1>1, <1>4 DEF TryPassword
    <2>2. AuthTypeOK'
      BY <1>1, <2>1 DEF AuthTypeOK, Ended, Raised, Dialogue
    <2>3. AuthPlace'
      BY <1>1, <1>2, <1>4, <2>1 DEF AuthPlace, WithoutKey
    <2>4. CanLogIn => "keyboard-interactive" \in Following(<<>>)
      <3>1. CanLogIn => Chain(<<"keyboard-interactive">>)
        BY <1>1, <1>4, DialogueLogIns DEF WithoutKey
      <3> QED
        BY <3>1, FirstMethod DEF Method
    <2>5. GoodCredentialsLogIn'
      BY <1>2, <2>1, <2>4 DEF GoodCredentialsLogIn, Ended, Raised
    <2> QED
      BY <2>2, <2>3, <2>5
  <1> QED
    BY <1>3, <1>4

\* The dialogue begins for whoever can finish it.
LEMMA AuthInteractiveInv == AuthInv /\ AuthInteractive => AuthInv'
  <1> SUFFICES ASSUME AuthInv, AuthInteractive PROVE AuthInv'
    OBVIOUS
  <1> USE DEF AuthInv
  <1>1. /\ AfterTheKey \/ (WithoutKey /\ ~ (OneByOne /\ CanTell({})))
        /\ UNCHANGED <<server, login, accepted>>
    BY DEF AuthPlace, AuthInteractive
  <1>2. /\ CanLogIn' = CanLogIn /\ OneByOne' = OneByOne /\ CanTell({})' = CanTell({})
        /\ AfterTheKey' = AfterTheKey
        /\ WithoutKey' = WithoutKey /\ TellsCode' = TellsCode
    BY <1>1, SameServer DEF AfterTheKey, WithoutKey
  <1>3. CASE login.totp # "none" /\ "keyboard-interactive" \in Following(accepted)
    <2>1. auth' = "interactive" /\ round' = 1 /\ right' = TRUE
      BY <1>3 DEF AuthInteractive
    <2>2. AuthTypeOK'
      BY <1>1, <2>1 DEF AuthTypeOK, Dialogue
    <2>3. AuthPlace'
      BY <1>1, <1>2, <1>3, <2>1 DEF AuthPlace
    <2>4. GoodCredentialsLogIn'
      BY <2>1 DEF GoodCredentialsLogIn, Ended, Raised
    <2> QED
      BY <2>2, <2>3, <2>4
  <1>4. CASE ~ (login.totp # "none" /\ "keyboard-interactive" \in Following(accepted))
    <2>1. /\ auth' \in {"ValueError", "BadAuthenticationType"}
          /\ round' = round /\ right' = right
      BY <1>4 DEF AuthInteractive
    <2>2. AuthTypeOK'
      BY <1>1, <2>1 DEF AuthTypeOK, Ended, Raised
    <2>3. AuthPlace'
      BY <2>1 DEF AuthPlace
    <2>4. ~ CanLogIn
      <3> SUFFICES ASSUME CanLogIn PROVE FALSE
        OBVIOUS
      <3>1. TellsCode
        BY <1>1, DialogueLogIns
      <3>2. "keyboard-interactive" \in Following(accepted)
        <4>1. CASE AfterTheKey
          BY <4>1, DialogueLogIns, TwoMethods DEF AfterTheKey, Method
        <4>2. CASE WithoutKey
          BY <4>2, DialogueLogIns, FirstMethod DEF WithoutKey, Method
        <4> QED
          BY <1>1, <4>1, <4>2
      <3> QED
        BY <1>4, <3>1, <3>2 DEF TellsCode
    <2>5. GoodCredentialsLogIn'
      BY <1>2, <2>4 DEF GoodCredentialsLogIn
    <2> QED
      BY <2>2, <2>3, <2>5
  <1> QED
    BY <1>3, <1>4

\* Whoever can tell a dialogue everything is never asked what he cannot tell.
LEMMA AnswerRoundInv == AuthInv /\ AnswerRound => AuthInv'
  <1> SUFFICES ASSUME AuthInv, AnswerRound PROVE AuthInv'
    OBVIOUS
  <1> USE DEF AuthInv
  <1>1. /\ auth \in Dialogue
        /\ UNCHANGED <<server, login, accepted>>
    BY DEF AnswerRound
  <1>2. /\ CanLogIn' = CanLogIn /\ AfterTheKey' = AfterTheKey
        /\ WithoutKey' = WithoutKey /\ TellsCode' = TellsCode
        /\ OneByOne' = OneByOne /\ CanTell({})' = CanTell({})
    BY <1>1, SameServer DEF AfterTheKey, WithoutKey
  <1>3. /\ auth = "fallback" => WithoutKey /\ (OneByOne /\ CanTell({}) => right)
        /\ auth = "interactive" =>
              /\ AfterTheKey \/ (WithoutKey /\ ~ (OneByOne /\ CanTell({})))
              /\ login.totp # "none"
              /\ TellsCode => right
    BY DEF AuthPlace
  <1>4. round \in DOMAIN server.rounds /\ server.rounds[round] \in Seq(Prompt)
    <2>1. server.rounds \in Seq(Seq(Prompt)) /\ round \in Nat \ {0}
      BY ServerAssumption DEF AuthTypeOK
    <2>2. round <= Len(server.rounds)
      BY DEF AnswerRound
    <2> QED
      BY <2>1, <2>2
  <1>5. CASE Stuck
    <2>1. /\ auth' = IF auth = "interactive" \/ login.totp = "none"
                     THEN "ValueError" ELSE "SSHException"
          /\ round' = round /\ right' = right
      BY <1>5 DEF AnswerRound
    <2>2. AuthTypeOK'
      BY <1>1, <2>1 DEF AuthTypeOK, Ended, Raised
    <2>3. AuthPlace'
      BY <2>1 DEF AuthPlace
    <2>4. ~ CanLogIn
      <3> SUFFICES ASSUME CanLogIn PROVE FALSE
        OBVIOUS
      <3>2. CASE auth = "fallback"
        <4>1. OneByOne
          BY <1>3, <3>2, DialogueLogIns
        <4>2. Len(server.rounds[round]) > 1
          BY <1>5, <3>2 DEF Stuck, Prompts
        <4>3. Len(server.rounds[round]) \in Nat
          BY <1>4
        <4> QED
          BY <1>4, <4>1, <4>2, <4>3 DEF OneByOne
      <3>3. CASE auth = "interactive"
        <4>1. CanTell({"verification"})
          BY <1>3, <3>3, DialogueLogIns DEF TellsCode
        <4>2. \E j \in DOMAIN server.rounds[round] : server.rounds[round][j] = "other"
          BY <1>5, <3>3 DEF Stuck, Prompts
        <4> QED
          BY <1>4, <4>1, <4>2 DEF CanTell
      <3> QED
        BY <1>1, <3>2, <3>3 DEF Dialogue
    <2>5. GoodCredentialsLogIn'
      BY <1>2, <2>4 DEF GoodCredentialsLogIn
    <2> QED
      BY <2>2, <2>3, <2>5
  <1>6. CASE ~ Stuck
    <2>1. /\ right' = (right /\ \A j \in DOMAIN Prompts : AnswerRight(Prompts[j]))
          /\ round' = round + 1
          /\ auth' = auth
      BY <1>6 DEF AnswerRound
    <2>2. AuthTypeOK'
      BY <1>1, <2>1 DEF AuthTypeOK
    <2>3. auth = "fallback" /\ CanTell({}) =>
            \A j \in DOMAIN Prompts : AnswerRight(Prompts[j])
      BY <1>4 DEF Prompts, AnswerRight, CanTell
    <2>4. auth = "interactive" /\ TellsCode =>
            \A j \in DOMAIN Prompts : AnswerRight(Prompts[j])
      BY <1>4 DEF Prompts, AnswerRight, CanTell, TellsCode
    <2>5. AuthPlace'
      BY <1>1, <1>2, <1>3, <2>1, <2>3, <2>4 DEF AuthPlace, Dialogue
    <2>6. GoodCredentialsLogIn'
      BY <1>1, <2>1 DEF GoodCredentialsLogIn, Ended, Raised, Dialogue
    <2> QED
      BY <2>2, <2>5, <2>6
  <1> QED
    BY <1>5, <1>6

\* A dialogue that was answered right finishes the login.
LEMMA EndDialogueInv == AuthInv /\ EndDialogue => AuthInv'
  <1> SUFFICES ASSUME AuthInv, EndDialogue PROVE AuthInv'
    OBVIOUS
  <1> USE DEF AuthInv
  <1>1. auth \in Dialogue /\ UNCHANGED <<server, login, round, right>>
    BY DEF EndDialogue
  <1>2. /\ CanLogIn' = CanLogIn /\ KeyStarts' = KeyStarts /\ OneByOne' = OneByOne
        /\ CanTell({})' = CanTell({})
        /\ Following(<<>>)' = Following(<<>>)
    BY <1>1, SameServer
  <1>3. /\ auth = "fallback" => WithoutKey /\ (OneByOne /\ CanTell({}) => right)
        /\ auth = "interactive" =>
              /\ AfterTheKey \/ (WithoutKey /\ ~ (OneByOne /\ CanTell({})))
              /\ TellsCode => right
    BY DEF AuthPlace
  <1>4. CASE /\ accepted' = Append(accepted, "keyboard-interactive")
             /\ auth' = "returned"
    <2>1. /\ AfterTheKey => accepted' = <<"publickey", "keyboard-interactive">>
          /\ WithoutKey => accepted' = <<"keyboard-interactive">>
      <3>1. Append(<<>>, "keyboard-interactive") = <<"keyboard-interactive">>
        OBVIOUS
      <3>2. Append(<<"publickey">>, "keyboard-interactive")
              = <<"publickey", "keyboard-interactive">>
        BY AppendSecond
      <3> QED
        BY <1>4, <3>1, <3>2 DEF AfterTheKey, WithoutKey
    <2>2. accepted' \in Seq(Method)
      BY <1>4 DEF AuthTypeOK, Method
    <2>3. AuthTypeOK'
      BY <1>1, <1>4, <2>2 DEF AuthTypeOK, Ended
    <2>4. AuthPlace'
      BY <1>4 DEF AuthPlace
    <2>5. CanLogIn => accepted' \in server.chains
      BY <1>1, <1>3, <2>1, DialogueLogIns DEF Dialogue, Chain
    <2>6. GoodCredentialsLogIn'
      BY <1>1, <1>2, <1>4, <2>5 DEF GoodCredentialsLogIn, Authenticated
    <2> QED
      BY <2>3, <2>4, <2>6
  <1>5. CASE ~ right /\ auth' = AfterWrong(auth) /\ accepted' = accepted
    <2>1. /\ auth' \in {"two_factor", "AuthenticationException"}
          /\ auth' = "two_factor" => auth = "fallback"
          /\ auth' = "AuthenticationException" => auth = "interactive"
      BY <1>1, <1>5 DEF AfterWrong, Dialogue
    <2>2. AuthTypeOK'
      BY <1>1, <1>5, <2>1 DEF AuthTypeOK, Ended, Raised
    <2>3. auth' = "two_factor" => WithoutKey' /\ ~ (OneByOne /\ CanTell({}))'
      BY <1>2, <1>3, <1>5, <2>1 DEF WithoutKey
    <2>4. AuthPlace'
      BY <2>1, <2>3 DEF AuthPlace
    <2>5. auth = "interactive" => ~ CanLogIn
      <3> SUFFICES ASSUME auth = "interactive", CanLogIn PROVE FALSE
        OBVIOUS
      <3>1. ~ TellsCode
        BY <1>3, <1>5
      <3> QED
        BY <1>3, <3>1, DialogueLogIns
    <2>6. GoodCredentialsLogIn'
      BY <1>2, <2>1, <2>5 DEF GoodCredentialsLogIn, Ended, Raised
    <2> QED
      BY <2>2, <2>4, <2>6
  <1> QED
    BY <1>4, <1>5 DEF EndDialogue

\* The invariant is inductive.
LEMMA AuthInductive == AuthInv /\ [AuthNext]_session => AuthInv'
  <1> SUFFICES ASSUME AuthInv, [AuthNext]_session PROVE AuthInv'
    OBVIOUS
  <1>1. CASE UNCHANGED session
    <2> USE <1>1 DEF session
    <2>1. /\ CanLogIn' = CanLogIn /\ KeyStarts' = KeyStarts
          /\ OneByOne' = OneByOne /\ CanTell({})' = CanTell({})
          /\ TellsCode' = TellsCode /\ Following(<<>>)' = Following(<<>>)
          /\ Chain(<<"publickey">>)' = Chain(<<"publickey">>)
      BY SameServer
    <2>2. /\ AfterTheKey' = AfterTheKey /\ WithoutKey' = WithoutKey
          /\ NothingYet' = NothingYet /\ Authenticated' = Authenticated
      BY <2>1 DEF AfterTheKey, WithoutKey, NothingYet, Authenticated
    <2>3. AuthPlace'
      BY <2>1, <2>2 DEF AuthInv, AuthPlace
    <2>4. AuthTypeOK'
      BY DEF AuthInv, AuthTypeOK
    <2>5. GoodCredentialsLogIn'
      BY <2>1, <2>2 DEF AuthInv, GoodCredentialsLogIn
    <2> QED
      BY <2>3, <2>4, <2>5 DEF AuthInv
  <1> QED
    BY <1>1, StartAuthInv, TryPublickeyInv, TryPasswordInv, AuthInteractiveInv,
       AnswerRoundInv, EndDialogueInv
    DEF AuthNext, AuthStep

LEMMA AuthInvHolds == AuthSpec => []AuthInv
  BY AuthInitInv, AuthInductive, PTL DEF AuthSpec

-----------------------------------------------------------------------------

\* Type correctness of the login, whatever methods the server asks for.
THEOREM AuthTypeCorrect == AuthSpec => []AuthTypeOK
  <1>1. AuthInv => AuthTypeOK
    BY DEF AuthInv
  <1> QED
    BY <1>1, AuthInvHolds, PTL

\* Who has what the server asks for is logged in, whatever other methods the
\* server accepts and whatever is tried before the right one.
THEOREM GoodCredentialsLogInHolds == AuthSpec => []GoodCredentialsLogIn
  <1>1. AuthInv => GoodCredentialsLogIn
    BY DEF AuthInv
  <1> QED
    BY <1>1, AuthInvHolds, PTL

=================================================================================
