---------------------------- MODULE PrimaryDomain ----------------------------
(***************************************************************************)
(* is_same_primary_domain of webssh's utils.py: do two host names have the *)
(* same primary domain?  It compares them character by character from the  *)
(* right and counts the dots that both have.                               *)
(*                                                                         *)
(* A call goes through the loop one character per step.  What the result   *)
(* should be is stated without the loop: the names are equal, or they both *)
(* end in the same two labels.                                             *)
(***************************************************************************)
EXTENDS Integers, Sequences

CONSTANTS
    Char,   \* the characters of host names
    Dot,    \* the one between labels
    Domain  \* the names that are compared

ASSUME DomainAssumption == Domain \subseteq Seq(Char)

VARIABLES
    domain1,  \* the arguments
    domain2,
    i,        \* the next character, counted from the right: -1 is the last one
    dots,     \* dots seen so far
    same      \* the result

comparison == <<domain1, domain2, i, dots, same>>

\* Every variable has its type.
ComparisonTypeOK ==
    /\ domain1 \in Domain \cup {<<>>}
    /\ domain2 \in Domain \cup {<<>>}
    /\ i \in Int
    /\ dots \in 0..2
    /\ same \in {"idle", "comparing", "yes", "no"}

ComparisonInit ==
    /\ domain1 = <<>>
    /\ domain2 = <<>>
    /\ i = -1
    /\ dots = 0
    /\ same = "idle"

-----------------------------------------------------------------------------

\* s[j] of Python, for a negative j.
At(s, j) == s[Len(s) + 1 + j]

Shorter(s, t) == IF Len(s) < Len(t) THEN Len(s) ELSE Len(t)

Result(b) == same' = IF b THEN "yes" ELSE "no"

\* The call.
Compare(d1, d2) ==
    /\ same = "idle"
    /\ same' = "comparing"
    /\ domain1' = d1
    /\ domain2' = d2
    /\ UNCHANGED <<i, dots>>

\* The return inside the loop.
Enough(n) == n = 2

\* One round of the loop.
CompareChar ==
    /\ same = "comparing"
    /\ i >= - Shorter(domain1, domain2)
    /\ \/ /\ At(domain1, i) # At(domain2, i)
          /\ Result(FALSE)
          /\ UNCHANGED <<i, dots>>
       \/ /\ At(domain1, i) = At(domain2, i)
          /\ dots' = IF At(domain1, i) = Dot THEN dots + 1 ELSE dots
          /\ IF At(domain1, i) = Dot /\ Enough(dots')
             THEN Result(TRUE) /\ i' = i
             ELSE i' = i - 1 /\ same' = same
    /\ UNCHANGED <<domain1, domain2>>

\* Mutant: the name that ends first need not end at a dot of the other.
EndsAtDotAlways(s, t, j) == TRUE

\* The shorter name is at its end; the longer one goes on at j.
EndsAtDot(s, t, j) == At(IF Len(s) > Shorter(s, t) THEN s ELSE t, j) = Dot

\* After the loop.
EndOfLoop ==
    /\ same = "comparing"
    /\ i < - Shorter(domain1, domain2)
    /\ Result(\/ Len(domain1) = Len(domain2)
              \/ dots # 0 /\ EndsAtDot(domain1, domain2, i))
    /\ UNCHANGED <<domain1, domain2, i, dots>>

ComparisonNext ==
    \/ \E d1, d2 \in Domain : Compare(d1, d2)
    \/ CompareChar
    \/ EndOfLoop

ComparisonSpec == ComparisonInit /\ [][ComparisonNext]_comparison

-----------------------------------------------------------------------------
(* What it should say                                                        *)

\* The last n characters of s are its last two labels: they hold one dot, and
\* nothing or another dot is before them.
LastTwoLabels(s, n) ==
    /\ n \in 1..Len(s)
    /\ \E j \in 1..n : /\ At(s, -j) = Dot
                       /\ \A k \in 1..n : At(s, -k) = Dot => k = j
    /\ n = Len(s) \/ At(s, -n - 1) = Dot

SameEnd(s, t, n) == \A j \in 1..n : At(s, -j) = At(t, -j)

SamePrimaryDomain(s, t) ==
    \/ s = t
    \/ \E n \in 1..Shorter(s, t) :
          LastTwoLabels(s, n) /\ LastTwoLabels(t, n) /\ SameEnd(s, t, n)

\* Two names are found to have the same primary domain if they are equal or
\* their last two labels are, wherever they start to differ, whichever is
\* longer and wherever their dots are.
ComparesPrimaryDomains ==
    /\ same = "yes" => SamePrimaryDomain(domain1, domain2)
    /\ same = "no" => ~ SamePrimaryDomain(domain1, domain2)

===============================================================================
