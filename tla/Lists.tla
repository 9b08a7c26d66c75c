------------------------------- MODULE Lists -------------------------------
(***************************************************************************)
(* What the operator does with lists: it keeps the elements that pass a    *)
(* test (Iterator::filter), and it stops at the first problem (an early    *)
(* return).  The test is given as the set of the positions that pass it,   *)
(* so that facts about these operators can be stated and proved.           *)
(***************************************************************************)
EXTENDS Integers, Sequences, Option

\* Filtered(s, positions)[n]: what is left of the first n elements.
Filtered(s, positions) ==
  LET kept[n \in 0 .. Len(s)] ==
        IF n = 0 THEN <<>>
        ELSE IF n \in positions THEN Append(kept[n - 1], s[n]) ELSE kept[n - 1]
  IN  kept
Subsequence(s, positions) == Filtered(s, positions)[Len(s)]

\* Findings are None where nothing is wrong.
ProblemIf(wrong, problem) == IF wrong THEN problem ELSE None

FirstProblem(findings) ==
  IF \A i \in DOMAIN findings : findings[i] = None THEN None
  ELSE findings[CHOOSE i \in DOMAIN findings :
                  /\ findings[i] # None
                  /\ \A j \in 1 .. i - 1 : findings[j] = None]
=============================================================================
