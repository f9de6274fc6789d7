----------------------------- MODULE FuzzyMatch -----------------------------
(***************************************************************************)
(* How a query finds applications (maindeck-menu.c): its letters are       *)
(* looked for in the name, each from where the one before was found, and   *)
(* if that fails in the command.  A score orders what is found.            *)
(* Positions count from 1; letters are taken in lower case.                *)
(***************************************************************************)
EXTENDS Integers, Sequences, FiniteSets, SequencesExt

CONSTANTS
  App,                 \* applications
  Name, Exec,          \* [App -> sequences of letters]
  Separator,           \* letters that end a word
  Alphabetical         \* the applications by name

ASSUME FuzzyAssumption ==
  /\ DOMAIN Name = App /\ DOMAIN Exec = App
  /\ \A a \in App : Name[a] \in Seq(Range(Name[a])) /\ Exec[a] \in Seq(Range(Exec[a]))
  /\ Alphabetical \in Seq(App)
  /\ Range(Alphabetical) = App /\ IsInjective(Alphabetical)

\* (Slip: a letter may be found where the one before was.)
NextMatch_Again(str, acc, target) ==
  SelectInSubSeq(str, IF acc.last < 1 THEN 1 ELSE acc.last, Len(str), LAMBDA c : c = target)

\* The first place after the last match where the letter is, 0 if there is none.
NextMatch(str, acc, target) ==
  SelectInSubSeq(str, acc.last + 1, Len(str), LAMBDA c : c = target)

\* One letter: ten points, more for each in a row, fifteen at the start of a word.
MatchLetter(str, acc, target) ==
  LET idx == NextMatch(str, acc, target)
      consecutive == IF idx = acc.last + 1 /\ acc.last > 0 THEN acc.consecutive + 1 ELSE 0
      starts == idx = 1 \/ str[idx - 1] \in Separator
  IN  IF ~acc.found \/ idx = 0 THEN [acc EXCEPT !.found = FALSE]
      ELSE [found |-> TRUE, last |-> idx, consecutive |-> consecutive,
            score |-> acc.score + 10 + 5 * consecutive + IF starts THEN 15 ELSE 0]

\* How the letters of q were found, one after the other.
Matching(str, q) ==
  LET match[k \in 0..Len(q)] ==
        IF k = 0 THEN [found |-> TRUE, last |-> 0, consecutive |-> 0, score |-> 0]
        ELSE MatchLetter(str, match[k - 1], q[k])
  IN  match

fuzzy_match(str, q) == Matching(str, q)[Len(q)]

\* The score of a, halved if only its command matches; -1 if nothing does.
Score(a, q) ==
  LET name == fuzzy_match(Name[a], q)
      exec == fuzzy_match(Exec[a], q)
  IN  IF name.found THEN name.score ELSE IF exec.found THEN exec.score \div 2 ELSE -1

Place(a) == SelectInSeq(Alphabetical, LAMBDA b : b = a)

\* Best first, equals by name.
compare_apps_fuzzy(a, b, q) ==
  LET score_a == Score(a, q)
      score_b == Score(b, q)
  IN  score_a > score_b \/ (score_a = score_b /\ Place(a) < Place(b))

Found(q) == {a \in App : Score(a, q) >= 0}

\* Sorted: the i-th found has i - 1 of them before it.
Filtered(q) ==
  LET found == Found(q)
      before == {p \in found \X found : compare_apps_fuzzy(p[1], p[2], q)}
  IN  IF q = <<>> THEN Alphabetical
      ELSE [i \in 1..Cardinality(found) |->
              CHOOSE a \in found : Cardinality({b \in found : <<b, a>> \in before}) = i - 1]

\* What the search is to decide: q can be had from str by leaving letters out.
IsSubsequence(q, str) ==
  \E at \in [DOMAIN q -> DOMAIN str] :
    /\ \A i \in DOMAIN q : str[at[i]] = q[i]
    /\ \A i, j \in DOMAIN q : i < j => at[i] < at[j]

=============================================================================
