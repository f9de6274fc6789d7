------------------------------- MODULE WlList -------------------------------
(***************************************************************************)
(* Lists of distinct things, as the wl_list of libwayland keeps them: what *)
(* maindeck does with its lists, on sequences.  (External: libwayland is   *)
(* not part of the repository.)                                            *)
(***************************************************************************)
EXTENDS Integers, FiniteSets, SequencesExt

\* The member of a set of indices that n others precede.
Nth(I, n) == CHOOSE i \in I : Cardinality({j \in I : j < i}) = n

\* The elements of s at the indices I, in order (SelectSeq, stated by index so
\* that facts about it follow from facts about cardinalities).
At(s, I) == [n \in 1..Cardinality(I) |-> s[Nth(I, n - 1)]]

\* wl_list_remove
Without(s, x) == At(s, {i \in DOMAIN s : s[i] # x})

\* wl_list_remove of all members of D, during a wl_list_for_each_safe.
Drop(s, D) == At(s, {i \in DOMAIN s : s[i] \notin D})

=============================================================================
