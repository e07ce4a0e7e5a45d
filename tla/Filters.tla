------------------------------ MODULE Filters ------------------------------
(****************************************************************************)
(* What is left of a sequence by a filter: Vec::retain, and the filters of  *)
(* its iterators.                                                           *)
(****************************************************************************)
EXTENDS SequencesExt

\* The members of s that are in S, in their order.
Retained(s, S) == FlattenSeq([i \in DOMAIN s |-> IF s[i] \in S THEN <<s[i]>> ELSE <<>>])

============================================================================
