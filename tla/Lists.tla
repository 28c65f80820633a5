-------------------------------- MODULE Lists --------------------------------
(***************************************************************************)
(* The loops of the loaders and of the portfolio service that go through a *)
(* list and append what they want of it to another one.                    *)
(***************************************************************************)
EXTENDS SequencesExt

\* The elements of s that are in S, in their order: the others are skipped.
Keep(s, S) == FlattenSeq([k \in DOMAIN s |-> IF s[k] \in S THEN <<s[k]>> ELSE <<>>])
===============================================================================
