------------------------------- MODULE Lists --------------------------------
(***************************************************************************)
(* Lists that are built from the elements of a list, one after the other:  *)
(* the loops of the request conversions that append.                       *)
(***************************************************************************)
EXTENDS SequencesExt

\* What convert makes of the elements of s.
Each(convert(_), s) == FlattenSeq([i \in DOMAIN s |-> convert(s[i])])

\* The elements of s that pass test.
Where(s, test(_)) == Each(LAMBDA x : IF test(x) THEN <<x>> ELSE <<>>, s)
=============================================================================
