---------------------------- MODULE SequenceOps -----------------------------
(***************************************************************************)
(* The few operators of the community module SequencesExt that the models  *)
(* use, under its names and with its meaning.  SequencesExt itself extends *)
(* Bags, whose library of theorems makes a proof about a module that       *)
(* extends it several times slower.                                        *)
(***************************************************************************)
EXTENDS Naturals, Sequences

Last(s) == s[Len(s)]

RemoveAt(s, p) == SubSeq(s, 1, p - 1) \o SubSeq(s, p + 1, Len(s))

IsPrefix(s, t) == Len(s) <= Len(t) /\ \A i \in 1..Len(s) : s[i] = t[i]

\* The concatenation of the elements of ss.
FlattenSeq(ss) ==
    LET upto[i \in 1..Len(ss)] == IF i = 1 THEN ss[i] ELSE upto[i - 1] \o ss[i]
    IN  IF ss = <<>> THEN <<>> ELSE upto[Len(ss)]

=============================================================================
