------------------------------ MODULE Sublists ------------------------------
(***************************************************************************)
(* filter and flatMap, as the services use them on lists.  They are folds, *)
(* so that they can be proved about, where SelectSeq and FlattenSeq, which *)
(* are recursive functions of their own, cannot.                           *)
(***************************************************************************)
EXTENDS Sequences, SequencesExt

\* The elements of a sequence that are in S, in their order.
Keep(S, kept, x) == IF x \in S THEN Append(kept, x) ELSE kept
Within(seq, S) == FoldLeft(LAMBDA kept, x : Keep(S, kept, x), <<>>, seq)

\* The elements of all sequences of a sequence.
Joined(seqs) == FoldLeft(LAMBDA joined, s : joined \o s, <<>>, seqs)
=============================================================================
