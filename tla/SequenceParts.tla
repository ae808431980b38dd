--------------------------- MODULE SequenceParts ---------------------------
(***************************************************************************)
(* What the specifications of names, stacks and owned mappings need of      *)
(* sequences beyond Sequences: the ends of one, whether one begins another, *)
(* and a fold in order, from the fold over sets of the module Folds.        *)
(*                                                                          *)
(* SequencesExt has operators for these, among a hundred others that it     *)
(* brings into scope together with bags and TLC.  Every definition in scope *)
(* weighs on each step of a proof, so the modules that proofs extend take   *)
(* these four.                                                              *)
(***************************************************************************)
EXTENDS FiniteSetsExt, Sequences

LastOf(s) == s[Len(s)]

AllButLast(s) == SubSeq(s, 1, Len(s) - 1)

\* s is the beginning of t, or all of it.
Begins(s, t) == Len(s) <= Len(t) /\ s = SubSeq(t, 1, Len(s))

\* step applied to the elements of s from the first to the last.
FoldInOrder(step(_, _), base, s) ==
    MapThenFoldSet(LAMBDA x, acc : step(acc, x), base, LAMBDA i : s[i], LAMBDA set : Max(set), DOMAIN s)
=============================================================================
