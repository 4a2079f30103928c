------------------------- MODULE MCAuthorAssistant -------------------------
(***************************************************************************)
(* One job about one quest.                                                *)
(***************************************************************************)
EXTENDS AuthorAssistant, TLC
CONSTANTS k1, k2
MCKeys == {k1, k2}
MCSymmetry == Permutations(MCKeys)
=============================================================================
