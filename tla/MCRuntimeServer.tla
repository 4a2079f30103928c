---------------------------- MODULE MCRuntimeServer ----------------------------
(* Instances of RuntimeServer for TLC.                                     *)
EXTENDS RuntimeServer, TLC, SequencesExt

MCHashes == [revision : 0..MaxSafe, clarification : Keys \cup {NoKey}]
MCResponses == [kind : {"action_result", "needs_clarification", "unsupported", "failed"},
                text : Texts]
MCTurnIds == Sessions \X Keys
MCWorlds == BoundedSeq(Keys, MaxSafe)
MCInitialWorld == <<>>

Symmetry == Permutations(Keys) \cup Permutations(Handlers) \cup Permutations(Texts)
===============================================================================
