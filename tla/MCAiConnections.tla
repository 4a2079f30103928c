--------------------------- MODULE MCAiConnections ---------------------------
(***************************************************************************)
(* The independent parts of the AI connections in one run, the reference   *)
(* tool of the author's model among them: the initial state says which of  *)
(* them moves.                                                             *)
(***************************************************************************)
EXTENDS CodexAccount, ModelAuthor, RuntimeModels, ReferenceReads

VARIABLE part

AiVars == <<part, codexVars, modelVars, modelCallVars, readVars>>

\* The parts that rest start from one initial state.
AiInit ==
  /\ part \in {"codex", "model", "calls", "reads"}
  /\ CodexInit /\ ModelInit /\ ModelCallsInit /\ ReadsInit
  /\ part # "reads" =>
       tool = [docs |-> CHOOSE docs \in Docs : TRUE, online |-> TRUE, granted |-> TRUE]

AiNext ==
  /\ \/ part = "codex" /\ CodexNext /\ UNCHANGED <<modelVars, modelCallVars, readVars>>
     \/ part = "model" /\ ModelNext /\ UNCHANGED <<codexVars, modelCallVars, readVars>>
     \/ part = "calls" /\ ModelCallsNext /\ UNCHANGED <<codexVars, modelVars, readVars>>
     \/ part = "reads" /\ ReadsNext /\ UNCHANGED <<codexVars, modelVars, modelCallVars>>
  /\ UNCHANGED part

\* What must happen is asked of the part over a model provider alone.
AiSpec == AiInit /\ [][AiNext]_AiVars /\ ModelFairness
=============================================================================
