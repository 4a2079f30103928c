----------------------------- MODULE MCClients -----------------------------
(***************************************************************************)
(* What stands before the services: the front end of the Studio, the       *)
(* conversation its author holds with the assistant, the page of the       *)
(* player with its executor, the launcher of players, and the plans a      *)
(* player plays.  They meet only through services that other modules       *)
(* describe, so each moves alone; the initial state says which.            *)
(***************************************************************************)
EXTENDS Studio, AuthorConversation, PlayerPage, PlayerLaunch, MCPresentationPlans, TLC

CONSTANT FewShows   \* bound on the generations of the executor on its own

VARIABLE part

DesksOfOnePanel == {{p} : p \in Panels}
TwoPlaytests == {<<"d1", "p1">>, <<"d1", "p2">>, <<"d2", "p1">>}

Symmetry == Permutations(Quests) \cup Permutations(Handlers)

PlansRest ==
  /\ tree = (<<>> :> Wait) /\ fromState = <<>> /\ target = <<>> /\ playedState = <<>> /\ playedPaths = {}

MCInstructions == [text : {"i"}, resume : BOOLEAN]

ClientsVars == <<part, studioVars, conversationVars, playerVars, launchVars, planVars>>

ClientsInit ==
  /\ part \in {"studio", "conversation", "page", "executor", "launch", "plans"}
  /\ PlayerInit /\ LaunchInit /\ ConversationInit
  /\ IF part = "studio" THEN StudioInit ELSE StudioInit /\ desk = {"session"}
  /\ IF part = "plans" THEN PlansInit ELSE PlansRest

ClientsNext ==
  /\ \/ /\ part = "studio" /\ StudioNext
        /\ UNCHANGED <<conversationVars, playerVars, launchVars, planVars>>
     \/ /\ part = "conversation" /\ ConversationNext
        /\ UNCHANGED <<studioVars, playerVars, launchVars, planVars>>
     \/ /\ part = "page" /\ PlayerNext
        /\ UNCHANGED <<studioVars, conversationVars, launchVars, planVars>>
     \/ /\ part = "executor" /\ ExecutorNext /\ shows' <= FewShows
        /\ UNCHANGED <<studioVars, conversationVars, pageVars, launchVars, planVars>>
     \/ /\ part = "launch" /\ LaunchNext
        /\ UNCHANGED <<studioVars, conversationVars, playerVars, planVars>>
     \/ /\ part = "plans" /\ PlayCommand
        /\ UNCHANGED <<studioVars, conversationVars, playerVars, launchVars>>
  /\ UNCHANGED part

ClientsSpec == ClientsInit /\ [][ClientsNext]_ClientsVars
=============================================================================
