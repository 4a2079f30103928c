---------------------------- MODULE PlayerLaunch ----------------------------
(***************************************************************************)
(* launchFrozenPlayer: the players of a Studio process.  Launches and       *)
(* closings queue on one chain of promises, and the operation at its head   *)
(* works alone through every await.  A player is a runtime server, the      *)
(* server of its page and three handles on one database; it is named by the *)
(* launch that started it.                                                  *)
(***************************************************************************)
EXTENDS Naturals, Sequences, FiniteSets, SequencesExt

CONSTANTS
  LaunchCalls,   \* launches and closings asked of the module
  Playtests, Databases,
  Startable,     \* <<database, playtest>>: frozen, supported, with complete display data
  NoPlayer

ASSUME NoPlayerAssumption == NoPlayer \notin LaunchCalls

VARIABLES
  managedPlayers,   \* playtest -> player, or NoPlayer
  playerChain,      \* playerOperationChain: the operations not yet over
  launchCalls,      \* the operations
  opened            \* <<kind, player>>: the servers listening and the handles open

launchVars == <<managedPlayers, playerChain, launchCalls, opened>>

Handles == {"control", "raw", "guest"}
Of(kinds, c) == kinds \X {c}
IdsManaged == {p \in Playtests : managedPlayers[p] # NoPlayer}

LaunchInit ==
  /\ managedPlayers = [p \in Playtests |-> NoPlayer]
  /\ playerChain = <<>> /\ opened = {}
  /\ launchCalls = [c \in LaunchCalls |-> [step |-> "new"]]

At(c, step) == launchCalls[c].step = step

\* Operations run one after another, whatever the one before answered.
Runs(c) == playerChain # <<>> /\ Head(playerChain) = c

On(c, step) == Runs(c) /\ At(c, step)
Proceeds(c, step) ==
  launchCalls' = [launchCalls EXCEPT ![c].step = step] /\ UNCHANGED playerChain
Settles(c, answer) ==
  /\ launchCalls' = [launchCalls EXCEPT ![c] = [step |-> "over", answer |-> answer, database |-> @.database]]
  /\ playerChain' = Tail(playerChain)

Asks(c) ==
  /\ At(c, "new")
  /\ \E op \in {"launch", "close", "close all"}, p \in Playtests, d \in Databases :
       launchCalls' = [launchCalls EXCEPT
         ![c] = [step |-> "asked", op |-> op, playtest |-> p, database |-> d,
                 closing |-> {}, stops |-> NoPlayer]]
  /\ playerChain' = Append(playerChain, c)
  /\ UNCHANGED <<managedPlayers, opened>>

\* A launch is answered with the player that runs for its playtest on the same
\* database; any other launch first closes every player.
Begins(c) ==
  LET call == launchCalls[c]
      running == managedPlayers[call.playtest]
      reuses == call.op = "launch" /\ running # NoPlayer /\ launchCalls[running].database = call.database
      ids == IF call.op = "close" THEN {call.playtest} \cap IdsManaged ELSE IdsManaged
  IN /\ On(c, "asked")
     /\ IF reuses THEN Settles(c, running)
        ELSE /\ launchCalls' = [launchCalls EXCEPT ![c].step = "closing", ![c].closing = ids]
             /\ UNCHANGED playerChain
     /\ UNCHANGED <<managedPlayers, opened>>

(***************************************************************************)
(* Closing: the player is forgotten first, then its page server waits for  *)
(* its connections, then its runtime, then the handles are closed.         *)
(***************************************************************************)
Forgets(c) ==
  /\ On(c, "closing")
  /\ \E p \in launchCalls[c].closing :
       /\ launchCalls' = [launchCalls EXCEPT
            ![c].step = IF managedPlayers[p] = NoPlayer THEN "closing" ELSE "stopping player",
            ![c].closing = @ \ {p}, ![c].stops = managedPlayers[p]]
       /\ managedPlayers' = [managedPlayers EXCEPT ![p] = NoPlayer]
  /\ UNCHANGED <<playerChain, opened>>

PlayerStops(c) ==
  /\ On(c, "stopping player")
  /\ opened' = opened \ Of({"player"}, launchCalls[c].stops)
  /\ Proceeds(c, "stopping runtime") /\ UNCHANGED managedPlayers

\* A handle that cannot be closed fails the operation, after the others are.
RuntimeStops(c) ==
  LET h == launchCalls[c].stops IN
  /\ On(c, "stopping runtime")
  /\ \E left \in SUBSET Handles :
       /\ opened' = opened \ Of({"runtime"} \cup (Handles \ left), h)
       /\ IF left = {} THEN Proceeds(c, "closing") ELSE Settles(c, "thrown")
  /\ UNCHANGED managedPlayers

Closed(c) ==
  /\ On(c, "closing") /\ launchCalls[c].closing = {}
  /\ IF launchCalls[c].op = "launch" THEN Proceeds(c, "starting") ELSE Settles(c, "closed")
  /\ UNCHANGED <<managedPlayers, opened>>

(***************************************************************************)
(* Starting.                                                               *)
(***************************************************************************)
OpensControl(c) ==
  /\ On(c, "starting")
  /\ \/ Settles(c, "thrown") /\ UNCHANGED opened
     \/ Proceeds(c, "reading") /\ opened' = opened \cup Of({"control"}, c)
  /\ UNCHANGED managedPlayers

\* The playtest is read and the modules are imported.
ReadsPlaytest(c) ==
  /\ On(c, "reading")
  /\ \/ /\ <<launchCalls[c].database, launchCalls[c].playtest>> \in Startable
        /\ Proceeds(c, "importing") /\ UNCHANGED opened
     \/ Settles(c, "refused") /\ opened' = opened \ Of({"control"}, c)
  /\ UNCHANGED managedPlayers

\* A constructor that throws leaves open what was opened before it, except
\* for the control store.
OpensStorage(c) ==
  /\ On(c, "importing")
  /\ \/ /\ \E some \in {{}, {"raw"}, {"raw", "guest"}} :
             opened' = (opened \ Of({"control"}, c)) \cup Of(some, c)
        /\ Settles(c, "refused")
     \/ /\ opened' = opened \cup Of(Handles, c)
        /\ Proceeds(c, "runtime listens")
  /\ UNCHANGED managedPlayers

\* The page server is made without an await once the runtime listens.  It refuses options
\* that the launch never gives it (createPlayerDevServer); that throw, after which the
\* runtime would go on listening, is left out.
RuntimeListens(c) ==
  /\ On(c, "runtime listens")
  /\ \/ opened' = opened \cup Of({"runtime"}, c) /\ Proceeds(c, "player listens")
     \/ opened' = opened \ Of(Handles, c) /\ Settles(c, "refused")
  /\ UNCHANGED managedPlayers

PlayerListens(c) ==
  /\ On(c, "player listens")
  /\ \/ /\ opened' = opened \cup Of({"player"}, c)
        /\ managedPlayers' = [managedPlayers EXCEPT ![launchCalls[c].playtest] = c]
        /\ Settles(c, c)
     \/ Proceeds(c, "giving up") /\ UNCHANGED <<managedPlayers, opened>>

\* A bug: only what was opened last is closed again.
GivesUpHalfway(c) ==
  /\ On(c, "giving up")
  /\ opened' = opened \ Of(Handles, c)
  /\ Settles(c, "refused") /\ UNCHANGED managedPlayers

GivesUp(c) ==
  /\ On(c, "giving up")
  /\ opened' = opened \ Of({"runtime"} \cup Handles, c)
  /\ Settles(c, "refused") /\ UNCHANGED managedPlayers

LaunchNext ==
  \E c \in LaunchCalls :
    \/ Asks(c) \/ Begins(c)
    \/ Forgets(c) \/ PlayerStops(c) \/ RuntimeStops(c) \/ Closed(c)
    \/ OpensControl(c) \/ ReadsPlaytest(c) \/ OpensStorage(c)
    \/ RuntimeListens(c) \/ PlayerListens(c) \/ GivesUp(c)

LaunchSpec == LaunchInit /\ [][LaunchNext]_launchVars

(***************************************************************************)
(* Properties.                                                             *)
(***************************************************************************)
\* However launches and closings are asked for, and whichever step of one
\* fails: at most one player listens, every player of the map is whole, and
\* when no operation is left no server listens outside the map.
OnePlayerListens ==
  LET playing == {c \in LaunchCalls : <<"player", c>> \in opened}
      known == {managedPlayers[p] : p \in IdsManaged}
      serving == {c \in LaunchCalls : Of({"player", "runtime"}, c) \cap opened # {}}
  IN /\ Cardinality(playing) <= 1
     /\ \A c \in known : Of({"player", "runtime"} \cup Handles, c) \subseteq opened
     /\ playerChain = <<>> => serving \subseteq known
=============================================================================
