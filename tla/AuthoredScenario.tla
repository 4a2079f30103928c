-------------------------- MODULE AuthoredScenario --------------------------
(***************************************************************************)
(* The interpreter of authored scenarios and the action handler of its     *)
(* server over RuntimeStorage.  A scenario is a list of beats; a session   *)
(* at revision n is offered the options of beat n, and an option does what *)
(* its first case that holds says, or what it says itself.                 *)
(*                                                                         *)
(* A world is one resource, who holds one item, the clock and whether the  *)
(* story has ended; its revision is the session's.  A condition is a test, *)
(* or all, any or none of a list of tests; an entity that Holders does not *)
(* have is a reference that leads nowhere.                                 *)
(***************************************************************************)
EXTENDS RuntimeStorage

CONSTANTS
  Scenarios,      \* beats as authors may hand them in
  OptionIds,      \* ids an option may have
  Names,          \* ids a condition or an effect may have for an entity
  Holders,        \* the entities of the world
  MaxResource,    \* upper bound of the resource; the lower one is 0
  MaxOptions,     \* MAX_OPTIONS_PER_BEAT
  Handlers        \* requests the server may be working on at the same time

VARIABLES
  scenario,       \* the beats of the release that sessions are pinned to
  handler

authoredVars == <<now, session, operation, turns, scenario, handler>>

(***************************************************************************)
(* Conditions and effects (packages/core).                                 *)
(***************************************************************************)
Tests == [type : {"resource.atLeast"}, value : Int] \cup [type : {"item.heldBy"}, holder : Names]
Conditions == [type : {"all", "any", "none"}, of : Seq(Tests)]
Effects == [type : {"resource.change"}, delta : Int] \cup [type : {"item.transfer"}, holder : Names]

Test(c, world) ==
  CASE c.type = "resource.atLeast" -> IF world.resource >= c.value THEN "holds" ELSE "fails"
    [] c.type = "item.heldBy" -> IF c.holder \notin Holders THEN "broken"
                                 ELSE IF world.holder = c.holder THEN "holds" ELSE "fails"

\* A bug: a list of tests is not read to its end once the result is known.
EvaluateShort(c, world) ==
  LET verdicts == {Test(c.of[i], world) : i \in DOMAIN c.of} IN
  CASE c.type = "all" -> IF "fails" \in verdicts THEN "fails"
                         ELSE IF "broken" \in verdicts THEN "broken" ELSE "holds"
    [] c.type = "any" -> IF "holds" \in verdicts THEN "holds"
                         ELSE IF "broken" \in verdicts THEN "broken" ELSE "fails"
    [] c.type = "none" -> IF "holds" \in verdicts THEN "fails"
                          ELSE IF "broken" \in verdicts THEN "broken" ELSE "holds"

Evaluate(c, world) ==
  LET verdicts == {Test(c.of[i], world) : i \in DOMAIN c.of} IN
  CASE "broken" \in verdicts -> "broken"
    [] "broken" \notin verdicts /\ c.type = "all" ->
         IF "fails" \in verdicts THEN "fails" ELSE "holds"
    [] "broken" \notin verdicts /\ c.type = "any" ->
         IF "holds" \in verdicts THEN "holds" ELSE "fails"
    [] "broken" \notin verdicts /\ c.type = "none" ->
         IF "holds" \in verdicts THEN "fails" ELSE "holds"

Refused == [refused |-> TRUE]

Applied(world, e) ==
  CASE e.type = "resource.change" ->
         IF world.resource + e.delta \in 0..MaxResource
         THEN [world EXCEPT !.resource = @ + e.delta] ELSE Refused
    [] e.type = "item.transfer" ->
         IF e.holder \in Holders THEN [world EXCEPT !.holder = e.holder] ELSE Refused

\* All effects on a copy of the world, or none.
TryApplyEffectBatch(world, effects) ==
  LET after[n \in 0..Len(effects)] ==
        IF n = 0 THEN world
        ELSE IF after[n - 1] = Refused THEN Refused ELSE Applied(after[n - 1], effects[n])
  IN after[Len(effects)]

(***************************************************************************)
(* Scenarios.                                                              *)
(***************************************************************************)
Statuses == {"executed", "conditional", "blocked"}
OptionCase == [when : Conditions, status : Statuses, effects : Seq(Effects), terminal : BOOLEAN]
ScenarioOption == [id : OptionIds, status : Statuses, advance : Nat, effects : Seq(Effects),
                   terminal : BOOLEAN, cases : Seq(OptionCase)]

NormalizeCase(c) ==
  /\ Evaluate(c.when, InitialWorld) # "broken"
  /\ c.status = "blocked" => c.effects = <<>> /\ ~c.terminal

OptionPlaces(beats) == {p \in (DOMAIN beats) \X (1..MaxOptions) : p[2] \in DOMAIN beats[p[1]]}
OptionAt(beats, p) == beats[p[1]][p[2]]

NormalizeScenario(beats) ==
  /\ beats # <<>>
  /\ \A b \in DOMAIN beats : Len(beats[b]) \in 1..MaxOptions
  /\ \A p, q \in OptionPlaces(beats) : OptionAt(beats, p).id = OptionAt(beats, q).id => p = q
  /\ \A p \in OptionPlaces(beats) : \A i \in DOMAIN OptionAt(beats, p).cases :
       NormalizeCase(OptionAt(beats, p).cases[i])

\* What an option says in a world: the first case that does not fail decides.
ResolveOption(option, world) ==
  LET Reached == {i \in DOMAIN option.cases : Evaluate(option.cases[i].when, world) # "fails"}
      first == CHOOSE i \in Reached : \A j \in Reached : i <= j
  IN IF Reached = {} THEN option
     ELSE IF Evaluate(option.cases[first].when, world) = "broken"
          THEN [option EXCEPT !.status = "broken"]
     ELSE [option EXCEPT !.status = option.cases[first].status,
                         !.effects = option.cases[first].effects,
                         !.terminal = option.cases[first].terminal \/ @]

Options(revision) ==
  IF revision + 1 \in DOMAIN scenario
  THEN {scenario[revision + 1][i] : i \in DOMAIN scenario[revision + 1]} ELSE {}

\* A bug: a story goes on after its end.
NeverEnded(world) == FALSE
Ended(world) == world.terminal

CreateAuthoredIntentCatalog(revision, world) ==
  IF Ended(world) THEN {} ELSE {o.id : o \in Options(revision)}

\* The world after an option, or Refused with the reason left out.
ExecuteAuthoredOption(revision, world, id) ==
  LET offered == {o \in Options(revision) : o.id = id}
      option == CHOOSE o \in offered : TRUE
      resolved == ResolveOption(option, world)
      applied == TryApplyEffectBatch(world, resolved.effects)
  IN IF Ended(world) \/ offered = {} THEN Refused
     ELSE IF resolved.status \in {"broken", "blocked"} \/ applied = Refused THEN Refused
     ELSE IF world.elapsed + option.advance > MaxSafe THEN Refused
     ELSE [applied EXCEPT !.elapsed = @ + option.advance, !.terminal = resolved.terminal]

(***************************************************************************)
(* The server.  A body names a revision and an option, or is a text that   *)
(* the interpreter resolves to one of the options it is shown.             *)
(***************************************************************************)
ParseAction == [revision : SafeNat, input : OptionIds \cup {"text"}]
Outcome(kind, option) == [kind |-> kind, option |-> option]
PublicResponses == [kind : {"committed", "blocked", "no_turn"}, option : OptionIds \cup {"text"}]

ASSUME AuthoredAssumption ==
  /\ Hashes = ParseAction
  /\ Responses = PublicResponses
  /\ TurnIds = Sessions \X Keys
  /\ Worlds = [resource : 0..MaxResource, holder : Holders, elapsed : SafeNat, terminal : BOOLEAN]
  /\ ~InitialWorld.terminal
  /\ Scenarios \subseteq Seq(Seq(ScenarioOption))
  /\ MaxOptions \in Nat

Idle == [pc |-> "idle"]
At(i, pc) == handler[i].pc = pc
Stop(i) == handler' = [handler EXCEPT ![i] = Idle]

\* Only a scenario that normalizes is published (resolveAuthoredScenarioRelease).
AuthoredInit ==
  /\ Init
  /\ scenario \in {beats \in Scenarios : NormalizeScenario(beats)}
  /\ handler = [i \in Handlers |-> Idle]

CreateSession(s) == CreateGuestSession(s) /\ UNCHANGED <<scenario, handler>>

Receive(i, s, k, body) ==
  /\ At(i, "idle")
  /\ session[s].created
  /\ handler' = [handler EXCEPT
       ![i] = [pc |-> "claim", session |-> s, key |-> k, body |-> body, token |-> 0,
               world |-> InitialWorld, response |-> NoResponse]]
  /\ UNCHANGED <<vars, scenario>>

Claim(i, t, lease) ==
  LET h == handler[i] IN
  /\ At(i, "claim")
  /\ ClaimOperation(h.session, h.key, h.body, h.body.revision, t, lease)
  /\ IF ClaimOutcome(h.session, h.key, h.body, h.body.revision, t, lease) \in Granted
     THEN handler' = [handler EXCEPT ![i].pc = "context",
                                     ![i].token = operation'[h.session][h.key].fencingToken]
     ELSE Stop(i)
  /\ UNCHANGED scenario

\* The fresh context; a session that has moved is answered 409.
ResolveContext(i) ==
  LET s == handler[i].session IN
  /\ At(i, "context")
  /\ IF session[s].revision # handler[i].body.revision THEN Stop(i)
     ELSE handler' = [handler EXCEPT ![i].pc = "execute", ![i].world = session[s].state]
  /\ UNCHANGED <<vars, scenario>>

Executes(i, id) ==
  LET world == ExecuteAuthoredOption(handler[i].body.revision, handler[i].world, id) IN
  handler' = [handler EXCEPT
    ![i].pc = IF world = Refused THEN "finish" ELSE "commit",
    ![i].world = IF world = Refused THEN @ ELSE world,
    ![i].response = Outcome(IF world = Refused THEN "blocked" ELSE "committed", id)]

ExecuteExplicit(i) ==
  /\ At(i, "execute") /\ handler[i].body.input # "text"
  /\ Executes(i, handler[i].body.input)
  /\ UNCHANGED <<vars, scenario>>

\* The interpreter resolves the text to an option, asks, declines or fails.
InterpretText(i) ==
  /\ At(i, "execute") /\ handler[i].body.input = "text"
  /\ \/ \E id \in CreateAuthoredIntentCatalog(handler[i].body.revision, handler[i].world) :
          Executes(i, id)
     \/ handler' = [handler EXCEPT ![i].pc = "finish", ![i].response = Outcome("no_turn", "text")]
  /\ UNCHANGED <<vars, scenario>>

Commit(i, t) ==
  LET h == handler[i]
      rev == h.body.revision
      turn == [turnId |-> <<h.session, h.key>>, operationId |-> h.key,
               beforeRevision |-> rev, afterRevision |-> rev + 1]
  IN /\ At(i, "commit")
     /\ CommitTurn(h.session, h.key, rev, h.token, [revision |-> rev + 1, state |-> h.world],
                   turn, h.response, t)
     /\ Stop(i)
     /\ UNCHANGED scenario

Finish(i, t) ==
  LET h == handler[i] IN
  /\ At(i, "finish")
  /\ FinishWithoutTurn(h.session, h.key, h.body.revision, h.token, h.response, t)
  /\ Stop(i)
  /\ UNCHANGED scenario

\* Whatever throws is answered 500 and leaves the operation as it is; a crash
\* does so for every request.
Throws ==
  /\ \E lost \in SUBSET {i \in Handlers : ~At(i, "idle")} :
       /\ lost # {}
       /\ handler' = [i \in Handlers |-> IF i \in lost THEN Idle ELSE handler[i]]
  /\ UNCHANGED <<vars, scenario>>

AuthoredNext ==
  \/ Tick /\ UNCHANGED <<scenario, handler>>
  \/ \E s \in Sessions : CreateSession(s)
  \/ \E i \in Handlers :
       \/ \E s \in Sessions, k \in Keys, body \in ParseAction : Receive(i, s, k, body)
       \/ \E t \in Readings, lease \in Durations : Claim(i, t, lease)
       \/ ResolveContext(i)
       \/ ExecuteExplicit(i)
       \/ InterpretText(i)
       \/ \E t \in Readings : Commit(i, t) \/ Finish(i, t)
  \/ Throws

AuthoredSpec == AuthoredInit /\ [][AuthoredNext]_authoredVars

(***************************************************************************)
(* Properties.                                                             *)
(***************************************************************************)
\* The world of a session is the scenario played from its start with the
\* options its turns were answered with, one beat a turn, and no turn after
\* the end, although handlers hold a world across the interpreter's await,
\* retries may be interpreted differently and requests are lost half way.
PlayedAsAuthored ==
  \A s \in Sessions :
    LET OptionOf(n) == operation[s][turns[s][n].operationId].publicResponse.option
        played[n \in 0..Len(turns[s])] ==
          IF n = 0 THEN InitialWorld ELSE ExecuteAuthoredOption(n - 1, played[n - 1], OptionOf(n))
    IN /\ \A n \in 0..Len(turns[s]) : played[n] # Refused
       /\ \A n \in 1..Len(turns[s]) : ~played[n - 1].terminal
       /\ session[s].state = played[Len(turns[s])]

\* A scenario that was accepted never breaks while it is played: the cases
\* were tried on the initial world alone, and hold or fail in every world a
\* session can reach.
CasesNeverBreak ==
  \A s \in Sessions : \A b \in DOMAIN scenario : \A o \in DOMAIN scenario[b] :
    ResolveOption(scenario[b][o], session[s].state).status # "broken"
=============================================================================
