---------------------------- MODULE PluginActions ----------------------------
(***************************************************************************)
(* Running plugins (packages/plugins, execution.ts, under the host in      *)
(* apps/server, plugin-action-service.ts).  A resolver sees a copy of the  *)
(* world and a generator of random numbers that belongs to its call; the   *)
(* host makes a world of the plan it returns and publishes it together     *)
(* with the stream's new position, or nothing.  Event handlers are called  *)
(* one after another within one advance of game time, which is published   *)
(* as a whole as well.                                                     *)
(*                                                                         *)
(* Plugin code is trusted but may do anything between its calls to the     *)
(* generator: catch its errors and go on, throw, return any plan, or keep  *)
(* the generator and use it when its call is over.  A number is named by   *)
(* its place in the stream.                                                *)
(***************************************************************************)
EXTENDS PluginRegistry

CONSTANTS
  ActionPlans,  \* what resolvers return: [delta, duration, valid]
  MaxDraws,     \* PLUGIN_MAX_RNG_DRAWS
  LastDraw,     \* the last place of a stream (Number.MAX_SAFE_INTEGER)
  Capacity,     \* bounds of the world's resource: 0..Capacity
  LastSecond,   \* of the world's clock
  Advances      \* how many events an advance of time may have

VARIABLES
  place,    \* the world with its stream: [stock, clock, stream]
  call,     \* the call in progress
  kept,     \* the generator of an ended call that a plugin still holds
  record    \* the calls that were accepted

callVars == <<place, call, kept, record>>
pluginVars == <<registryVars, callVars>>

\* closure: the host's local position; trace, failure: of resolveRegisteredPluginAction.
\* refused remembers every refused draw, whatever the code does about it.
NewGenerator(from) == [closure |-> from, trace |-> <<>>, failure |-> None, refused |-> FALSE]
NoCall == [pc |-> "rest", of |-> None, rng |-> NewGenerator(0), left |-> 0, drawn |-> <<>>]

CallsInit ==
  /\ RegistryInit
  /\ place = [stock |-> 0, clock |-> 0, stream |-> 0]
  /\ call = NoCall /\ kept = {} /\ record = <<>>

CallAt(pc) == call.pc = pc

\* The answer is sent; the plugin may have kept its generator.
EndCall ==
  /\ call' = NoCall
  /\ kept' \in {kept, {call.rng}}

\* A draw asked of a generator.  A resolver's is dead after a failure; a handler's goes on.
Refuses(rng, code) == [rng EXCEPT !.failure = code, !.refused = TRUE]
Dead(rng, sticky) == sticky /\ rng.failure # None

Drawn(rng, valid, sticky) ==
  IF Dead(rng, sticky) THEN rng
  ELSE IF Len(rng.trace) >= MaxDraws THEN Refuses(rng, "RNG_DRAW_LIMIT_EXCEEDED")
  ELSE IF ~ valid \/ rng.closure = LastDraw THEN Refuses(rng, "RNG_FAILED")
  ELSE [rng EXCEPT !.closure = @ + 1, !.trace = Append(@, rng.closure)]

\* executeRegisteredPluginActionThroughCore; what is not registered, or has bad arguments,
\* is refused before anything happens.
ExecuteAction(a) ==
  /\ CallAt("rest") /\ InStage("built") /\ a \in DOMAIN backends
  /\ call' = [NoCall EXCEPT !.pc = "resolving", !.of = a, !.rng = NewGenerator(place.stream)]
  /\ UNCHANGED <<registryVars, place, kept, record>>

Draw(valid) ==
  /\ call.pc \in {"resolving", "handling"}
  /\ call' = [call EXCEPT !.rng = Drawn(@, valid, CallAt("resolving"))]
  /\ UNCHANGED <<registryVars, place, kept, record>>

\* A generator outlives its call, but only the closure of that call moves.
DrawLate(valid) ==
  /\ \E rng \in kept, sticky \in BOOLEAN : kept' = {Drawn(rng, valid, sticky)}
  /\ UNCHANGED <<registryVars, place, call, record>>

PluginThrows ==
  /\ call.pc \in {"resolving", "handling"}
  /\ EndCall /\ UNCHANGED <<registryVars, place, record>>

Publish(accepted, next, drawn) ==
  IF accepted THEN /\ place' = next
                   /\ record' = Append(record, [of |-> call.of, drawn |-> drawn, refused |-> call.rng.refused])
  ELSE UNCHANGED <<place, record>>

\* A bug: a plan is taken although a draw failed behind it.
PlanStandsAnyway(plan) == plan.valid

\* An error of the generator fails the call even when the plugin caught it.
PlanStands(plan) == call.rng.failure = None /\ plan.valid

\* tryApplyEffectBatch, planTimeAdvance and applyTimeAdvancePlan, each of which may refuse.
ReturnPlan(plan) ==
  /\ CallAt("resolving")
  /\ LET next == [stock |-> place.stock + plan.delta, clock |-> place.clock + plan.duration,
                  stream |-> call.rng.closure]
         accepted == /\ PlanStands(plan)
                     /\ next.stock \in 0..Capacity /\ next.clock <= LastSecond
     IN Publish(accepted, next, call.rng.trace)
  /\ EndCall /\ UNCHANGED registryVars

(***************************************************************************)
(* processRegisteredPluginSchedulerThroughCore                             *)
(***************************************************************************)
BeginProcessing(n) ==
  /\ CallAt("rest") /\ InStage("built")
  /\ call' = [NoCall EXCEPT !.pc = "events", !.left = n, !.rng = NewGenerator(place.stream)]
  /\ UNCHANGED <<registryVars, place, kept, record>>

\* An event without a type of its own has no handler; one whose handler is missing fails.
PassEvent ==
  /\ CallAt("events") /\ call.left > 0
  /\ call' = [call EXCEPT !.left = @ - 1]
  /\ UNCHANGED <<registryVars, place, kept, record>>

HandlePluginEvent ==
  /\ CallAt("events") /\ call.left > 0
  /\ \E a \in DOMAIN backends :
       call' = [call EXCEPT !.pc = "handling", !.of = a, 
              !.rng = [NewGenerator(call.rng.closure) EXCEPT !.refused = call.rng.refused]]
  /\ UNCHANGED <<registryVars, place, kept, record>>

AnswerStands == call.rng.failure = None

ReturnEvents ==
  /\ CallAt("handling") /\ AnswerStands
  /\ call' = [call EXCEPT !.pc = "events", !.left = @ - 1, !.drawn = @ \o call.rng.trace]
  /\ kept' \in {kept, {call.rng}}
  /\ UNCHANGED <<registryVars, place, record>>

\* A failed handler, and whatever the core refuses of the events, fails the whole advance.
ProcessingFails ==
  /\ \/ CallAt("handling") /\ ~ AnswerStands
     \/ CallAt("events")
  /\ EndCall /\ UNCHANGED <<registryVars, place, record>>

FinishProcessing ==
  /\ CallAt("events") /\ call.left = 0 /\ place.clock < LastSecond
  /\ Publish(TRUE, [place EXCEPT !.clock = @ + 1, !.stream = call.rng.closure], call.drawn)
  /\ EndCall /\ UNCHANGED registryVars

CallsNext ==
  \/ RegistryNext /\ CallAt("rest") /\ kept' = {} /\ UNCHANGED <<place, call, record>>
  \/ \E a \in DOMAIN backends : ExecuteAction(a)
  \/ \E valid \in BOOLEAN : Draw(valid) \/ DrawLate(valid)
  \/ PluginThrows
  \/ \E plan \in ActionPlans : ReturnPlan(plan)
  \/ \E n \in Advances : BeginProcessing(n)
  \/ PassEvent \/ HandlePluginEvent \/ ReturnEvents \/ ProcessingFails \/ FinishProcessing

CallsSpec == CallsInit /\ [][CallsNext]_pluginVars
-----------------------------------------------------------------------------
(***************************************************************************)
(* Properties                                                              *)
(***************************************************************************)

\* A session's randomness is accounted for: the numbers the accepted calls drew are the
\* beginning of the stream, each once and in order, up to the place published with the
\* world; no accepted call had a draw refused, whatever the plugin did about the error;
\* and an action is resolved by the only plugin that owns its id.
StreamIsItsDraws ==
  /\ FlattenSeq([i \in DOMAIN record |-> record[i].drawn]) = [n \in 1..place.stream |-> n - 1]
  /\ \A i \in DOMAIN record : ~ record[i].refused
  /\ \A a \in DOMAIN backends :
       {p \in Installed : a \in Range(registry.byId[p].owns)} = {backends[a]}
=============================================================================
