------------------------------ MODULE MCTurns ------------------------------
(***************************************************************************)
(* What a turn computes: the interpreter of authored scenarios with its    *)
(* server, the scheduler of game time, and plugins with their registry.    *)
(* They share no state; the initial state says which of them moves.        *)
(*                                                                         *)
(* A scenario of two beats, in which lingering may exhaust the clock, and  *)
(* two that must be refused: one with a test of an entity that does not    *)
(* exist behind one that decides alone, and one with an option twice.      *)
(* For the scheduler an expense, an income, a completion and a deadline at *)
(* one instant, an id used twice, events that are past or beyond the       *)
(* interval when the clock has moved.  For the plugins, sets that fit      *)
(* together in one or several orders, have a cycle, a gap, an id or a      *)
(* plugin twice, or are too old.                                           *)
(***************************************************************************)
EXTENDS AuthoredScenario, Scheduler, PluginActions

CONSTANTS k1, k2, h1, h2

Has(n) == [type |-> "resource.atLeast", value |-> n]
Held(who) == [type |-> "item.heldBy", holder |-> who]
Spend(n) == [type |-> "resource.change", delta |-> -n]
Give(who) == [type |-> "item.transfer", holder |-> who]
Case(type, tests, status, effects, terminal) ==
  [when |-> [type |-> type, of |-> tests], status |-> status, effects |-> effects,
   terminal |-> terminal]
Option(id, status, advance, effects, terminal, cases) ==
  [id |-> id, status |-> status, advance |-> advance, effects |-> effects,
   terminal |-> terminal, cases |-> cases]

Buy == Option("buy", "executed", 1, <<Give("guest"), Spend(1)>>, FALSE,
              <<Case("none", <<Has(1)>>, "blocked", <<>>, FALSE)>>)
Linger == Option("linger", "executed", 2, <<>>, FALSE, <<>>)
Leave == Option("leave", "executed", 1, <<>>, TRUE, <<>>)
Pay == Option("pay", "blocked", 1, <<>>, FALSE,
              <<Case("all", <<Has(1), Held("guest")>>, "conditional", <<Spend(1)>>, TRUE),
                Case("any", <<Held("guest"), Has(1)>>, "executed", <<Spend(1)>>, FALSE)>>)
Ghost == Option("ghost", "executed", 0, <<>>, FALSE,
                <<Case("any", <<Has(1), Held("nobody")>>, "executed", <<Spend(1)>>, FALSE)>>)

MCScenarios == {<<<<Buy, Leave>>, <<Pay, Linger>>>>, <<<<Buy>>, <<Ghost>>>>, <<<<Leave>>, <<Leave>>>>}
MCInitialWorld == [resource |-> 1, holder |-> "host", elapsed |-> 0, terminal |-> FALSE]
MCIds == {"buy", "linger", "leave", "pay", "ghost"}
MCHashes == [revision : 0..MaxSafe, input : MCIds \cup {"text"}]
MCResponses == [kind : {"committed", "blocked", "no_turn"}, option : MCIds \cup {"text"}]
MCTurnIds == Sessions \X Keys
MCWorlds == [resource : 0..1, holder : {"host", "guest"}, elapsed : 0..MaxSafe, terminal : BOOLEAN]

E(id, at, order, kind, deltas) ==
  [id |-> id, at |-> at, order |-> order, kind |-> kind, deltas |-> deltas]

MCPlanned ==
  {E(1, 1, 20, "core.effects", <<-1>>), E(2, 1, 10, "core.effects", <<1, -1>>),
   E(2, 2, 20, "core.effects", <<-1, -1>>), E(3, 1, 100, "core.terminal", <<>>),
   E(4, 2, 10, "core.marker", <<>>)}

MCChildren ==
  {E(5, 1, 10, "core.effects", <<-1>>), E(5, 2, 20, "core.marker", <<>>),
   E(6, 1, 100, "core.terminal", <<>>), E(6, 2, 100, "core.terminal", <<>>),
   E(1, 2, 20, "core.effects", <<1>>)}

MCLists == UNION {[1..n -> MCPlanned] : n \in 0..2} \cup {SetToSeq(E3) : E3 \in kSubset(3, MCPlanned)}

X(plugin, version, needs, owns, acts) ==
  [plugin |-> plugin, version |-> version, engine |-> version < 3, needs |-> needs,
   owns |-> owns, acts |-> acts]
OnA(versions) == [q \in {"a"} |-> versions]
OnB == [q \in {"b"} |-> {1}]

A1 == X("a", 1, <<>>, <<"a.x">>, {"a.x"})
A2 == X("a", 2, OnB, <<"a.x">>, {})
AShared == X("a", 1, <<>>, <<"a.x", "ab.x">>, {"a.x"})
AForeign == X("a", 1, <<>>, <<"b.x">>, {})
B1 == X("b", 1, <<>>, <<"b.x", "ab.x">>, {"b.x"})
BOnA == X("b", 1, OnA({1}), <<"b.x">>, {"b.x"})
COnA == X("c", 1, OnA({1, 2}), <<"c.x">>, {"c.x"})
COnBoth == X("c", 1, OnA({1}) @@ OnB, <<"c.x">>, {"c.x"})
CNew == X("c", 3, <<>>, <<"c.x">>, {})

MCSets == {{AShared, BOnA, COnBoth}, {A1, B1, COnBoth}, {A1, BOnA, COnA}, {A2, BOnA, COnA},
           {A2, B1, COnA}, {A2, BOnA}, {B1, COnBoth}, {A1, CNew}, {A1, A2}, {AShared, B1},
           {AForeign}, {}}
MCManifestLists == UNION {{l \in [1..n -> S] : Range(l) = S} : S \in MCSets, n \in 0..3}
Backend(plugin, action) == [plugin |-> plugin, actions |-> <<action>>]
MCBackendLists == {<<>>, <<Backend("a", "a.x")>>, <<Backend("b", "b.x"), Backend("a", "a.x")>>,
                   <<Backend("a", "c.x")>>}
MCNamespace == [p \in {"a", "b", "c"} |->
  CASE p = "a" -> {"a.x", "ab.x"} [] p = "b" -> {"b.x", "ab.x"} [] OTHER -> {"c.x"}]
MCCodeUnits == <<"a", "b", "c">>
MCLocale == <<"a", "c", "b">>
MCActionPlans == {[delta |-> 1, duration |-> 0, valid |-> TRUE],
                  [delta |-> -1, duration |-> 1, valid |-> TRUE],
                  [delta |-> 0, duration |-> 0, valid |-> FALSE]}

Symmetry == Permutations(Keys) \cup Permutations(Handlers)

VARIABLE part

TurnsVars == <<part, authoredVars, schedulerVars, pluginVars>>

TurnsInit ==
  /\ part \in {"authored", "scheduler", "plugins"}
  /\ AuthoredInit /\ SchedulerInit /\ CallsInit

TurnsNext ==
  /\ \/ part = "authored" /\ AuthoredNext /\ UNCHANGED <<schedulerVars, pluginVars>>
     \/ part = "scheduler" /\ SchedulerNext /\ UNCHANGED <<authoredVars, pluginVars>>
     \/ part = "plugins" /\ CallsNext /\ UNCHANGED <<authoredVars, schedulerVars>>
  /\ UNCHANGED part

TurnsSpec == TurnsInit /\ [][TurnsNext]_TurnsVars
=============================================================================
