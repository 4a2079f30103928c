----------------------------- MODULE TurnsProofs -----------------------------
(***************************************************************************)
(* Proofs about what a turn computes.                                      *)
(*                                                                         *)
(* Authored scenarios: the world of a session is the end of a play, a      *)
(* sequence of worlds in which each follows from the one before by the     *)
(* option its turn was answered with.  A commit lengthens the play, since  *)
(* the world a handler works on is that of the revision it expects; and    *)
(* there is only one play, the one the scenario computes.                  *)
(*                                                                         *)
(* Plugins: a registry is a function of the set of its manifests, since    *)
(* Kahn's algorithm with a sorted list of the ready ones takes the same    *)
(* steps whatever order they were given in; and a call's draws continue    *)
(* the stream where the draws before it ended.                             *)
(*                                                                         *)
(* Game time: every event of a trial is in one of its lists, each once,    *)
(* and what is held of them is the plan until a handler adds one; so the   *)
(* way without handlers comes to the same end.                             *)
(***************************************************************************)
EXTENDS AuthoredScenario, Scheduler, PluginActions, RuntimeStorageProofs, FiniteSetTheorems

-------------------------------------------------------------------------------
(* Induction, as facts about sets of numbers                               *)

LEMMA Induction ==
  ASSUME NEW S \in SUBSET Nat, 0 \in S, \A n \in S : n + 1 \in S
  PROVE  S = Nat
<1>1. SUFFICES ASSUME NEW m \in Nat, m \notin S PROVE FALSE
  OBVIOUS
<1> DEFINE T == {0..k : k \in (0..m) \ S}
           R == StrictSubsetOrdering(0..m)
<1>2. IsWellFoundedOn(R, FiniteSubsetsOf(0..m))
  BY FS_StrictSubsetOrderingWellFounded
<1>3. T \subseteq FiniteSubsetsOf(0..m)
  <2>1. \A k \in 0..m : 0..k \subseteq 0..m /\ IsFiniteSet(0..k)
    BY FS_Interval
  <2> QED BY <2>1 DEF FiniteSubsetsOf
<1>4. T # {}
  BY <1>1
<1> HIDE DEF T, R
<1>5. PICK x \in T : \A y \in T : <<y, x>> \notin R
  BY <1>2, <1>3, <1>4, WFMin
<1> USE DEF T
<1>6. PICK k \in (0..m) \ S : x = 0..k
  BY <1>5
<1>7. k # 0 /\ k - 1 \in 0..m /\ k - 1 \notin S
  BY <1>1, <1>6
<1>8. 0..(k - 1) \in T /\ <<0..(k - 1), 0..k>> \in R
  <2>1. 0..(k - 1) \in T
    BY <1>7
  <2>2. 0..(k - 1) \subseteq 0..k /\ 0..k \subseteq 0..m /\ k \in 0..k /\ k \notin 0..(k - 1)
    OBVIOUS
  <2>3. 0..(k - 1) \in SUBSET (0..m) /\ 0..k \in SUBSET (0..m) /\ 0..(k - 1) # 0..k
    BY <2>2
  <2> HIDE DEF T
  <2>4. <<0..(k - 1), 0..k>> \in R
    BY <2>2, <2>3 DEF R, StrictSubsetOrdering
  <2> QED BY <2>1, <2>4
<1> QED BY <1>5, <1>6, <1>8

LEMMA Least ==
  ASSUME NEW S \in SUBSET Nat, S # {}
  PROVE  \E m \in S : \A k \in S : m <= k
<1>1. SUFFICES ASSUME \A m \in S : \E k \in S : k < m PROVE FALSE
  OBVIOUS
<1> DEFINE Below == {n \in Nat : \A k \in S : k > n}
<1>2. 0 \in Below
  BY <1>1
<1>3. \A n \in Below : n + 1 \in Below
  <2> SUFFICES ASSUME NEW n \in Below, NEW k \in S PROVE k > n + 1
    OBVIOUS
  <2>1. k > n /\ n \in Nat
    OBVIOUS
  <2>2. k # n + 1
    BY <1>1, <2>1
  <2> QED BY <2>1, <2>2
<1> HIDE DEF Below
<1>4. Below = Nat
  BY <1>2, <1>3, Induction DEF Below
<1>5. PICK k \in S : TRUE
  OBVIOUS
<1>6. k \in Below
  BY <1>4
<1> QED BY <1>6 DEF Below

Maps(F, D, N) == F \in [D \X (1..N) -> D]

IsIterate(f, F, base, D, N) ==
  f \in [0..N -> D] /\ f[0] = base /\ \A n \in 1..N : f[n] = F[<<f[n - 1], n>>]

\* A recursive function of the numbers up to N exists.
LEMMA Iterates ==
  ASSUME NEW N \in Nat, NEW D, NEW base \in D, NEW F, Maps(F, D, N)
  PROVE  \E f : IsIterate(f, F, base, D, N)
<1> USE DEF Maps
<1> DEFINE Upto(n) == \E f \in [0..n -> D] : f[0] = base /\ \A k \in 1..n : f[k] = F[<<f[k - 1], k>>]
           S == {n \in Nat : n <= N => Upto(n)}
<1>1. Upto(0)
  <2> DEFINE f == [k \in 0..0 |-> base]
  <2>1. f \in [0..0 -> D] /\ f[0] = base
    OBVIOUS
  <2>2. \A k \in 1..0 : f[k] = F[<<f[k - 1], k>>]
    OBVIOUS
  <2> HIDE DEF f
  <2> QED BY <2>1, <2>2
<1>2. ASSUME NEW n \in Nat, n + 1 <= N, Upto(n) PROVE Upto(n + 1)
  <2>1. PICK f \in [0..n -> D] : f[0] = base /\ \A k \in 1..n : f[k] = F[<<f[k - 1], k>>]
    BY <1>2
  <2> DEFINE g == [k \in 0..(n + 1) |-> IF k = n + 1 THEN F[<<f[n], n + 1>>] ELSE f[k]]
  <2>2. f[n] \in D /\ n + 1 \in 1..N
    BY <1>2, <2>1
  <2>3. F[<<f[n], n + 1>>] \in D
    BY <2>2
  <2>4. g \in [0..(n + 1) -> D]
    BY <2>1, <2>3
  <2>5. ASSUME NEW k \in 1..(n + 1) PROVE g[k] = F[<<g[k - 1], k>>]
    <3>1. CASE k = n + 1
      <4>1. g[k] = F[<<f[n], n + 1>>]
        BY <3>1
      <4>2. g[k - 1] = f[n]
        BY <3>1
      <4> QED BY <3>1, <4>1, <4>2
    <3>2. CASE k \in 1..n
      BY <3>2, <2>1
    <3> QED BY <3>1, <3>2
  <2>6. g[0] = base
    BY <2>1
  <2> QED BY <2>4, <2>5, <2>6
<1> HIDE DEF Upto
<1>3. \A n \in S : n + 1 \in S
  BY <1>2
<1>4. 0 \in S
  BY <1>1
<1>5. S = Nat
  <2> HIDE DEF S
  <2>1. S \in SUBSET Nat
    BY DEF S
  <2> QED BY <1>3, <1>4, <2>1, Induction
<1>6. Upto(N)
  BY <1>5
<1> QED BY <1>6 DEF Upto, IsIterate

-------------------------------------------------------------------------------
(* Authored scenarios: conditions and effects                              *)

LEMMA RefusedIsNoWorld == Refused \notin Worlds
<1>1. DOMAIN Refused = {"refused"}
  BY DEF Refused
<1>2. \A w \in Worlds : "resource" \in DOMAIN w
  BY AuthoredAssumption
<1> QED BY <1>1, <1>2

\* What a batch may make of a world: it takes no time.
AtItsTime(scene) == {w \in Worlds : w.elapsed = scene.elapsed} \cup {Refused}

LEMMA AppliedTyped ==
  ASSUME NEW scene \in Worlds, NEW e \in Effects
  PROVE  Applied(scene, e) \in AtItsTime(scene)
<1>1. scene \in [resource : 0..MaxResource, holder : Holders, elapsed : SafeNat, terminal : BOOLEAN]
  BY AuthoredAssumption
<1>2. CASE e \in [type : {"resource.change"}, delta : Int]
  <2>1. Applied(scene, e) = IF scene.resource + e.delta \in 0..MaxResource
                            THEN [scene EXCEPT !.resource = @ + e.delta] ELSE Refused
    BY <1>2 DEF Applied
  <2> QED BY <1>1, <1>2, <2>1, AuthoredAssumption DEF AtItsTime
<1>3. CASE e \in [type : {"item.transfer"}, holder : Names]
  <2>1. Applied(scene, e) = IF e.holder \in Holders THEN [scene EXCEPT !.holder = e.holder] ELSE Refused
    BY <1>3 DEF Applied
  <2> QED BY <1>1, <1>3, <2>1, AuthoredAssumption DEF AtItsTime
<1> QED BY <1>2, <1>3 DEF Effects

LEMMA BatchTyped ==
  ASSUME NEW scene \in Worlds, NEW effects \in Seq(Effects)
  PROVE  TryApplyEffectBatch(scene, effects) \in AtItsTime(scene)
<1> DEFINE D == AtItsTime(scene)
           N == Len(effects)
           Next1(w, n) == IF w = Refused THEN Refused ELSE Applied(w, effects[n])
           F == [p \in D \X (1..N) |-> Next1(p[1], p[2])]
           E(a) == [n \in 0..N |-> IF n = 0 THEN scene
                     ELSE IF a[n - 1] = Refused THEN Refused ELSE Applied(a[n - 1], effects[n])]
           after == CHOOSE a : a = E(a)
<1>1. N \in Nat /\ scene \in D /\ Refused \in D
  BY DEF AtItsTime
<1>2. ASSUME NEW w \in D, NEW n \in 1..N PROVE Next1(w, n) \in D
  <2>1. CASE w = Refused
    BY <2>1 DEF AtItsTime
  <2>2. CASE w # Refused
    <3>1. w \in Worlds /\ w.elapsed = scene.elapsed
      BY <2>2 DEF AtItsTime
    <3>2. effects[n] \in Effects
      OBVIOUS
    <3>3. Applied(w, effects[n]) \in AtItsTime(w)
      BY <3>1, <3>2, AppliedTyped
    <3> QED BY <2>2, <3>1, <3>3 DEF AtItsTime
  <2> QED BY <2>1, <2>2
<1>3. Maps(F, D, N)
  BY <1>2 DEF Maps
<1> HIDE DEF D, N
<1>4. PICK f : IsIterate(f, F, scene, D, N)
  <2> HIDE DEF F
  <2> QED BY <1>1, <1>3, Iterates
<1>5. \A n \in 1..N : f[n] = Next1(f[n - 1], n)
  BY <1>1, <1>4 DEF IsIterate
<1>6. f = E(f)
  BY <1>1, <1>4, <1>5 DEF IsIterate
<1>7. after = E(after)
  BY <1>6
<1> HIDE DEF after, F
<1>8. after[0] = scene /\ \A n \in 1..N : after[n] = Next1(after[n - 1], n)
  BY <1>1, <1>7
<1> DEFINE S == {n \in Nat : n <= N => after[n] \in D}
<1>9. S = Nat
  <2>1. 0 \in S
    BY <1>1, <1>8
  <2>2. \A n \in S : n + 1 \in S
    <3> SUFFICES ASSUME NEW n \in S, n + 1 <= N PROVE after[n + 1] \in D
      OBVIOUS
    <3>1. n + 1 \in 1..N /\ after[n] \in D /\ (n + 1) - 1 = n
      BY <1>1
    <3>2. after[n + 1] = Next1(after[n], n + 1)
      BY <1>8, <3>1
    <3> HIDE DEF Next1
    <3> QED BY <1>2, <3>1, <3>2
  <2> HIDE DEF S
  <2>3. S \in SUBSET Nat
    BY DEF S
  <2> QED BY <2>1, <2>2, <2>3, Induction
<1>10. after[N] \in D
  BY <1>1, <1>9
<1>11. TryApplyEffectBatch(scene, effects) = after[Len(effects)]
  BY DEF TryApplyEffectBatch, after, N
<1> QED BY <1>10, <1>11 DEF D, N

\* Whether a test is broken is the same in every world.
LEMMA BrokenTest ==
  ASSUME NEW c \in Tests, NEW scene
  PROVE  Test(c, scene) = "broken" <=> c.type = "item.heldBy" /\ c.holder \notin Holders
<1>1. CASE c \in [type : {"resource.atLeast"}, value : Int]
  BY <1>1 DEF Test
<1>2. CASE c \in [type : {"item.heldBy"}, holder : Names]
  BY <1>2 DEF Test
<1> QED BY <1>1, <1>2 DEF Tests

LEMMA BrokenCondition ==
  ASSUME NEW c \in Conditions, NEW one, NEW other, Evaluate(c, one) # "broken"
  PROVE  Evaluate(c, other) # "broken"
<1> DEFINE V(w) == {Test(c.of[i], w) : i \in DOMAIN c.of}
<1>1. c.type \in {"all", "any", "none"} /\ c.of \in Seq(Tests)
  BY DEF Conditions
<1>2. \A i \in DOMAIN c.of : Test(c.of[i], one) = "broken" <=> Test(c.of[i], other) = "broken"
  <2> SUFFICES ASSUME NEW i \in DOMAIN c.of
               PROVE  Test(c.of[i], one) = "broken" <=> Test(c.of[i], other) = "broken"
    OBVIOUS
  <2>1. c.of[i] \in Tests
    BY <1>1
  <2> QED BY <2>1, BrokenTest
<1>3. "broken" \in V(one) <=> "broken" \in V(other)
  BY <1>2
<1>4. ASSUME NEW w PROVE Evaluate(c, w) = "broken" <=> "broken" \in V(w)
  <2> HIDE DEF V
  <2> DEFINE v == V(w)
  <2>1. Evaluate(c, w) =
          CASE "broken" \in v -> "broken"
            [] "broken" \notin v /\ c.type = "all" -> IF "fails" \in v THEN "fails" ELSE "holds"
            [] "broken" \notin v /\ c.type = "any" -> IF "holds" \in v THEN "holds" ELSE "fails"
            [] "broken" \notin v /\ c.type = "none" -> IF "holds" \in v THEN "fails" ELSE "holds"
    BY DEF Evaluate, V
  <2> HIDE DEF v
  <2>2. Evaluate(c, w) = "broken" <=> "broken" \in v
    BY <1>1, <2>1
  <2> QED BY <2>2 DEF v
<1> HIDE DEF V
<1> QED BY <1>3, <1>4

-------------------------------------------------------------------------------
(* Options                                                                 *)

\* An option says what it says itself, or what the case says that decides.
Says(r, status, effects, terminal) ==
  r.status = status /\ r.effects = effects /\ r.terminal = terminal

LEMMA ResolveCases ==
  ASSUME NEW option \in ScenarioOption, NEW scene, NEW r, r = ResolveOption(option, scene)
  PROVE  \/ r = option
         \/ \E i \in DOMAIN option.cases :
              LET c == option.cases[i] IN
              \/ /\ Evaluate(c.when, scene) = "broken"
                 /\ Says(r, "broken", option.effects, option.terminal)
              \/ /\ Evaluate(c.when, scene) # "broken"
                 /\ Says(r, c.status, c.effects, c.terminal \/ option.terminal)
<1> DEFINE Reached == {i \in DOMAIN option.cases : Evaluate(option.cases[i].when, scene) # "fails"}
           first == CHOOSE i \in Reached : \A j \in Reached : i <= j
<1>1. CASE Reached = {}
  BY <1>1 DEF ResolveOption
<1>2. CASE Reached # {}
  <2>1. option.cases \in Seq(OptionCase)
    BY DEF ScenarioOption
  <2>2. Reached \in SUBSET Nat
    BY <2>1
  <2> DEFINE S == Reached
  <2>3. \E m \in S : \A k \in S : m <= k
    <3> HIDE DEF S
    <3> QED BY <1>2, <2>2, Least DEF S
  <2>4. first \in DOMAIN option.cases
    BY <2>3
  <2>5. r =
          IF Evaluate(option.cases[first].when, scene) = "broken"
          THEN [option EXCEPT !.status = "broken"]
          ELSE [option EXCEPT !.status = option.cases[first].status,
                              !.effects = option.cases[first].effects,
                              !.terminal = option.cases[first].terminal \/ @]
    BY <1>2 DEF ResolveOption
  <2> HIDE DEF first, Reached
  <2>6. CASE Evaluate(option.cases[first].when, scene) = "broken"
    <3>1. Says(r, "broken", option.effects, option.terminal)
      BY <2>5, <2>6 DEF Says, ScenarioOption
    <3> QED BY <2>4, <2>6, <3>1
  <2>7. CASE Evaluate(option.cases[first].when, scene) # "broken"
    <3>1. Says(r, option.cases[first].status, option.cases[first].effects,
               option.cases[first].terminal \/ option.terminal)
      BY <2>5, <2>7 DEF Says, ScenarioOption
    <3> QED BY <2>4, <2>7, <3>1
  <2> QED BY <2>6, <2>7
<1> QED BY <1>1, <1>2

LEMMA ResolvedTyped ==
  ASSUME NEW option \in ScenarioOption, NEW scene
  PROVE  /\ ResolveOption(option, scene).effects \in Seq(Effects)
         /\ ResolveOption(option, scene).terminal \in BOOLEAN
<1>1. /\ option.effects \in Seq(Effects) /\ option.terminal \in BOOLEAN
      /\ option.cases \in Seq(OptionCase)
  BY DEF ScenarioOption
<1>2. \A i \in DOMAIN option.cases :
        option.cases[i].effects \in Seq(Effects) /\ option.cases[i].terminal \in BOOLEAN
  <2> SUFFICES ASSUME NEW i \in DOMAIN option.cases
               PROVE  option.cases[i].effects \in Seq(Effects)
                      /\ option.cases[i].terminal \in BOOLEAN
    OBVIOUS
  <2>1. option.cases[i] \in OptionCase
    BY <1>1
  <2> QED BY <2>1 DEF OptionCase
<1> DEFINE r == ResolveOption(option, scene)
<1> SUFFICES r.effects \in Seq(Effects) /\ r.terminal \in BOOLEAN
  OBVIOUS
<1> HIDE DEF r
<1>3. CASE r = option
  BY <1>1, <1>3
<1>4. CASE \E i \in DOMAIN option.cases :
             \/ Says(r, "broken", option.effects, option.terminal)
             \/ Says(r, option.cases[i].status, option.cases[i].effects,
                     option.cases[i].terminal \/ option.terminal)
  BY <1>1, <1>2, <1>4 DEF Says
<1> QED BY <1>3, <1>4, ResolveCases DEF r

\* What an accepted option says is never broken, whatever the world is.
LEMMA NeverBroken ==
  ASSUME NEW option \in ScenarioOption, NEW scene,
         \A i \in DOMAIN option.cases : NormalizeCase(option.cases[i])
  PROVE  ResolveOption(option, scene).status # "broken"
<1>1. option.status # "broken" /\ option.cases \in Seq(OptionCase)
  BY DEF ScenarioOption, Statuses
<1>2. ASSUME NEW i \in DOMAIN option.cases
      PROVE  /\ Evaluate(option.cases[i].when, scene) # "broken"
             /\ option.cases[i].status # "broken"
  <2>1. option.cases[i] \in OptionCase
    BY <1>1
  <2>2. option.cases[i].when \in Conditions /\ option.cases[i].status # "broken"
    BY <2>1 DEF OptionCase, Statuses
  <2>3. Evaluate(option.cases[i].when, InitialWorld) # "broken"
    BY DEF NormalizeCase
  <2> QED BY <2>2, <2>3, BrokenCondition
<1> DEFINE r == ResolveOption(option, scene)
<1> SUFFICES r.status # "broken"
  OBVIOUS
<1> HIDE DEF r
<1> QED BY <1>1, <1>2, ResolveCases DEF r, Says

LEMMA ExecutedTyped ==
  ASSUME scenario \in Scenarios, NEW revision, NEW scene \in Worlds, NEW id
  PROVE  ExecuteAuthoredOption(revision, scene, id) \in Worlds \cup {Refused}
<1> DEFINE offered == {o \in Options(revision) : o.id = id}
           option == CHOOSE o \in offered : TRUE
           resolved == ResolveOption(option, scene)
           applied == TryApplyEffectBatch(scene, resolved.effects)
           result == ExecuteAuthoredOption(revision, scene, id)
<1>1. result = IF Ended(scene) \/ offered = {} THEN Refused
               ELSE IF resolved.status \in {"broken", "blocked"} \/ applied = Refused THEN Refused
               ELSE IF scene.elapsed + option.advance > MaxSafe THEN Refused
               ELSE [applied EXCEPT !.elapsed = @ + option.advance, !.terminal = resolved.terminal]
  BY DEF ExecuteAuthoredOption
<1> HIDE DEF result
<1>2. SUFFICES ASSUME result # Refused PROVE result \in Worlds
  BY DEF result
<1>3. offered # {} /\ applied # Refused /\ ~(scene.elapsed + option.advance > MaxSafe)
  <2> HIDE DEF offered, option, resolved, applied
  <2> QED BY <1>1, <1>2
<1>4. result = [applied EXCEPT !.elapsed = @ + option.advance, !.terminal = resolved.terminal]
  <2> HIDE DEF offered, option, resolved, applied
  <2> QED BY <1>1, <1>2
<1>5. option \in ScenarioOption
  <2>1. option \in Options(revision)
    BY <1>3
  <2> HIDE DEF option
  <2>2. /\ revision + 1 \in DOMAIN scenario
        /\ \E i \in DOMAIN scenario[revision + 1] : option = scenario[revision + 1][i]
    BY <2>1 DEF Options
  <2>3. scenario \in Seq(Seq(ScenarioOption))
    BY AuthoredAssumption
  <2>4. scenario[revision + 1] \in Seq(ScenarioOption)
    BY <2>2, <2>3
  <2> QED BY <2>2, <2>4
<1> HIDE DEF option, offered
<1>6. resolved.effects \in Seq(Effects) /\ resolved.terminal \in BOOLEAN
  BY <1>5, ResolvedTyped
<1> HIDE DEF resolved
<1>7. applied \in AtItsTime(scene)
  BY <1>6, BatchTyped
<1> HIDE DEF applied
<1>8. applied \in Worlds /\ applied.elapsed = scene.elapsed
  BY <1>3, <1>7 DEF AtItsTime
<1>9. option.advance \in Nat
  BY <1>5 DEF ScenarioOption
<1>10. scene.elapsed \in Nat /\ MaxSafe \in Nat
  BY AuthoredAssumption, ConstantAssumption DEF SafeNat
<1>11. scene.elapsed + option.advance \in SafeNat
  BY <1>3, <1>9, <1>10 DEF SafeNat
<1> QED BY <1>4, <1>6, <1>8, <1>11, AuthoredAssumption

-------------------------------------------------------------------------------
(* The inductive invariant of the server                                   *)

Steps == {"claim", "context", "execute", "commit", "finish"}

Requests == [pc : Steps, session : Sessions, key : Keys, body : ParseAction, token : SafeNat,
             world : Worlds, response : Responses \cup {NoResponse}]

HandlersTyped ==
  /\ handler \in [Handlers -> Requests \cup {Idle}]
  /\ \A i \in Handlers : handler[i].pc \in {"commit", "finish"} => handler[i].response \in Responses

ScenarioAccepted == scenario \in Scenarios /\ NormalizeScenario(scenario)

\* What a handler holds across its awaits is the world of the revision its body
\* names, or what the option it answers makes of that world.
HandlersWorldIsOfItsRevision ==
  \A i \in Handlers :
    LET h == handler[i]
        state == session[h.session].state IN
    h.pc \in {"execute", "commit"} =>
      /\ h.body.revision <= session[h.session].revision
      /\ h.body.revision = session[h.session].revision =>
           h.world = IF h.pc = "execute" THEN state
                     ELSE ExecuteAuthoredOption(h.body.revision, state, h.response.option)

OptionOf(s, n) == operation[s][turns[s][n].operationId].publicResponse.option

\* The worlds of a session, one per revision, each made of the one before.
Follows(s, play) ==
  /\ play[0] = InitialWorld
  /\ \A n \in 1..Len(turns[s]) :
       play[n] = ExecuteAuthoredOption(n - 1, play[n - 1], OptionOf(s, n))

IsPlay(s, play) ==
  /\ play \in [0..Len(turns[s]) -> Worlds]
  /\ Follows(s, play)
  /\ session[s].state = play[Len(turns[s])]

SessionsArePlayed == \A s \in Sessions : \E play : IsPlay(s, play)

AuthoredIInv ==
  /\ IInv
  /\ HandlersTyped
  /\ ScenarioAccepted
  /\ HandlersWorldIsOfItsRevision
  /\ SessionsArePlayed

LEMMA AtWork ==
  ASSUME HandlersTyped, NEW i \in Handlers, handler[i].pc # "idle"
  PROVE  handler[i] \in Requests
  BY DEF HandlersTyped, Idle

LEMMA IdleIsNoStep == Idle.pc = "idle" /\ "idle" \notin Steps
  BY DEF Idle, Steps

LEMMA InitAuthoredIInv == AuthoredInit => AuthoredIInv
<1> SUFFICES ASSUME AuthoredInit PROVE AuthoredIInv
  OBVIOUS
<1>1. IInv
  BY InitIInv DEF AuthoredInit
<1>2. HandlersTyped /\ HandlersWorldIsOfItsRevision
  BY IdleIsNoStep DEF AuthoredInit, HandlersTyped, HandlersWorldIsOfItsRevision, Idle
<1>3. ScenarioAccepted
  BY DEF AuthoredInit, ScenarioAccepted
<1>4. SessionsArePlayed
  <2> SUFFICES ASSUME NEW s \in Sessions PROVE \E play : IsPlay(s, play)
    BY DEF SessionsArePlayed
  <2>1. turns[s] = <<>> /\ Len(turns[s]) = 0 /\ session[s].state = InitialWorld
    BY DEF AuthoredInit, Init, NoSession
  <2> DEFINE play == [n \in 0..0 |-> InitialWorld]
  <2>2. play \in [0..0 -> Worlds] /\ play[0] = InitialWorld
    BY ConstantAssumption
  <2> HIDE DEF play
  <2> QED BY <2>1, <2>2 DEF IsPlay, Follows
<1> QED BY <1>1, <1>2, <1>3, <1>4 DEF AuthoredIInv

-------------------------------------------------------------------------------
(* The server calls the storage as its callers may                         *)

LEMMA CommitIsStorageStep ==
  ASSUME IInv, HandlersTyped, NEW i \in Handlers, NEW t \in Readings, Commit(i, t)
  PROVE  [Next]_vars
<1> DEFINE h == handler[i]
           rev == h.body.revision
           candidate == [revision |-> rev + 1, state |-> h.world]
           turn == [turnId |-> <<h.session, h.key>>, operationId |-> h.key,
                    beforeRevision |-> rev, afterRevision |-> rev + 1]
<1>1. /\ At(i, "commit")
      /\ CommitTurn(h.session, h.key, rev, h.token, candidate, turn, h.response, t)
  BY DEF Commit
<1>2. h \in Requests
  BY <1>1, AtWork DEF At
<1>3. /\ h.session \in Sessions /\ h.key \in Keys /\ h.token \in SafeNat /\ rev \in SafeNat
      /\ h.response \in Responses \cup {NoResponse} /\ h.world \in Worlds
  BY <1>2 DEF Requests, ParseAction
<1>4. <<h.session, h.key>> \in TurnIds
  BY <1>3, AuthoredAssumption
<1> DEFINE outcome == CommitOutcome(h.session, h.key, rev, h.token, candidate, turn, h.response, t)
<1>5. CASE outcome = "committed"
  <2>1. CompletionOutcome(h.session, h.key, rev, h.token, t) = "holder" /\ rev # MaxSafe
    <3> HIDE DEF h, rev, candidate, turn
    <3> QED BY <1>5 DEF CommitOutcome, CompletionOutcome, OperationOutcome, HolderOutcome
  <2>2. rev + 1 \in SafeNat
    BY <1>3, <2>1, ConstantAssumption DEF SafeNat
  <2>3. candidate \in CallerCandidates(rev) /\ turn \in CallerTurns(rev)
    BY <1>3, <1>4, <2>2 DEF CallerCandidates, CallerTurns, CallerRevisions
  <2> HIDE DEF h, rev, candidate, turn
  <2>4. Commits
    BY <1>1, <1>3, <2>1, <2>3 DEF Commits
  <2> QED BY <2>4 DEF Next
<1>6. CASE outcome # "committed"
  <2> HIDE DEF h, rev, candidate, turn
  <2> QED BY <1>1, <1>6 DEF CommitTurn
<1> QED BY <1>5, <1>6

LEMMA FinishIsStorageStep ==
  ASSUME HandlersTyped, NEW i \in Handlers, NEW t \in Readings, Finish(i, t)
  PROVE  [Next]_vars
<1>1. handler[i] \in Requests
  BY AtWork DEF Finish, At
<1>2. /\ handler[i].session \in Sessions /\ handler[i].key \in Keys
      /\ handler[i].token \in SafeNat /\ handler[i].body.revision \in SafeNat
      /\ handler[i].response \in Responses \cup {NoResponse}
  BY <1>1 DEF Requests, ParseAction
<1>3. FinishWithoutTurn(handler[i].session, handler[i].key, handler[i].body.revision,
                        handler[i].token, handler[i].response, t)
  BY DEF Finish
<1>4. Finishes
  BY <1>2, <1>3 DEF Finishes
<1> QED BY <1>4 DEF Next

LEMMA ClaimIsStorageStep ==
  ASSUME HandlersTyped, NEW i \in Handlers, NEW t \in Readings, NEW lease \in Durations,
         Claim(i, t, lease)
  PROVE  [Next]_vars
<1>1. handler[i] \in Requests
  BY AtWork DEF Claim, At
<1>2. /\ handler[i].session \in Sessions /\ handler[i].key \in Keys
      /\ handler[i].body \in Hashes /\ handler[i].body.revision \in SafeNat
  BY <1>1, AuthoredAssumption DEF Requests, ParseAction
<1>3. ClaimOperation(handler[i].session, handler[i].key, handler[i].body,
                     handler[i].body.revision, t, lease)
  BY DEF Claim
<1>4. Claims
  BY <1>2, <1>3 DEF Claims
<1> QED BY <1>4 DEF Next

LEMMA AuthoredStepIsStorageStep ==
  ASSUME IInv, HandlersTyped, [AuthoredNext]_authoredVars
  PROVE  [Next]_vars
<1>1. CASE UNCHANGED authoredVars
  BY <1>1 DEF authoredVars, vars
<1>2. CASE \E i \in Handlers : ResolveContext(i) \/ ExecuteExplicit(i) \/ InterpretText(i)
  BY <1>2 DEF ResolveContext, ExecuteExplicit, InterpretText
<1>3. CASE \E i \in Handlers, s \in Sessions, k \in Keys, body \in ParseAction : Receive(i, s, k, body)
  BY <1>3 DEF Receive
<1>4. CASE Throws
  BY <1>4 DEF Throws
<1>5. CASE Tick \/ \E s \in Sessions : CreateSession(s)
  BY <1>5 DEF CreateSession, Next
<1> QED BY <1>1, <1>2, <1>3, <1>4, <1>5, CommitIsStorageStep, FinishIsStorageStep,
           ClaimIsStorageStep DEF AuthoredNext

-------------------------------------------------------------------------------
(* What the handlers hold                                                  *)

\* A request that goes on from handler j as r.
Begins(r) == r \in Requests /\ r.pc \in {"claim", "context"}

Reads(r) ==
  /\ r \in Requests /\ r.pc = "execute" /\ UNCHANGED vars
  /\ r.body.revision = session[r.session].revision /\ r.world = session[r.session].state

Answers(j, r) ==
  /\ handler[j].pc = "execute" /\ UNCHANGED vars
  /\ r \in Requests /\ r.pc \in {"commit", "finish"} /\ r.response \in Responses
  /\ r.session = handler[j].session /\ r.body = handler[j].body
  /\ r.pc = "commit" =>
       r.world = ExecuteAuthoredOption(r.body.revision, handler[j].world, r.response.option)

GoesOn(j, r) == r = Idle \/ Begins(r) \/ Reads(r) \/ Answers(j, r)

HandlerMoves ==
  \/ handler' = handler
  \/ Throws
  \/ \E j \in Handlers, r \in Requests \cup {Idle} :
       handler' = [handler EXCEPT ![j] = r] /\ GoesOn(j, r)

LEMMA StopMoves ==
  ASSUME NEW j \in Handlers, Stop(j)
  PROVE  HandlerMoves
  BY DEF HandlerMoves, GoesOn, Stop

LEMMA CatalogIds ==
  ASSUME ScenarioAccepted, NEW revision, NEW scene,
         NEW id \in CreateAuthoredIntentCatalog(revision, scene)
  PROVE  id \in OptionIds
<1>1. PICK o \in Options(revision) : id = o.id
  BY DEF CreateAuthoredIntentCatalog
<1>2. /\ revision + 1 \in DOMAIN scenario
      /\ \E i \in DOMAIN scenario[revision + 1] : o = scenario[revision + 1][i]
  BY DEF Options
<1>3. scenario \in Seq(Seq(ScenarioOption))
  BY AuthoredAssumption DEF ScenarioAccepted
<1>4. scenario[revision + 1] \in Seq(ScenarioOption)
  BY <1>2, <1>3
<1>5. o \in ScenarioOption
  BY <1>2, <1>4
<1> QED BY <1>1, <1>5 DEF ScenarioOption

LEMMA OutcomeTyped ==
  ASSUME NEW kind \in {"committed", "blocked", "no_turn"}, NEW id \in OptionIds \cup {"text"}
  PROVE  Outcome(kind, id) \in Responses /\ Outcome(kind, id).option = id
  BY AuthoredAssumption DEF Outcome, PublicResponses

LEMMA ExecutesMoves ==
  ASSUME HandlersTyped, ScenarioAccepted, NEW i \in Handlers, At(i, "execute"),
         NEW id \in OptionIds, Executes(i, id), UNCHANGED vars
  PROVE  HandlerMoves
<1> DEFINE h == handler[i]
           made == ExecuteAuthoredOption(h.body.revision, h.world, id)
           pc == IF made = Refused THEN "finish" ELSE "commit"
           scene == IF made = Refused THEN h.world ELSE made
           response == Outcome(IF made = Refused THEN "blocked" ELSE "committed", id)
           r == [h EXCEPT !.pc = pc, !.world = scene, !.response = response]
<1>1. h \in Requests /\ h.world \in Worlds
  BY AtWork DEF At, Requests
<1>2. made \in Worlds \cup {Refused}
  BY <1>1, ExecutedTyped DEF ScenarioAccepted
<1>3. handler' = [handler EXCEPT ![i].pc = pc, ![i].world = scene, ![i].response = response]
  BY DEF Executes, HandlersTyped
<1>4. response \in Responses /\ response.option = id
  BY OutcomeTyped
<1>5. scene \in Worlds /\ pc \in {"commit", "finish"} /\ (pc = "commit" => scene = made)
  BY <1>1, <1>2
<1> HIDE DEF scene, pc, response
<1>6. /\ r \in Requests /\ r.pc = pc /\ r.world = scene /\ r.response = response
      /\ r.session = h.session /\ r.body = h.body
  BY <1>1, <1>4, <1>5 DEF Requests, Steps
<1>7. handler' = [handler EXCEPT ![i] = r]
  BY <1>3 DEF HandlersTyped
<1> HIDE DEF r
<1>8. Answers(i, r)
  BY <1>4, <1>5, <1>6 DEF Answers, At
<1> QED BY <1>6, <1>7, <1>8 DEF HandlerMoves, GoesOn

LEMMA HandlersMove ==
  ASSUME IInv, HandlersTyped, ScenarioAccepted, TypeOK', [AuthoredNext]_authoredVars
  PROVE  HandlerMoves
<1>1. ASSUME NEW i \in Handlers, NEW s \in Sessions, NEW k \in Keys, NEW body \in ParseAction,
             Receive(i, s, k, body)
      PROVE  HandlerMoves
  <2> DEFINE r == [pc |-> "claim", session |-> s, key |-> k, body |-> body, token |-> 0,
                   world |-> InitialWorld, response |-> NoResponse]
  <2>1. r \in Requests /\ r.pc = "claim"
    BY ConstantAssumption DEF Requests, Steps, SafeNat
  <2>2. handler' = [handler EXCEPT ![i] = r]
    BY <1>1 DEF Receive
  <2> HIDE DEF r
  <2> QED BY <2>1, <2>2 DEF HandlerMoves, GoesOn, Begins
<1>2. ASSUME NEW i \in Handlers, NEW t \in Readings, NEW lease \in Durations, Claim(i, t, lease)
      PROVE  HandlerMoves
  <2>1. handler[i] \in Requests
    BY <1>2, AtWork DEF Claim, At
  <2>2. CASE Stop(i)
    BY <2>2, StopMoves
  <2>3. ASSUME ~Stop(i) PROVE HandlerMoves
    <3> DEFINE token == operation'[handler[i].session][handler[i].key].fencingToken
               r == [handler[i] EXCEPT !.pc = "context", !.token = token]
    <3>1. token \in SafeNat
      BY <2>1 DEF Requests, TypeOK, OperationRecord
    <3>2. r \in Requests /\ r.pc = "context"
      BY <2>1, <3>1 DEF Requests, Steps
    <3>3. handler' = [handler EXCEPT ![i].pc = "context", ![i].token = token]
      BY <1>2, <2>3 DEF Claim
    <3>4. handler' = [handler EXCEPT ![i] = r]
      BY <3>3 DEF HandlersTyped
    <3> HIDE DEF r
    <3> QED BY <3>2, <3>4 DEF HandlerMoves, GoesOn, Begins
  <2> QED BY <2>2, <2>3
<1>3. ASSUME NEW i \in Handlers, ResolveContext(i)
      PROVE  HandlerMoves
  <2>1. CASE Stop(i)
    BY <2>1, StopMoves
  <2>2. ASSUME ~Stop(i) PROVE HandlerMoves
    <3> DEFINE scene == session[handler[i].session].state
               r == [handler[i] EXCEPT !.pc = "execute", !.world = scene]
    <3>1. handler[i] \in Requests
      BY <1>3, AtWork DEF ResolveContext, At
    <3>2. scene \in Worlds
      BY <3>1 DEF Requests, IInv, TypeOK, SessionRecord
    <3>3. /\ handler' = [handler EXCEPT ![i].pc = "execute", ![i].world = scene]
          /\ session[handler[i].session].revision = handler[i].body.revision
          /\ UNCHANGED vars
      BY <1>3, <2>2 DEF ResolveContext
    <3>4. /\ r \in Requests /\ r.pc = "execute" /\ r.world = scene
          /\ r.session = handler[i].session /\ r.body = handler[i].body
      BY <3>1, <3>2 DEF Requests, Steps
    <3>5. handler' = [handler EXCEPT ![i] = r]
      BY <3>3 DEF HandlersTyped
    <3> HIDE DEF r
    <3>6. Reads(r)
      BY <3>3, <3>4 DEF Reads
    <3> QED BY <3>4, <3>5, <3>6 DEF HandlerMoves, GoesOn
  <2> QED BY <2>1, <2>2
<1>4. ASSUME NEW i \in Handlers, ExecuteExplicit(i)
      PROVE  HandlerMoves
  <2>1. handler[i].body.input \in OptionIds
    BY <1>4, AtWork DEF ExecuteExplicit, At, Requests, ParseAction
  <2> QED BY <1>4, <2>1, ExecutesMoves DEF ExecuteExplicit
<1>5. ASSUME NEW i \in Handlers, InterpretText(i)
      PROVE  HandlerMoves
  <2>1. CASE \E id \in CreateAuthoredIntentCatalog(handler[i].body.revision, handler[i].world) :
               Executes(i, id)
    BY <1>5, <2>1, CatalogIds, ExecutesMoves DEF InterpretText
  <2>2. CASE handler' = [handler EXCEPT ![i].pc = "finish", ![i].response = Outcome("no_turn", "text")]
    <3> DEFINE response == Outcome("no_turn", "text")
               r == [handler[i] EXCEPT !.pc = "finish", !.response = response]
    <3>1. handler[i] \in Requests /\ handler[i].pc = "execute" /\ UNCHANGED vars
      BY <1>5, AtWork DEF InterpretText, At
    <3>2. response \in Responses
      BY OutcomeTyped
    <3> HIDE DEF response
    <3>3. /\ r \in Requests /\ r.pc = "finish" /\ r.response = response
          /\ r.session = handler[i].session /\ r.body = handler[i].body
      BY <3>1, <3>2 DEF Requests, Steps
    <3>4. handler' = [handler EXCEPT ![i] = r]
      BY <2>2 DEF HandlersTyped, response
    <3> HIDE DEF r
    <3>5. Answers(i, r)
      BY <3>1, <3>2, <3>3 DEF Answers
    <3> QED BY <3>3, <3>4, <3>5 DEF HandlerMoves, GoesOn
  <2> QED BY <1>5, <2>1, <2>2 DEF InterpretText
<1>6. ASSUME NEW i \in Handlers, Stop(i)
      PROVE  HandlerMoves
  BY <1>6, StopMoves
<1>7. CASE handler' = handler
  BY <1>7 DEF HandlerMoves
<1>8. CASE Throws
  BY <1>8 DEF HandlerMoves
<1> QED BY <1>1, <1>2, <1>3, <1>4, <1>5, <1>6, <1>7, <1>8
        DEF AuthoredNext, authoredVars, Commit, Finish, CreateSession

LEMMA HandlersTypedStep ==
  ASSUME HandlersTyped, HandlerMoves
  PROVE  HandlersTyped'
<1>1. CASE handler' = handler
  BY <1>1 DEF HandlersTyped
<1>2. CASE Throws
  BY <1>2, IdleIsNoStep DEF Throws, HandlersTyped
<1>3. ASSUME NEW j \in Handlers, NEW r \in Requests \cup {Idle},
             handler' = [handler EXCEPT ![j] = r], GoesOn(j, r)
      PROVE  HandlersTyped'
  <2>1. r.pc \in {"commit", "finish"} => r.response \in Responses
    BY <1>3, IdleIsNoStep DEF GoesOn, Begins, Reads, Answers
  <2> QED BY <1>3, <2>1 DEF HandlersTyped
<1> QED BY <1>1, <1>2, <1>3 DEF HandlerMoves

-------------------------------------------------------------------------------
(* The worlds                                                              *)

LEMMA ScenarioKept ==
  ASSUME [AuthoredNext]_authoredVars
  PROVE  scenario' = scenario
  BY DEF AuthoredNext, authoredVars, CreateSession, Receive, Claim, ResolveContext,
     ExecuteExplicit, InterpretText, Commit, Finish, Throws

LEMMA SameScenario ==
  ASSUME scenario' = scenario, NEW revision, NEW scene, NEW id
  PROVE  ExecuteAuthoredOption(revision, scene, id)' = ExecuteAuthoredOption(revision, scene, id)
<1>1. Options(revision)' = Options(revision)
  BY DEF Options
<1> QED BY <1>1 DEF ExecuteAuthoredOption

\* What a committed turn does to its session (PublishTurn with the handler's world).
Published(i) ==
  LET s == handler[i].session
      k == handler[i].key IN
  /\ handler[i] \in Requests /\ handler[i].pc = "commit"
  /\ session[s].revision = handler[i].body.revision
  /\ session'[s].state = handler[i].world
  /\ session'[s].revision = session[s].revision + 1
  /\ \E turn \in TurnRecord : turns'[s] = Append(turns[s], turn) /\ turn.operationId = k
  /\ \A x \in Sessions \ {s} : session'[x] = session[x] /\ turns'[x] = turns[x]
  /\ operation'[s][k].publicResponse = handler[i].response

WorldsKept ==
  /\ turns' = turns
  /\ \A s \in Sessions : /\ session'[s].state = session[s].state
                         /\ session'[s].revision = session[s].revision

LEMMA SameTurnsSameWorlds ==
  ASSUME IInv, [Next]_vars, turns' = turns
  PROVE  WorldsKept
<1> SUFFICES ASSUME NEW s \in Sessions
             PROVE  /\ session'[s].state = session[s].state
                    /\ session'[s].revision = session[s].revision
  BY DEF WorldsKept
<1>1. ASSUME NEW turn \in TurnRecord PROVE turns'[s] # Append(turns[s], turn)
  <2>1. turns[s] \in Seq(TurnRecord)
    BY DEF IInv, TypeOK
  <2>2. Len(Append(turns[s], turn)) = Len(turns[s]) + 1 /\ Len(turns[s]) \in Nat
    BY <2>1, AppendProperties, LenProperties
  <2> QED BY <2>2
<1> QED BY <1>1, WorldStep

LEMMA CommitPublishes ==
  ASSUME IInv, HandlersTyped, NEW i \in Handlers, NEW t \in Readings, Commit(i, t)
  PROVE  turns' = turns \/ Published(i)
<1> DEFINE h == handler[i]
           rev == h.body.revision
           candidate == [revision |-> rev + 1, state |-> h.world]
           turn == [turnId |-> <<h.session, h.key>>, operationId |-> h.key,
                    beforeRevision |-> rev, afterRevision |-> rev + 1]
<1>1. /\ At(i, "commit")
      /\ CommitTurn(h.session, h.key, rev, h.token, candidate, turn, h.response, t)
  BY DEF Commit
<1>2. h \in Requests
  BY <1>1, AtWork DEF At
<1>3. /\ h.session \in Sessions /\ h.key \in Keys /\ h.token \in SafeNat /\ rev \in SafeNat
      /\ h.world \in Worlds
  BY <1>2 DEF Requests, ParseAction
<1>4. <<h.session, h.key>> \in TurnIds
  BY <1>3, AuthoredAssumption
<1>5. candidate.state = h.world /\ candidate.revision = rev + 1 /\ turn.operationId = h.key
  OBVIOUS
<1> DEFINE outcome == CommitOutcome(h.session, h.key, rev, h.token, candidate, turn, h.response, t)
<1>6. CASE outcome = "committed"
  <2>1. CompletionOutcome(h.session, h.key, rev, h.token, t) = "holder" /\ rev # MaxSafe
    <3> HIDE DEF h, rev, candidate, turn
    <3> QED BY <1>6 DEF CommitOutcome, CompletionOutcome, OperationOutcome, HolderOutcome
  <2>2. rev + 1 \in SafeNat
    BY <1>3, <2>1, ConstantAssumption DEF SafeNat
  <2>3. turn \in TurnRecord
    BY <1>3, <1>4, <2>2 DEF TurnRecord
  <2> HIDE DEF h, rev, candidate, turn
  <2>4. session[h.session].revision = rev
    BY <1>3, <2>1, HolderFacts
  <2>5. PublishTurn(h.session, h.key, candidate, turn, h.response)
    BY <1>1, <1>6 DEF CommitTurn
  <2>6. /\ session'[h.session].state = h.world
        /\ session'[h.session].revision = rev + 1
        /\ turns'[h.session] = Append(turns[h.session], turn)
        /\ \A x \in Sessions \ {h.session} : session'[x] = session[x] /\ turns'[x] = turns[x]
    BY <1>3, <1>5, <2>5 DEF PublishTurn, IInv, TypeOK, SessionRecord
  <2> DEFINE r == CompletedRecord(h.session, h.key, "completed", turn.turnId, h.response)
  <2>7. r.publicResponse = h.response
    BY <1>3, RecordsTyped DEF IInv, OperationRecord, CompletedRecord
  <2>8. operation' = [operation EXCEPT ![h.session][h.key] = r]
    BY <2>5 DEF PublishTurn
  <2> HIDE DEF r
  <2>9. operation'[h.session][h.key] = r
    BY <1>3, <2>8 DEF IInv, TypeOK
  <2> QED BY <1>1, <1>2, <1>5, <2>3, <2>4, <2>6, <2>7, <2>9 DEF Published, At, h, rev
<1>7. CASE outcome # "committed"
  <2> HIDE DEF h, rev, candidate, turn
  <2> QED BY <1>1, <1>7 DEF CommitTurn, vars
<1> QED BY <1>6, <1>7

LEMMA WorldsMove ==
  ASSUME IInv, HandlersTyped, [AuthoredNext]_authoredVars
  PROVE  \/ WorldsKept
         \/ \E i \in Handlers : Published(i) /\ Stop(i)
<1>1. [Next]_vars
  BY AuthoredStepIsStorageStep
<1>2. ASSUME turns' = turns PROVE WorldsKept
  BY <1>1, <1>2, SameTurnsSameWorlds
<1>3. CASE \E i \in Handlers, t \in Readings : Commit(i, t)
  BY <1>2, <1>3, CommitPublishes DEF Commit
<1>4. ASSUME NEW i \in Handlers, NEW t \in Readings, NEW lease \in Durations, Claim(i, t, lease)
      PROVE  turns' = turns
  BY <1>4 DEF Claim, ClaimOperation, GrantClaim, vars
<1>5. ASSUME NEW i \in Handlers, NEW t \in Readings, Finish(i, t)
      PROVE  turns' = turns
  BY <1>5 DEF Finish, FinishWithoutTurn, ReleaseWithoutTurn, vars
<1>6. CASE UNCHANGED authoredVars
  BY <1>2, <1>6 DEF authoredVars
<1>7. CASE Tick \/ \E s \in Sessions : CreateSession(s)
  BY <1>2, <1>7 DEF Tick, CreateSession, CreateGuestSession
<1>8. CASE \E i \in Handlers : \/ ResolveContext(i) \/ ExecuteExplicit(i) \/ InterpretText(i)
                               \/ \E s \in Sessions, k \in Keys, body \in ParseAction : Receive(i, s, k, body)
  BY <1>2, <1>8 DEF ResolveContext, ExecuteExplicit, InterpretText, Receive, vars
<1>9. CASE Throws
  BY <1>2, <1>9 DEF Throws, vars
<1> QED BY <1>2, <1>3, <1>4, <1>5, <1>6, <1>7, <1>8, <1>9 DEF AuthoredNext

\* A request and the state of its session are as the invariant has it.
WorldFits(r, current, state) ==
  r.pc \in {"execute", "commit"} =>
    /\ r.body.revision <= current
    /\ r.body.revision = current =>
         r.world = IF r.pc = "execute" THEN state
                   ELSE ExecuteAuthoredOption(r.body.revision, state, r.response.option)

\* A session either keeps its world and its revision or is taken to the next one.
LEMMA RevisionMoves ==
  ASSUME AuthoredIInv, [AuthoredNext]_authoredVars, NEW s \in Sessions
  PROVE  \/ /\ session'[s].revision = session[s].revision
            /\ session'[s].state = session[s].state
         \/ session'[s].revision = session[s].revision + 1
<1>1. [Next]_vars
  BY AuthoredStepIsStorageStep DEF AuthoredIInv
<1> QED BY <1>1, WorldStep DEF AuthoredIInv

LEMMA HandlersWorldStep ==
  ASSUME AuthoredIInv, [AuthoredNext]_authoredVars, HandlerMoves, HandlersTyped'
  PROVE  HandlersWorldIsOfItsRevision'
<1>1. ASSUME NEW r \in Requests, NEW current, NEW state,
             current = session'[r.session].revision, state = session'[r.session].state,
             WorldFits(r, session[r.session].revision, session[r.session].state)
      PROVE  WorldFits(r, current, state)
  <2>1. r.session \in Sessions /\ r.body.revision \in Nat
    BY ConstantAssumption DEF Requests, ParseAction, SafeNat
  <2>2. session[r.session].revision \in Nat
    BY <2>1, ConstantAssumption DEF AuthoredIInv, IInv, TypeOK, SessionRecord, SafeNat
  <2> QED BY <1>1, <2>1, <2>2, RevisionMoves DEF WorldFits
<1>2. ASSUME NEW i \in Handlers, handler[i].pc # "idle"
      PROVE  WorldFits(handler[i], session[handler[i].session].revision, session[handler[i].session].state)
  BY DEF AuthoredIInv, HandlersWorldIsOfItsRevision, WorldFits
<1>3. ASSUME NEW i \in Handlers, NEW r, r = handler'[i], r.pc # "idle", NEW current, NEW state,
             current = session'[r.session].revision, state = session'[r.session].state
      PROVE  WorldFits(r, current, state)
  <2>1. r \in Requests
    BY <1>3 DEF HandlersTyped, Idle
  <2>2. CASE r = handler[i]
    BY <1>1, <1>2, <1>3, <2>1, <2>2
  <2>3. CASE GoesOn(i, r)
    <3>1. CASE Begins(r)
      BY <3>1 DEF Begins, WorldFits
    <3>2. CASE Reads(r)
      <4>1. session' = session
        BY <3>2 DEF Reads, vars
      <4>2. r.body.revision \in Nat
        BY <2>1, ConstantAssumption DEF Requests, ParseAction, SafeNat
      <4> QED BY <1>3, <3>2, <4>1, <4>2 DEF Reads, WorldFits
    <3>3. CASE Answers(i, r)
      <4>1. session' = session
        BY <3>3 DEF Answers, vars
      <4>2. WorldFits(handler[i], current, state) /\ handler[i].pc = "execute"
        BY <1>2, <1>3, <3>3, <4>1 DEF Answers
      <4> QED BY <3>3, <4>2 DEF Answers, WorldFits
    <3>4. r # Idle
      BY <1>3, IdleIsNoStep
    <3> QED BY <2>3, <3>1, <3>2, <3>3, <3>4 DEF GoesOn
  <2>4. r = handler[i] \/ GoesOn(i, r)
    <3>1. CASE handler' = handler
      BY <1>3, <3>1
    <3>2. CASE Throws
      BY <1>3, <3>2, IdleIsNoStep DEF Throws
    <3>3. ASSUME NEW j \in Handlers, NEW x \in Requests \cup {Idle},
                 handler' = [handler EXCEPT ![j] = x], GoesOn(j, x)
          PROVE  r = handler[i] \/ GoesOn(i, r)
      BY <1>3, <3>3 DEF AuthoredIInv, HandlersTyped
    <3> QED BY <3>1, <3>2, <3>3 DEF HandlerMoves
  <2> QED BY <2>2, <2>3, <2>4
<1> SUFFICES ASSUME NEW i \in Handlers, NEW h, h = handler'[i], NEW state, state = session'[h.session].state,
                    h.pc \in {"execute", "commit"}
             PROVE  /\ h.body.revision <= session'[h.session].revision
                    /\ h.body.revision = session'[h.session].revision =>
                         h.world = IF h.pc = "execute" THEN state
                                   ELSE ExecuteAuthoredOption(h.body.revision, state, h.response.option)'
  BY DEF HandlersWorldIsOfItsRevision
<1>4. h.pc # "idle"
  OBVIOUS
<1>5. WorldFits(h, session'[h.session].revision, state)
  BY <1>3, <1>4
<1>6. ExecuteAuthoredOption(h.body.revision, state, h.response.option)'
        = ExecuteAuthoredOption(h.body.revision, state, h.response.option)
  BY ScenarioKept, SameScenario
<1> QED BY <1>5, <1>6 DEF WorldFits

-------------------------------------------------------------------------------
(* The plays                                                               *)

\* The options of turns already written are never answered differently.
LEMMA OptionKept ==
  ASSUME IInv, [Next]_vars, NEW s \in Sessions, NEW n \in 1..Len(turns[s]),
         turns'[s][n] = turns[s][n]
  PROVE  OptionOf(s, n)' = OptionOf(s, n)
<1> DEFINE k == turns[s][n].operationId
<1>1. k \in Keys
  BY TurnsTyped DEF IInv
<1>2. operation[s][k].status \in Outcomes
  BY DEF IInv, TurnsExplainRevision, Outcomes
<1> HIDE DEF k
<1>3. operation'[s][k] = operation[s][k]
  BY <1>1, <1>2, DecidedStep
<1> QED BY <1>3 DEF OptionOf, k

\* A play that is kept, with the world a turn has added to it.
LEMMA PlayKept ==
  ASSUME IInv, [Next]_vars, scenario' = scenario, NEW s \in Sessions, NEW play, IsPlay(s, play),
         turns'[s] = turns[s], session'[s].state = session[s].state
  PROVE  IsPlay(s, play)'
<1>1. \A n \in 1..Len(turns[s]) : OptionOf(s, n)' = OptionOf(s, n)
  BY OptionKept
<1>2. ASSUME NEW n \in 1..Len(turns[s])
      PROVE  play[n] = ExecuteAuthoredOption(n - 1, play[n - 1], OptionOf(s, n))'
  <2> DEFINE scene == play[n - 1]
             revision == n - 1
  <2>1. PICK id : id = OptionOf(s, n) /\ id = OptionOf(s, n)'
    BY <1>1
  <2>2. play[n] = ExecuteAuthoredOption(revision, scene, id)
    BY <2>1 DEF IsPlay, Follows
  <2>3. ExecuteAuthoredOption(revision, scene, id)' = ExecuteAuthoredOption(revision, scene, id)
    BY SameScenario
  <2> QED BY <2>1, <2>2, <2>3
<1> QED BY <1>2 DEF IsPlay, Follows

LEMMA PlayExtended ==
  ASSUME AuthoredIInv, [Next]_vars, scenario' = scenario, NEW i \in Handlers, Published(i),
         NEW s \in Sessions, s = handler[i].session, NEW play, IsPlay(s, play)
  PROVE  \E longer : IsPlay(s, longer)'
<1> DEFINE h == handler[i]
<1>1. s = h.session
  OBVIOUS
<1>2. PICK len \in Nat : len = Len(turns[s]) /\ len = session[s].revision
  <2>1. turns[s] \in Seq(TurnRecord)
    BY DEF AuthoredIInv, IInv, TypeOK
  <2> QED BY <2>1, LenProperties DEF AuthoredIInv, IInv, TurnsExplainRevision
<1>3. PICK id : id = h.response.option
  OBVIOUS
<1>4. PICK scene \in Worlds : scene = h.world
  BY DEF Published, Requests
<1>5. /\ play \in [0..len -> Worlds] /\ play[0] = InitialWorld
      /\ \A n \in 1..len : play[n] = ExecuteAuthoredOption(n - 1, play[n - 1], OptionOf(s, n))
      /\ session[s].state = play[len]
  BY <1>1, <1>2 DEF IsPlay, Follows
<1>6. scene = ExecuteAuthoredOption(len, play[len], id)
  BY <1>1, <1>2, <1>3, <1>4, <1>5 DEF Published, AuthoredIInv, HandlersWorldIsOfItsRevision
<1>7. PICK turn \in TurnRecord : turns'[s] = Append(turns[s], turn) /\ turn.operationId = h.key
  BY <1>1 DEF Published
<1>8. /\ Len(turns'[s]) = len + 1 /\ turns'[s][len + 1] = turn
      /\ \A n \in 1..len : turns'[s][n] = turns[s][n]
  <2>1. PICK q \in Seq(TurnRecord) : q = turns[s]
    BY DEF AuthoredIInv, IInv, TypeOK
  <2>2. /\ Len(Append(q, turn)) = Len(q) + 1 /\ Append(q, turn)[Len(q) + 1] = turn
        /\ \A n \in 1..Len(q) : Append(q, turn)[n] = q[n]
    BY <2>1, AppendProperties
  <2> QED BY <1>2, <1>7, <2>1, <2>2
<1>9. OptionOf(s, len + 1)' = id
  BY <1>1, <1>3, <1>7, <1>8 DEF OptionOf, Published
<1>10. \A n \in 1..len : OptionOf(s, n)' = OptionOf(s, n)
  BY <1>2, <1>8, OptionKept DEF AuthoredIInv
<1> DEFINE longer == [n \in 0..(len + 1) |-> IF n = len + 1 THEN scene ELSE play[n]]
<1>11. longer \in [0..(len + 1) -> Worlds] /\ longer[0] = InitialWorld
  <2> HIDE DEF h
  <2>1. ASSUME NEW n \in 0..(len + 1)
        PROVE  (IF n = len + 1 THEN scene ELSE play[n]) \in Worlds
    <3>1. CASE n = len + 1
      BY <1>4, <3>1
    <3>2. CASE n \in 0..len
      BY <1>2, <1>5, <3>2
    <3> QED BY <1>2, <3>1, <3>2
  <2>2. 0 \in 0..(len + 1) /\ 0 # len + 1
    BY <1>2
  <2> QED BY <1>5, <2>1, <2>2
<1>12. longer[len + 1] = scene /\ \A n \in 0..len : longer[n] = play[n]
  BY <1>2
<1> HIDE DEF longer, h
<1>13. ASSUME NEW n \in 1..(len + 1)
       PROVE  longer[n] = ExecuteAuthoredOption(n - 1, longer[n - 1], OptionOf(s, n))'
  <2>1. PICK revision, before, o : revision = n - 1 /\ before = longer[n - 1] /\ o = OptionOf(s, n)'
    OBVIOUS
  <2>2. ExecuteAuthoredOption(revision, before, o)' = ExecuteAuthoredOption(revision, before, o)
    BY SameScenario
  <2>3. CASE n = len + 1
    <3>1. revision = len /\ before = play[len] /\ o = id
      BY <1>2, <1>9, <1>12, <2>1, <2>3
    <3> QED BY <1>6, <1>12, <2>1, <2>2, <2>3, <3>1
  <2>4. CASE n \in 1..len
    <3>1. before = play[n - 1] /\ o = OptionOf(s, n)
      BY <1>10, <1>12, <2>1, <2>4
    <3> QED BY <1>5, <1>12, <2>1, <2>2, <2>4, <3>1
  <2> QED BY <1>2, <2>3, <2>4
<1>14. session'[s].state = longer[len + 1]
  BY <1>1, <1>4, <1>12 DEF Published, h
<1>15. IsPlay(s, longer)'
  BY <1>8, <1>11, <1>13, <1>14 DEF IsPlay, Follows
<1> QED BY <1>15

LEMMA SessionsArePlayedStep ==
  ASSUME AuthoredIInv, [AuthoredNext]_authoredVars
  PROVE  SessionsArePlayed'
<1>1. [Next]_vars /\ scenario' = scenario
  BY AuthoredStepIsStorageStep, ScenarioKept DEF AuthoredIInv
<1> SUFFICES ASSUME NEW s \in Sessions PROVE \E play : IsPlay(s, play)'
  BY DEF SessionsArePlayed
<1>2. PICK play : IsPlay(s, play)
  BY DEF AuthoredIInv, SessionsArePlayed
<1>3. CASE turns'[s] = turns[s] /\ session'[s].state = session[s].state
  BY <1>1, <1>2, <1>3, PlayKept DEF AuthoredIInv
<1>4. ASSUME NEW i \in Handlers, Published(i), s = handler[i].session
      PROVE  \E longer : IsPlay(s, longer)'
  BY <1>1, <1>2, <1>4, PlayExtended
<1> QED BY <1>3, <1>4, WorldsMove DEF AuthoredIInv, WorldsKept, Published

LEMMA AuthoredInvariance == AuthoredSpec => []AuthoredIInv
<1>1. ASSUME AuthoredIInv, [AuthoredNext]_authoredVars PROVE AuthoredIInv'
  <2>1. [Next]_vars /\ scenario' = scenario
    BY <1>1, AuthoredStepIsStorageStep, ScenarioKept DEF AuthoredIInv
  <2>2. IInv' /\ TypeOK'
    BY <1>1, <2>1, IInvInductive DEF AuthoredIInv, IInv
  <2>3. HandlerMoves
    BY <1>1, <2>2, HandlersMove DEF AuthoredIInv
  <2>4. HandlersTyped'
    BY <1>1, <2>3, HandlersTypedStep DEF AuthoredIInv
  <2>5. ScenarioAccepted'
    BY <1>1, <2>1 DEF AuthoredIInv, ScenarioAccepted
  <2>6. HandlersWorldIsOfItsRevision'
    BY <1>1, <2>3, <2>4, HandlersWorldStep
  <2>7. SessionsArePlayed'
    BY <1>1, SessionsArePlayedStep
  <2> QED BY <2>2, <2>4, <2>5, <2>6, <2>7 DEF AuthoredIInv
<1> QED BY InitAuthoredIInv, <1>1, PTL DEF AuthoredSpec

-------------------------------------------------------------------------------
(* The theorems                                                            *)

\* A play is the function PlayedAsAuthored defines by recursion, and the only one.
LEMMA PlaysAreTrue ==
  ASSUME NEW s \in Sessions, NEW len \in Nat, len = Len(turns[s]),
         NEW play, Follows(s, play), NEW played, Follows(s, played)
  PROVE  \A n \in 0..len : played[n] = play[n]
<1> DEFINE S == {n \in Nat : n <= len => played[n] = play[n]}
<1>1. 0 \in S
  BY DEF Follows
<1>2. ASSUME NEW n \in Nat, n + 1 <= len, played[n] = play[n]
      PROVE  played[n + 1] = play[n + 1]
  <2>1. n + 1 \in 1..Len(turns[s]) /\ (n + 1) - 1 = n
    BY <1>2
  <2> QED BY <1>2, <2>1 DEF Follows
<1>3. \A n \in S : n + 1 \in S
  BY <1>2
<1> HIDE DEF S
<1>4. S = Nat
  <2>1. S \in SUBSET Nat
    BY DEF S
  <2> QED BY <1>1, <1>3, <2>1, Induction
<1>5. ASSUME NEW n \in 0..len PROVE played[n] = play[n]
  <2>1. n \in S /\ n <= len
    BY <1>4
  <2> QED BY <2>1 DEF S
<1> QED BY <1>5

\* The world of every session is the scenario played from its start with the options
\* its turns were answered with, for any scenario that is accepted and any number of
\* requests, however they interleave, are interpreted or lost.
THEOREM WorldsArePlayed == AuthoredSpec => []PlayedAsAuthored
<1>1. ASSUME AuthoredIInv PROVE PlayedAsAuthored
  <2> SUFFICES ASSUME NEW s \in Sessions
      PROVE LET OptionOf1(n) == operation[s][turns[s][n].operationId].publicResponse.option
                played[n \in 0..Len(turns[s])] ==
                  IF n = 0 THEN InitialWorld
                  ELSE ExecuteAuthoredOption(n - 1, played[n - 1], OptionOf1(n))
            IN /\ \A n \in 0..Len(turns[s]) : played[n] # Refused
               /\ \A n \in 1..Len(turns[s]) : ~played[n - 1].terminal
               /\ session[s].state = played[Len(turns[s])]
    BY DEF PlayedAsAuthored
  <2>1. PICK play : IsPlay(s, play)
    BY <1>1 DEF AuthoredIInv, SessionsArePlayed
  <2> DEFINE E(a) == [n \in 0..Len(turns[s]) |->
                        IF n = 0 THEN InitialWorld
                        ELSE ExecuteAuthoredOption(n - 1, a[n - 1], OptionOf(s, n))]
             played == CHOOSE a : a = E(a)
  <2>2. PICK len \in Nat : len = Len(turns[s])
    <3>1. turns[s] \in Seq(TurnRecord)
      BY <1>1 DEF AuthoredIInv, IInv, TypeOK
    <3> QED BY <3>1, LenProperties
  <2>3. play = E(play)
    <3>1. \A n \in 1..len : play[n] = ExecuteAuthoredOption(n - 1, play[n - 1], OptionOf(s, n))
      BY <2>1, <2>2 DEF IsPlay, Follows
    <3>2. play \in [0..len -> Worlds] /\ play[0] = InitialWorld
      BY <2>1, <2>2 DEF IsPlay, Follows
    <3> QED BY <2>2, <3>1, <3>2
  <2>4. played = E(played)
    BY <2>3
  <2> HIDE DEF played
  <2>5. \A n \in 0..len : played[n] = play[n]
    <3>1. Follows(s, played)
      BY <2>2, <2>4 DEF Follows
    <3> HIDE DEF E
    <3> QED BY <2>1, <2>2, <3>1, PlaysAreTrue DEF IsPlay
  <2>6. \A n \in 0..len : played[n] \in Worlds
    BY <2>1, <2>2, <2>5 DEF IsPlay, Follows
  <2>7. ASSUME NEW n \in 1..len PROVE ~played[n - 1].terminal
    <3>1. played[n] = ExecuteAuthoredOption(n - 1, played[n - 1], OptionOf(s, n))
      BY <2>2, <2>4
    <3>2. played[n] # Refused
      BY <2>6, RefusedIsNoWorld
    <3>3. ~Ended(played[n - 1])
      BY <3>1, <3>2 DEF ExecuteAuthoredOption
    <3> QED BY <3>3 DEF Ended
  <2>8. session[s].state = played[len]
    BY <2>1, <2>2, <2>5 DEF IsPlay, Follows
  <2> QED BY <2>2, <2>6, <2>7, <2>8, RefusedIsNoWorld DEF played, OptionOf
<1> QED BY AuthoredInvariance, <1>1, PTL

\* A scenario that was accepted never breaks while it is played: that its cases were
\* tried on the initial world is enough for every world a session can reach.
THEOREM AcceptedCasesHold == AuthoredSpec => []CasesNeverBreak
<1>1. ASSUME AuthoredIInv PROVE CasesNeverBreak
  <2> SUFFICES ASSUME NEW s \in Sessions, NEW b \in DOMAIN scenario, NEW o \in DOMAIN scenario[b]
               PROVE  ResolveOption(scenario[b][o], session[s].state).status # "broken"
    BY DEF CasesNeverBreak
  <2>1. scenario \in Seq(Seq(ScenarioOption)) /\ NormalizeScenario(scenario)
    BY <1>1, AuthoredAssumption DEF AuthoredIInv, ScenarioAccepted
  <2>2. scenario[b] \in Seq(ScenarioOption)
    BY <2>1
  <2>3. scenario[b][o] \in ScenarioOption
    BY <2>2
  <2>4. o \in 1..MaxOptions
    <3>1. Len(scenario[b]) \in 1..MaxOptions /\ o \in 1..Len(scenario[b])
      BY <2>1, <2>2 DEF NormalizeScenario
    <3> QED BY <3>1, AuthoredAssumption
  <2>5. <<b, o>> \in OptionPlaces(scenario) /\ OptionAt(scenario, <<b, o>>) = scenario[b][o]
    BY <2>4 DEF OptionPlaces, OptionAt
  <2>6. \A i \in DOMAIN scenario[b][o].cases : NormalizeCase(scenario[b][o].cases[i])
    BY <2>1, <2>5 DEF NormalizeScenario
  <2> QED BY <2>3, <2>6, NeverBroken
<1> QED BY AuthoredInvariance, <1>1, PTL

-------------------------------------------------------------------------------
(* Sorting                                                                   *)

InOrder(s, n, R) == \A i, j \in 1..n : i < j => <<s[i], s[j]>> \in R

\* R puts any two members of S in order, and never a member before itself.
Orders(R, S) ==
  /\ \A x, y \in S : x # y => <<x, y>> \in R \/ <<y, x>> \in R
  /\ \A x \in S : <<x, x>> \notin R
  /\ \A x, y, z \in S : <<x, y>> \in R /\ <<y, z>> \in R => <<x, z>> \in R

\* A sorted list takes one more in.
LEMMA OneMoreInOrder ==
  ASSUME NEW n \in Nat, NEW S, NEW R, Orders(R, S), NEW s \in [1..n -> S], InOrder(s, n, R),
         NEW x \in S, \A i \in 1..n : s[i] # x
  PROVE  \E t \in [1..(n + 1) -> S] : InOrder(t, n + 1, R)
<1> DEFINE Places == {i \in 1..(n + 1) : i = n + 1 \/ <<x, s[i]>> \in R}
<1>1. Places \in SUBSET Nat /\ n + 1 \in Places
  OBVIOUS
<1> HIDE DEF Places
<1>2. PICK k \in Places : \A i \in Places : k <= i
  BY <1>1, Least
<1>3. k \in 1..(n + 1)
  BY <1>2 DEF Places
<1>4. ASSUME NEW i \in 1..n, i < k PROVE <<s[i], x>> \in R
  <2>1. i \notin Places
    BY <1>2, <1>3, <1>4
  <2>2. <<x, s[i]>> \notin R
    BY <2>1 DEF Places
  <2> QED BY <2>2 DEF Orders
<1>5. ASSUME NEW i \in 1..n, i >= k PROVE <<x, s[i]>> \in R
  <2>1. k \in 1..n
    BY <1>3, <1>5
  <2>2. <<x, s[k]>> \in R
    BY <1>2, <2>1 DEF Places
  <2>3. CASE i = k
    BY <2>2, <2>3
  <2>4. CASE i # k
    <3>1. <<s[k], s[i]>> \in R
      BY <1>3, <1>5, <2>1, <2>4 DEF InOrder
    <3>2. s[k] \in S /\ s[i] \in S
      BY <2>1
    <3> QED BY <2>2, <3>1, <3>2 DEF Orders
  <2> QED BY <2>3, <2>4
<1> DEFINE t == [i \in 1..(n + 1) |-> IF i < k THEN s[i] ELSE IF i = k THEN x ELSE s[i - 1]]
<1>6. t \in [1..(n + 1) -> S]
  BY <1>3
<1>7. ASSUME NEW i \in 1..(n + 1), NEW j \in 1..(n + 1), i < j PROVE <<t[i], t[j]>> \in R
  <2>1. CASE j < k
    <3>1. t[i] = s[i] /\ t[j] = s[j] /\ i \in 1..n /\ j \in 1..n
      BY <1>3, <1>7, <2>1
    <3> HIDE DEF t
    <3> QED BY <1>7, <3>1 DEF InOrder
  <2>2. CASE j = k
    <3>1. t[i] = s[i] /\ t[j] = x /\ i \in 1..n /\ i < k
      BY <1>3, <1>7, <2>2
    <3> HIDE DEF t
    <3> QED BY <1>4, <3>1
  <2>3. CASE j > k /\ i < k
    <3>1. t[i] = s[i] /\ t[j] = s[j - 1] /\ i \in 1..n /\ j - 1 \in 1..n /\ i < j - 1
      BY <1>3, <1>7, <2>3
    <3> HIDE DEF t
    <3> QED BY <3>1 DEF InOrder
  <2>4. CASE j > k /\ i = k
    <3>1. t[i] = x /\ t[j] = s[j - 1] /\ j - 1 \in 1..n /\ j - 1 >= k
      BY <1>3, <1>7, <2>4
    <3> HIDE DEF t
    <3> QED BY <1>5, <3>1
  <2>5. CASE j > k /\ i > k
    <3>1. t[i] = s[i - 1] /\ t[j] = s[j - 1] /\ i - 1 \in 1..n /\ j - 1 \in 1..n /\ i - 1 < j - 1
      BY <1>3, <1>7, <2>5
    <3> HIDE DEF t
    <3> QED BY <3>1 DEF InOrder
  <2> QED BY <1>3, <2>1, <2>2, <2>3, <2>4, <2>5
<1> HIDE DEF t
<1> QED BY <1>6, <1>7 DEF InOrder

LEMMA ArrangementExists ==
  ASSUME NEW S, IsFiniteSet(S), NEW R, Orders(R, S)
  PROVE  \E s \in [1..Cardinality(S) -> S] : InOrder(s, Cardinality(S), R)
<1> DEFINE Can(T, n) == \E s \in [1..n -> T] : InOrder(s, n, R)
           Q == {n \in Nat : \A T \in SUBSET S : Cardinality(T) = n => Can(T, n)}
<1>1. \A T \in SUBSET S : IsFiniteSet(T) /\ Cardinality(T) \in Nat
  BY FS_Subset, FS_CardinalityType
<1>2. 0 \in Q
  <2> SUFFICES ASSUME NEW T \in SUBSET S PROVE Can(T, 0)
    OBVIOUS
  <2> DEFINE s == [i \in 1..0 |-> {}]
  <2>1. s \in [1..0 -> T] /\ InOrder(s, 0, R)
    BY DEF InOrder
  <2> HIDE DEF s
  <2> QED BY <2>1
<1>3. \A n \in Q : n + 1 \in Q
  <2> SUFFICES ASSUME NEW n \in Q, NEW T \in SUBSET S, Cardinality(T) = n + 1 PROVE Can(T, n + 1)
    OBVIOUS
  <2>1. n \in Nat
    OBVIOUS
  <2>2. T # {}
    BY <1>1, <2>1, FS_EmptySet
  <2>3. PICK x \in T : TRUE
    BY <2>2
  <2>4. Cardinality(T \ {x}) = n
    BY <1>1, <2>1, <2>3, FS_RemoveElement
  <2>5. PICK s \in [1..n -> T \ {x}] : InOrder(s, n, R)
    BY <2>4
  <2>6. s \in [1..n -> T] /\ \A i \in 1..n : s[i] # x
    OBVIOUS
  <2>7. Orders(R, T)
    BY DEF Orders
  <2> HIDE DEF Q
  <2> QED BY <2>1, <2>3, <2>5, <2>6, <2>7, OneMoreInOrder
<1>4. Q = Nat
  <2>1. Q \in SUBSET Nat
    OBVIOUS
  <2> HIDE DEF Q
  <2> QED BY <1>2, <1>3, <2>1, Induction
<1>5. Cardinality(S) \in Q
  BY <1>1, <1>4
<1> QED BY <1>5

\* What is in order has every member once.
LEMMA ArrangementIsAll ==
  ASSUME NEW S, IsFiniteSet(S), NEW R, Orders(R, S),
         NEW s \in [1..Cardinality(S) -> S], InOrder(s, Cardinality(S), R)
  PROVE  /\ s \in Seq(S) /\ Len(s) = Cardinality(S)
         /\ IsInjective(s) /\ Range(s) = S
<1> DEFINE n == Cardinality(S)
<1>1. n \in Nat
  BY FS_CardinalityType
<1> HIDE DEF n
<1>2. s \in [1..n -> S] /\ InOrder(s, n, R)
  BY DEF n
<1>3. ASSUME NEW i \in 1..n, NEW j \in 1..n, s[i] = s[j] PROVE i = j
  <2>1. i < j => <<s[i], s[j]>> \in R
    BY <1>2 DEF InOrder
  <2>2. j < i => <<s[j], s[i]>> \in R
    BY <1>2 DEF InOrder
  <2>3. s[i] \in S /\ <<s[i], s[i]>> \notin R
    BY <1>2 DEF Orders
  <2> QED BY <1>1, <1>3, <2>1, <2>2, <2>3
<1>4. IsInjective(s)
  BY <1>2, <1>3 DEF IsInjective
<1>5. s \in Injection(1..n, S)
  BY <1>2, <1>4 DEF Injection
<1>6. IsFiniteSet(1..n) /\ Cardinality(1..n) = n
  BY <1>1, FS_Interval
<1>7. s \in Surjection(1..n, S)
  BY <1>5, <1>6, FS_Injection DEF n
<1>8. Range(s) = S
  BY <1>2, <1>7 DEF Surjection, Range
<1>9. s \in Seq(S) /\ Len(s) = n
  BY <1>1, <1>2
<1> QED BY <1>4, <1>8, <1>9 DEF n

-------------------------------------------------------------------------------
(* FoldLeft, which the library defines as a fold of a set of positions       *)

LEMMA MaxIs ==
  ASSUME NEW N \in Nat, NEW t \in SUBSET (1..N), t # {}
  PROVE  Max(t) \in t /\ \A y \in t : y <= Max(t)
<1> DEFINE Above == {n \in Nat : \A y \in t : y <= n}
<1>1. N \in Above /\ Above \in SUBSET Nat
  OBVIOUS
<1> HIDE DEF Above
<1>2. PICK m \in Above : \A k \in Above : m <= k
  BY <1>1, Least
<1>3. m \in t
  <2>1. m # 0
    <3>1. PICK y \in t : y \in 1..N
      OBVIOUS
    <3> QED BY <1>2, <3>1 DEF Above
  <2>2. m - 1 \in Nat /\ m - 1 \notin Above
    BY <1>2, <2>1 DEF Above
  <2>3. PICK y \in t : ~(y <= m - 1)
    BY <2>2 DEF Above
  <2>4. y = m
    BY <1>2, <2>3 DEF Above
  <2> QED BY <2>4
<1>4. \A y \in t : m >= y
  BY <1>2 DEF Above
<1> QED BY <1>3, <1>4 DEF Max

LEMMA MaxRest ==
  ASSUME NEW n \in Nat, NEW t \in SUBSET (1..(n + 1)), t # {}
  PROVE  Max(t) \in 1..(n + 1) /\ t \ {Max(t)} \in SUBSET (1..n)
<1>1. n + 1 \in Nat
  OBVIOUS
<1>2. Max(t) \in t /\ \A y \in t : y <= Max(t)
  BY <1>1, MaxIs
<1>3. ASSUME NEW y \in t \ {Max(t)} PROVE y \in 1..n
  <2>1. PICK m \in 1..(n + 1) : m = Max(t)
    BY <1>2
  <2>2. y \in 1..(n + 1) /\ y # m /\ y <= m
    BY <1>2, <2>1
  <2> QED BY <2>2
<1> QED BY <1>2, <1>3

IsSetFold(f, F, base, D, N) ==
  /\ f \in [SUBSET (1..N) -> D]
  /\ \A t \in SUBSET (1..N) : f[t] = IF t = {} THEN base ELSE F[<<f[t \ {Max(t)}], Max(t)>>]

LEMMA SetFolds ==
  ASSUME NEW N \in Nat, NEW D, NEW base \in D, NEW F, Maps(F, D, N)
  PROVE  \E f : IsSetFold(f, F, base, D, N)
<1> DEFINE P == SUBSET (1..N)
           DD == [P -> D]
           Once(f) == [t \in P |-> IF t = {} THEN base ELSE F[<<f[t \ {Max(t)}], Max(t)>>]]
           G == [x \in DD \X (1..N) |-> Once(x[1])]
           g0 == [t \in P |-> base]
<1>1. \A f \in DD : Once(f) \in DD
  <2> SUFFICES ASSUME NEW f \in DD, NEW t \in P, t # {} PROVE F[<<f[t \ {Max(t)}], Max(t)>>] \in D
    OBVIOUS
  <2>1. Max(t) \in 1..N
    BY MaxIs
  <2>2. f[t \ {Max(t)}] \in D
    OBVIOUS
  <2> QED BY <2>1, <2>2 DEF Maps
<1>2. Maps(G, DD, N)
  BY <1>1 DEF Maps
<1>3. g0 \in DD
  OBVIOUS
<1>4. \A f \in DD, n \in 1..N : G[<<f, n>>] = Once(f)
  OBVIOUS
<1>5. \A f \in DD, t \in P : Once(f)[t] = IF t = {} THEN base ELSE F[<<f[t \ {Max(t)}], Max(t)>>]
  OBVIOUS
<1>6. g0[{}] = base
  OBVIOUS
<1> HIDE DEF DD, Once, G, g0
<1>7. PICK g : IsIterate(g, G, g0, DD, N)
  BY <1>2, <1>3, Iterates
<1>8. \A n \in 0..N : g[n] \in DD
  BY <1>7 DEF IsIterate
<1>9. \A n \in 0..(N - 1) : g[n + 1] = Once(g[n])
  <2> SUFFICES ASSUME NEW n \in 0..(N - 1) PROVE g[n + 1] = Once(g[n])
    OBVIOUS
  <2>1. n + 1 \in 1..N /\ n \in 0..N /\ (n + 1) - 1 = n
    OBVIOUS
  <2>2. g[n + 1] = G[<<g[n], n + 1>>]
    BY <1>7, <2>1 DEF IsIterate
  <2> QED BY <1>4, <1>8, <2>1, <2>2
<1> DEFINE Stable(n) == \A t \in SUBSET (1..n) : g[n + 1][t] = g[n][t]
           S == {n \in Nat : n <= N - 1 => Stable(n)}
<1>10. 0 \in S
  <2> SUFFICES ASSUME 0 <= N - 1, NEW t \in SUBSET (1..0) PROVE g[1][t] = g[0][t]
    OBVIOUS
  <2>1. t = {} /\ t \in P
    OBVIOUS
  <2>2. g[1] = Once(g[0]) /\ g[0] \in DD
    BY <1>8, <1>9
  <2>3. g[0] = g0
    BY <1>7 DEF IsIterate
  <2>4. g[1][t] = base
    BY <1>5, <2>1, <2>2
  <2> QED BY <1>6, <2>1, <2>3, <2>4
<1>11. \A n \in S : n + 1 \in S
  <2> SUFFICES ASSUME NEW n \in S, n + 1 <= N - 1, NEW t \in SUBSET (1..(n + 1))
               PROVE  g[n + 2][t] = g[n + 1][t]
    OBVIOUS
  <2>1. t \in P /\ n \in 0..(N - 1) /\ n + 1 \in 0..(N - 1)
    OBVIOUS
  <2>2. g[n + 2] = Once(g[n + 1]) /\ g[n + 1] = Once(g[n]) /\ g[n] \in DD /\ g[n + 1] \in DD
    BY <1>8, <1>9, <2>1
  <2>3. CASE t = {}
    BY <1>5, <2>1, <2>2, <2>3
  <2>4. CASE t # {}
    <3>1. t \ {Max(t)} \in SUBSET (1..n)
      BY <2>4, MaxRest
    <3>2. g[n + 1][t \ {Max(t)}] = g[n][t \ {Max(t)}]
      BY <2>1, <3>1
    <3>3. /\ Once(g[n + 1])[t] = F[<<g[n + 1][t \ {Max(t)}], Max(t)>>]
          /\ Once(g[n])[t] = F[<<g[n][t \ {Max(t)}], Max(t)>>]
      <4>1. ASSUME NEW f \in DD PROVE Once(f)[t] = F[<<f[t \ {Max(t)}], Max(t)>>]
        BY <1>5, <2>1, <2>4
      <4> QED BY <2>2, <4>1
    <3> QED BY <2>2, <3>2, <3>3
  <2> QED BY <2>3, <2>4
<1>12. S = Nat
  <2> HIDE DEF S
  <2>1. S \in SUBSET Nat
    BY DEF S
  <2> QED BY <1>10, <1>11, <2>1, Induction
<1>13. CASE N = 0
  <2>1. P = {{}}
    BY <1>13
  <2>2. g[0] = g0 /\ g[0] \in DD
    BY <1>7, <1>8 DEF IsIterate
  <2>3. IsSetFold(g[0], F, base, D, N)
    BY <1>6, <2>1, <2>2 DEF IsSetFold, DD
  <2> QED BY <2>3
<1>14. CASE N # 0
  <2> DEFINE m == N - 1
  <2>1. m \in Nat /\ m \in 0..(N - 1) /\ N = m + 1
    BY <1>14
  <2>2. Stable(m)
    BY <1>12, <2>1
  <2>3. g[N] = Once(g[m]) /\ g[N] \in DD /\ g[m] \in DD
    BY <1>8, <1>9, <2>1
  <2>4. ASSUME NEW t \in P PROVE g[N][t] = IF t = {} THEN base ELSE F[<<g[N][t \ {Max(t)}], Max(t)>>]
    <3>1. CASE t = {}
      BY <1>5, <2>3, <3>1
    <3>2. CASE t # {}
      <4>1. t \ {Max(t)} \in SUBSET (1..m)
        BY <3>2, <2>1, MaxRest
      <4>2. g[N][t \ {Max(t)}] = g[m][t \ {Max(t)}]
        BY <2>1, <2>2, <4>1
      <4> QED BY <1>5, <2>3, <3>2, <4>2
    <3> QED BY <3>1, <3>2
  <2>5. IsSetFold(g[N], F, base, D, N)
    BY <2>3, <2>4 DEF IsSetFold, DD
  <2> QED BY <2>5
<1> QED BY <1>13, <1>14

LEMMA MaxOfInterval ==
  ASSUME NEW n \in Nat
  PROVE  Max(1..(n + 1)) = n + 1 /\ (1..(n + 1)) \ {n + 1} = 1..n
<1> DEFINE m == Max(1..(n + 1))
<1>1. n + 1 \in Nat /\ n + 1 \in 1..(n + 1)
  OBVIOUS
<1>2. m \in 1..(n + 1) /\ n + 1 <= m
  BY <1>1, MaxIs
<1> HIDE DEF m
<1>3. m = n + 1
  BY <1>2
<1> QED BY <1>3 DEF m

-------------------------------------------------------------------------------
(* Plugins: lists of ids                                                     *)

LEMMA InsertAtIs ==
  ASSUME NEW T, NEW s \in Seq(T), NEW e \in T, NEW i \in 1..(Len(s) + 1)
  PROVE  /\ InsertAt(s, i, e) \in Seq(T) /\ Len(InsertAt(s, i, e)) = Len(s) + 1
         /\ \A j \in 1..(Len(s) + 1) :
              InsertAt(s, i, e)[j] = IF j < i THEN s[j] ELSE IF j = i THEN e ELSE s[j - 1]
<1> DEFINE front == SubSeq(s, 1, i - 1)
           back == SubSeq(s, i, Len(s))
<1>1. PICK len \in Nat : len = Len(s)
  OBVIOUS
<1>2. front \in Seq(T) /\ Len(front) = i - 1 /\ \A j \in 1..(i - 1) : front[j] = s[j]
  BY <1>1, SubSeqProperties
<1>3. back \in Seq(T) /\ Len(back) = len - i + 1 /\ \A j \in 1..(len - i + 1) : back[j] = s[i + j - 1]
  BY <1>1, SubSeqProperties
<1> HIDE DEF front, back
<1> DEFINE fe == front \o <<e>>
<1>4. fe \in Seq(T) /\ Len(fe) = i /\ fe[i] = e /\ \A j \in 1..(i - 1) : fe[j] = s[j]
  BY <1>1, <1>2
<1> HIDE DEF fe
<1> DEFINE r == fe \o back
<1>5. r \in Seq(T) /\ Len(r) = len + 1
  BY <1>1, <1>3, <1>4
<1>6. \A j \in 1..(len + 1) : r[j] = IF j <= i THEN fe[j] ELSE back[j - i]
  BY <1>1, <1>3, <1>4
<1>7. r = InsertAt(s, i, e)
  BY DEF InsertAt, front, back, fe
<1> HIDE DEF r
<1>8. \A j \in 1..(len + 1) : r[j] = IF j < i THEN s[j] ELSE IF j = i THEN e ELSE s[j - 1]
  <2> TAKE j \in 1..(len + 1)
  <2>1. CASE j <= i
    BY <1>4, <1>6, <2>1
  <2>2. CASE j > i
    <3>1. j - i \in 1..(len - i + 1) /\ i + (j - i) - 1 = j - 1
      BY <1>1, <2>2
    <3>2. r[j] = back[j - i] /\ back[j - i] = s[i + (j - i) - 1]
      BY <1>3, <1>6, <2>2, <3>1
    <3> QED BY <2>2, <3>1, <3>2
  <2> QED BY <1>1, <2>1, <2>2
<1> QED BY <1>1, <1>5, <1>7, <1>8

LEMMA PlaceInIs ==
  ASSUME NEW list \in Seq(Plugins), NEW p \in Range(list)
  PROVE  PlaceIn(list, p) \in 1..Len(list) /\ list[PlaceIn(list, p)] = p
<1>1. \E i \in DOMAIN list : list[i] = p
  BY DEF Range
<1> QED BY <1>1 DEF PlaceIn

LEMMA InsertIndex ==
  ASSUME NEW ids \in Seq(Plugins), NEW id \in Plugins
  PROVE  \E i \in 1..(Len(ids) + 1) : InsertSorted(ids, id) = InsertAt(ids, i, id)
<1> DEFINE Fits(i) == /\ \A j \in 1..i - 1 : PlaceIn(Locale, ids[j]) < PlaceIn(Locale, id)
                      /\ i <= Len(ids) => PlaceIn(Locale, ids[i]) >= PlaceIn(Locale, id)
           Later == {i \in 1..(Len(ids) + 1) :
                       i = Len(ids) + 1 \/ PlaceIn(Locale, ids[i]) >= PlaceIn(Locale, id)}
<1>1. PICK len \in Nat : len = Len(ids)
  OBVIOUS
<1>2. \A p \in Plugins : PlaceIn(Locale, p) \in Nat
  BY PlaceInIs, RegistryAssumption
<1>3. \A j \in 1..len : ids[j] \in Plugins
  BY <1>1
<1>4. Later \in SUBSET Nat /\ len + 1 \in Later
  BY <1>1
<1>5. PICK i \in Later : \A j \in Later : i <= j
  <2> HIDE DEF Later
  <2> QED BY <1>4, Least
<1>6. ASSUME NEW j \in 1..i - 1 PROVE PlaceIn(Locale, ids[j]) < PlaceIn(Locale, id)
  <2>1. i \in 1..(len + 1) /\ j \in 1..len /\ j \notin Later
    BY <1>1, <1>5
  <2>2. ~(PlaceIn(Locale, ids[j]) >= PlaceIn(Locale, id))
    BY <1>1, <2>1
  <2> QED BY <1>2, <1>3, <2>1, <2>2
<1>7. Fits(i)
  BY <1>1, <1>5, <1>6
<1> DEFINE index == CHOOSE k \in 1..Len(ids) + 1 : Fits(k)
<1>8. index \in 1..Len(ids) + 1
  <2>1. i \in 1..Len(ids) + 1
    BY <1>1, <1>5
  <2> HIDE DEF Fits
  <2> QED BY <1>7, <2>1
<1>9. InsertSorted(ids, id) = InsertAt(ids, index, id)
  BY DEF InsertSorted
<1> HIDE DEF index
<1> QED BY <1>8, <1>9

LEMMA InsertSortedIs ==
  ASSUME NEW ids \in Seq(Plugins), NEW id \in Plugins
  PROVE  /\ InsertSorted(ids, id) \in Seq(Plugins)
         /\ Range(InsertSorted(ids, id)) = Range(ids) \cup {id}
         /\ IsInjective(ids) /\ id \notin Range(ids) => IsInjective(InsertSorted(ids, id))
<1>1. PICK i \in 1..(Len(ids) + 1) : InsertSorted(ids, id) = InsertAt(ids, i, id)
  BY InsertIndex
<1>2. PICK len \in Nat : len = Len(ids)
  OBVIOUS
<1> DEFINE r == InsertAt(ids, i, id)
<1>3. /\ r \in Seq(Plugins) /\ Len(r) = len + 1
      /\ \A j \in 1..(len + 1) : r[j] = IF j < i THEN ids[j] ELSE IF j = i THEN id ELSE ids[j - 1]
  <2>1. /\ InsertAt(ids, i, id) \in Seq(Plugins) /\ Len(InsertAt(ids, i, id)) = Len(ids) + 1
        /\ \A j \in 1..(Len(ids) + 1) :
             InsertAt(ids, i, id)[j] = IF j < i THEN ids[j] ELSE IF j = i THEN id ELSE ids[j - 1]
    BY InsertAtIs
  <2> QED BY <1>2, <2>1
<1> HIDE DEF r
<1>4. DOMAIN r = 1..(len + 1) /\ DOMAIN ids = 1..len /\ i \in 1..(len + 1)
  BY <1>2, <1>3
<1>5. ASSUME NEW p, p \in Range(r) PROVE p \in Range(ids) \cup {id}
  <2>1. PICK j \in 1..(len + 1) : p = r[j]
    BY <1>4, <1>5 DEF Range
  <2>2. CASE j < i
    <3>1. j \in 1..len /\ p = ids[j]
      BY <1>3, <1>4, <2>1, <2>2
    <3> QED BY <1>4, <3>1 DEF Range
  <2>3. CASE j = i
    BY <1>3, <2>1, <2>3
  <2>4. CASE j > i
    <3>1. j - 1 \in 1..len /\ p = ids[j - 1]
      BY <1>3, <1>4, <2>1, <2>4
    <3> QED BY <1>4, <3>1 DEF Range
  <2> QED BY <1>4, <2>2, <2>3, <2>4
<1>6. ASSUME NEW p, p \in Range(ids) \cup {id} PROVE p \in Range(r)
  <2>1. CASE p = id
    <3>1. r[i] = id
      BY <1>3, <1>4
    <3> QED BY <1>4, <2>1, <3>1 DEF Range
  <2>2. CASE p \in Range(ids)
    <3>1. PICK j \in 1..len : p = ids[j]
      BY <1>4, <2>2 DEF Range
    <3>2. CASE j < i
      <4>1. r[j] = p /\ j \in 1..(len + 1)
        BY <1>3, <3>1, <3>2
      <4> QED BY <1>4, <4>1 DEF Range
    <3>3. CASE j >= i
      <4>1. j + 1 \in 1..(len + 1) /\ (j + 1) - 1 = j /\ ~(j + 1 < i) /\ j + 1 # i
        BY <1>4, <3>3
      <4>2. r[j + 1] = p
        BY <1>3, <3>1, <4>1
      <4> QED BY <1>4, <4>1, <4>2 DEF Range
    <3> QED BY <1>4, <3>2, <3>3
  <2> QED BY <1>6, <2>1, <2>2
<1>7. ASSUME IsInjective(ids), id \notin Range(ids), NEW a \in 1..(len + 1), NEW b \in 1..(len + 1), r[a] = r[b]
      PROVE  a = b
  <2>1. \A j \in 1..len : ids[j] # id
    BY <1>4, <1>7 DEF Range
  <2>2. \A j, k \in 1..len : ids[j] = ids[k] => j = k
    BY <1>4, <1>7 DEF IsInjective
  <2>3. \A j \in 1..(len + 1) : j # i => IF j < i THEN j \in 1..len /\ r[j] = ids[j] ELSE j - 1 \in 1..len /\ r[j] = ids[j - 1]
    BY <1>3, <1>4
  <2>4. r[i] = id
    BY <1>3, <1>4
  <2>5. CASE a = i
    <3>1. CASE b = i
      BY <2>5, <3>1
    <3>2. CASE b # i
      BY <1>7, <2>1, <2>3, <2>4, <2>5, <3>2
    <3> QED BY <3>1, <3>2
  <2>6. CASE a # i /\ b = i
    BY <1>7, <2>1, <2>3, <2>4, <2>6
  <2>7. CASE a # i /\ b # i
    <3>1. CASE a < i /\ b < i
      BY <1>7, <2>2, <2>3, <2>7, <3>1
    <3>2. CASE a < i /\ b > i
      <4>1. a \in 1..len /\ b - 1 \in 1..len /\ ids[a] = ids[b - 1]
        BY <1>7, <2>3, <2>7, <3>2
      <4>2. a = b - 1
        BY <2>2, <4>1
      <4> QED BY <1>4, <3>2, <4>2
    <3>3. CASE a > i /\ b < i
      <4>1. b \in 1..len /\ a - 1 \in 1..len /\ ids[b] = ids[a - 1]
        BY <1>7, <2>3, <2>7, <3>3
      <4>2. b = a - 1
        BY <2>2, <4>1
      <4> QED BY <1>4, <3>3, <4>2
    <3>4. CASE a > i /\ b > i
      <4>1. a - 1 \in 1..len /\ b - 1 \in 1..len /\ ids[a - 1] = ids[b - 1]
        BY <1>7, <2>3, <2>7, <3>4
      <4>2. a - 1 = b - 1
        BY <2>2, <4>1
      <4> QED BY <4>2
    <3> QED BY <1>4, <2>7, <3>1, <3>2, <3>3, <3>4
  <2> QED BY <2>5, <2>6, <2>7
<1>8. Range(r) = Range(ids) \cup {id}
  BY <1>5, <1>6
<1>9. IsInjective(ids) /\ id \notin Range(ids) => IsInjective(r)
  BY <1>4, <1>7 DEF IsInjective
<1>10. InsertSorted(ids, id) = r
  BY <1>1 DEF r
<1> QED BY <1>3, <1>8, <1>9, <1>10

LEMMA PluginsFinite ==
  /\ IsFiniteSet(Plugins)
  /\ \A p \in Plugins : PlaceIn(CodeUnits, p) \in Nat
  /\ \A p, q \in Plugins : PlaceIn(CodeUnits, p) = PlaceIn(CodeUnits, q) => p = q
<1>1. CodeUnits \in Seq(Plugins) /\ Range(CodeUnits) = Plugins
  BY RegistryAssumption DEF Plugins
<1>2. CodeUnits \in Surjection(1..Len(CodeUnits), Plugins)
  BY <1>1 DEF Surjection, Range
<1>3. IsFiniteSet(1..Len(CodeUnits))
  BY <1>1, FS_Interval
<1>4. IsFiniteSet(Plugins)
  BY <1>2, <1>3, FS_Surjection
<1>5. \A p \in Plugins : PlaceIn(CodeUnits, p) \in 1..Len(CodeUnits) /\ CodeUnits[PlaceIn(CodeUnits, p)] = p
  BY <1>1, PlaceInIs
<1>6. \A p, q \in Plugins : PlaceIn(CodeUnits, p) = PlaceIn(CodeUnits, q) => p = q
  BY <1>5
<1>7. \A p \in Plugins : PlaceIn(CodeUnits, p) \in Nat
  BY <1>5
<1> QED BY <1>4, <1>6, <1>7

LEMMA ByCodeUnitIs ==
  ASSUME NEW ids \in SUBSET Plugins
  PROVE  /\ ByCodeUnit(ids) \in Seq(ids)
         /\ IsInjective(ByCodeUnit(ids)) /\ Range(ByCodeUnit(ids)) = ids
<1> DEFINE spot == [p \in Plugins |-> PlaceIn(CodeUnits, p)]
           R == {x \in ids \X ids : spot[x[1]] < spot[x[2]]}
           n == Cardinality(ids)
<1>1. IsFiniteSet(ids)
  BY PluginsFinite, FS_Subset
<1>2. n \in Nat
  BY <1>1, FS_CardinalityType
<1>3. spot \in [Plugins -> Nat] /\ \A p, q \in Plugins : spot[p] = spot[q] => p = q
  BY PluginsFinite
<1>4. \A p, q \in ids : PlaceIn(CodeUnits, p) < PlaceIn(CodeUnits, q) <=> <<p, q>> \in R
  OBVIOUS
<1> HIDE DEF spot
<1>5. \A p, q \in ids : <<p, q>> \in R <=> spot[p] < spot[q]
  OBVIOUS
<1> HIDE DEF R
<1>6. Orders(R, ids)
  <2>1. \A p \in ids : spot[p] \in Nat
    BY <1>3
  <2>2. \A x, y \in ids : x # y => <<x, y>> \in R \/ <<y, x>> \in R
    BY <1>3, <1>5, <2>1
  <2>3. \A x \in ids : <<x, x>> \notin R
    BY <1>5, <2>1
  <2>4. \A x, y, z \in ids : <<x, y>> \in R /\ <<y, z>> \in R => <<x, z>> \in R
    BY <1>5, <2>1
  <2> QED BY <2>2, <2>3, <2>4 DEF Orders
<1> DEFINE Sorted(s) == \A i, j \in 1..n : i < j => PlaceIn(CodeUnits, s[i]) < PlaceIn(CodeUnits, s[j])
<1>7. \A s \in [1..n -> ids] : Sorted(s) <=> InOrder(s, n, R)
  <2> SUFFICES ASSUME NEW s \in [1..n -> ids] PROVE Sorted(s) <=> InOrder(s, n, R)
    OBVIOUS
  <2>1. \A i, j \in 1..n : PlaceIn(CodeUnits, s[i]) < PlaceIn(CodeUnits, s[j]) <=> <<s[i], s[j]>> \in R
    BY <1>4
  <2> QED BY <2>1 DEF InOrder
<1>8. ByCodeUnit(ids) = CHOOSE s \in [1..n -> ids] : Sorted(s)
  BY DEF ByCodeUnit, Arranged
<1> HIDE DEF Sorted
<1>9. \E s \in [1..n -> ids] : Sorted(s)
  BY <1>1, <1>6, <1>7, ArrangementExists
<1>10. ByCodeUnit(ids) \in [1..n -> ids] /\ Sorted(ByCodeUnit(ids))
  BY <1>8, <1>9
<1>11. InOrder(ByCodeUnit(ids), n, R)
  BY <1>7, <1>10
<1> QED BY <1>1, <1>6, <1>10, <1>11, ArrangementIsAll

Inserts(h, base, seq, N) ==
  /\ h \in [0..N -> Seq(Plugins)] /\ h[0] = base
  /\ \A n \in 1..N : h[n] = InsertSorted(h[n - 1], seq[n])
  /\ FoldLeft(InsertSorted, base, seq) = h[N]

LEMMA InsertsIterate ==
  ASSUME NEW base \in Seq(Plugins), NEW seq \in Seq(Plugins)
  PROVE  \E h : Inserts(h, base, seq, Len(seq))
<1> DEFINE D == Seq(Plugins)
           N == Len(seq)
           F == [x \in D \X (1..N) |-> InsertSorted(x[1], seq[x[2]])]
<1>1. Maps(F, D, N)
  <2>1. \A x \in D \X (1..N) : x[1] \in Seq(Plugins) /\ seq[x[2]] \in Plugins
    OBVIOUS
  <2>2. \A x \in D \X (1..N) : InsertSorted(x[1], seq[x[2]]) \in D
    BY <2>1, InsertSortedIs
  <2> QED BY <2>2 DEF Maps
<1>2. N \in Nat /\ base \in D /\ DOMAIN seq = 1..N
  OBVIOUS
<1>3. \A d \in D, n \in 1..N : F[<<d, n>>] = InsertSorted(d, seq[n])
  OBVIOUS
<1>4. FoldLeft(InsertSorted, base, seq) =
        LET E(f) == [t \in SUBSET DOMAIN seq |->
                       IF t = {} THEN base ELSE InsertSorted(f[t \ {Max(t)}], seq[Max(t)])]
        IN  (CHOOSE f : f = E(f))[DOMAIN seq]
  BY DEF FoldLeft, MapThenFoldSet
<1> DEFINE E(f) == [t \in SUBSET (1..N) |->
                      IF t = {} THEN base ELSE InsertSorted(f[t \ {Max(t)}], seq[Max(t)])]
           fold == CHOOSE f : f = E(f)
<1>5. FoldLeft(InsertSorted, base, seq) = fold[1..N]
  BY <1>2, <1>4
<1> HIDE DEF F, D, N
<1>6. PICK f : IsSetFold(f, F, base, D, N)
  BY <1>1, <1>2, SetFolds
<1>7. PICK h : IsIterate(h, F, base, D, N)
  BY <1>1, <1>2, Iterates
<1>8. ASSUME NEW t \in SUBSET (1..N), t # {} PROVE Max(t) \in 1..N
  BY <1>2, <1>8, MaxIs
<1>9. f = E(f)
  <2>1. f \in [SUBSET (1..N) -> D]
    BY <1>6 DEF IsSetFold
  <2>2. ASSUME NEW t \in SUBSET (1..N), t # {} PROVE f[t] = InsertSorted(f[t \ {Max(t)}], seq[Max(t)])
    <3>1. f[t] = F[<<f[t \ {Max(t)}], Max(t)>>]
      BY <1>6, <2>2 DEF IsSetFold
    <3>2. f[t \ {Max(t)}] \in D
      BY <2>1
    <3> QED BY <1>3, <1>8, <2>2, <3>1, <3>2
  <2>3. f[{}] = base
    BY <1>6 DEF IsSetFold
  <2> QED BY <2>1, <2>2, <2>3
<1>10. fold = E(fold)
  BY <1>9
<1> HIDE DEF fold
<1> DEFINE S == {n \in Nat : n <= N => fold[1..n] = h[n]}
<1>11. 0 \in S
  <2>1. 1..0 = {} /\ {} \in SUBSET (1..N)
    OBVIOUS
  <2>2. fold[{}] = base
    BY <1>10, <2>1
  <2> QED BY <1>7, <2>1, <2>2 DEF IsIterate
<1>12. \A n \in S : n + 1 \in S
  <2> SUFFICES ASSUME NEW n \in S, n + 1 <= N PROVE fold[1..(n + 1)] = h[n + 1]
    OBVIOUS
  <2>1. 1..(n + 1) \in SUBSET (1..N) /\ 1..(n + 1) # {}
    <3>1. N \in Nat /\ n \in Nat
      BY <1>2
    <3>2. \A k \in 1..(n + 1) : k \in 1..N
      BY <3>1
    <3>3. n + 1 \in 1..(n + 1)
      BY <3>1
    <3> QED BY <3>2, <3>3
  <2>2. Max(1..(n + 1)) = n + 1 /\ (1..(n + 1)) \ {n + 1} = 1..n
    BY MaxOfInterval
  <2>3. fold[1..(n + 1)] = InsertSorted(fold[1..n], seq[n + 1])
    BY <1>10, <2>1, <2>2
  <2>4. n + 1 \in 1..N /\ (n + 1) - 1 = n /\ n \in 0..N
    BY <1>2
  <2>5. h[n + 1] = F[<<h[n], n + 1>>] /\ h[n] \in D
    BY <1>7, <2>4 DEF IsIterate
  <2> QED BY <1>3, <2>3, <2>4, <2>5
<1>13. S = Nat
  <2> HIDE DEF S
  <2>1. S \in SUBSET Nat
    BY DEF S
  <2> QED BY <1>11, <1>12, <2>1, Induction
<1>14. fold[1..N] = h[N]
  BY <1>2, <1>13
<1>15. h \in [0..N -> D] /\ h[0] = base
  BY <1>7 DEF IsIterate
<1>16. ASSUME NEW n \in 1..N PROVE h[n] = InsertSorted(h[n - 1], seq[n])
  <2>1. h[n] = F[<<h[n - 1], n>>]
    BY <1>7 DEF IsIterate
  <2>2. h[n - 1] \in D
    BY <1>2, <1>15
  <2> QED BY <1>3, <2>1, <2>2
<1>17. Inserts(h, base, seq, N)
  BY <1>5, <1>14, <1>15, <1>16 DEF D, Inserts
<1> QED BY <1>17 DEF N

\* What takes its place among the ready is added to them.
LEMMA FoldInserts ==
  ASSUME NEW base \in Seq(Plugins), NEW seq \in Seq(Plugins)
  PROVE  LET all == FoldLeft(InsertSorted, base, seq) IN
         /\ all \in Seq(Plugins) /\ Range(all) = Range(base) \cup Range(seq)
         /\ IsInjective(base) /\ IsInjective(seq) /\ Range(base) \cap Range(seq) = {}
              => IsInjective(all)
<1> DEFINE First(n) == {seq[i] : i \in 1..n}
           Apart == IsInjective(base) /\ IsInjective(seq) /\ Range(base) \cap Range(seq) = {}
<1>1. PICK N \in Nat : N = Len(seq)
  OBVIOUS
<1>2. PICK h : Inserts(h, base, seq, N)
  BY <1>1, InsertsIterate
<1>3. DOMAIN seq = 1..N /\ \A n \in 1..N : seq[n] \in Plugins
  BY <1>1
<1> DEFINE Stands(n) == /\ Range(h[n]) = Range(base) \cup First(n)
                        /\ Apart => IsInjective(h[n])
           S == {n \in Nat : n <= N => Stands(n)}
<1>4. 0 \in S
  <2>1. First(0) = {} /\ h[0] = base
    BY <1>2 DEF Inserts
  <2> QED BY <2>1
<1>5. \A n \in S : n + 1 \in S
  <2> SUFFICES ASSUME NEW n \in S, n + 1 <= N PROVE Stands(n + 1)
    <3> HIDE DEF Stands
    <3> QED OBVIOUS
  <2>1. n + 1 \in 1..N /\ n \in 0..N /\ n \in Nat
    BY <1>1
  <2>2. h[n + 1] = InsertSorted(h[n], seq[n + 1])
    <3>1. h[n + 1] = InsertSorted(h[(n + 1) - 1], seq[n + 1])
      BY <1>2, <2>1 DEF Inserts
    <3>2. (n + 1) - 1 = n
      BY <2>1
    <3> QED BY <3>1, <3>2
  <2>3. h[n] \in Seq(Plugins) /\ seq[n + 1] \in Plugins
    BY <1>2, <1>3, <2>1 DEF Inserts
  <2>4. Range(h[n]) = Range(base) \cup First(n) /\ (Apart => IsInjective(h[n]))
    BY <1>1, <2>1
  <2>5. First(n + 1) = First(n) \cup {seq[n + 1]}
    <3>1. 1..(n + 1) = (1..n) \cup {n + 1}
      BY <2>1
    <3> QED BY <3>1
  <2>6. Apart => seq[n + 1] \notin Range(h[n])
    <3> SUFFICES ASSUME Apart, seq[n + 1] \in Range(h[n]) PROVE FALSE
      OBVIOUS
    <3>1. seq[n + 1] \in Range(seq)
      BY <1>3, <2>1 DEF Range
    <3>2. PICK i \in 1..n : seq[i] = seq[n + 1]
      BY <2>4, <3>1
    <3>3. i \in 1..N /\ i # n + 1
      BY <2>1
    <3> QED BY <1>3, <2>1, <3>2, <3>3 DEF IsInjective
  <2> HIDE DEF Apart, First
  <2>7. /\ Range(h[n + 1]) = Range(h[n]) \cup {seq[n + 1]}
        /\ IsInjective(h[n]) /\ seq[n + 1] \notin Range(h[n]) => IsInjective(h[n + 1])
    <3> DEFINE r == InsertSorted(h[n], seq[n + 1])
    <3>1. /\ Range(r) = Range(h[n]) \cup {seq[n + 1]}
          /\ IsInjective(h[n]) /\ seq[n + 1] \notin Range(h[n]) => IsInjective(r)
      <4> PICK ids \in Seq(Plugins), id \in Plugins : ids = h[n] /\ id = seq[n + 1]
        BY <2>3
      <4> QED BY InsertSortedIs
    <3> HIDE DEF r
    <3>2. h[n + 1] = r
      BY <2>2 DEF r
    <3> QED BY <3>1, <3>2
  <2> QED BY <2>4, <2>5, <2>6, <2>7
<1>6. S = Nat
  <2> HIDE DEF Stands
  <2>1. S \in SUBSET Nat
    OBVIOUS
  <2> HIDE DEF S
  <2> QED BY <1>4, <1>5, <2>1, Induction
<1>7. First(N) = Range(seq)
  BY <1>3 DEF Range
<1>8. h[N] \in Seq(Plugins)
  BY <1>1, <1>2 DEF Inserts
<1>9. N \in S
  BY <1>1, <1>6
<1> HIDE DEF First
<1>10. Range(h[N]) = Range(base) \cup Range(seq) /\ (Apart => IsInjective(h[N]))
  BY <1>1, <1>7, <1>9
<1> QED BY <1>2, <1>8, <1>10 DEF Inserts

-------------------------------------------------------------------------------
(* Plugins: sorting by dependency                                            *)

ManifestsGiven == UNION {Range(list) : list \in ManifestLists}

\* The maps of manifests by the plugin of each.
ByIds == {b \in UNION {[ids -> ManifestsGiven] : ids \in SUBSET Plugins} : \A p \in DOMAIN b : b[p].plugin = p}

NeedsIn(b, p) == DOMAIN b[p].needs
NeedsMet(b) == \A p \in DOMAIN b : NeedsIn(b, p) \subseteq DOMAIN b

\* topologicalOrder as a function of the manifests: how it starts and what a turn makes of it.
SortStart(b) ==
  [ready |-> ByCodeUnit({p \in DOMAIN b : NeedsIn(b, p) = {}}),
   indegree |-> [p \in DOMAIN b |-> Cardinality(NeedsIn(b, p))], order |-> <<>>]

Lowered(b, t) ==
  [q \in DOMAIN b |-> t.indegree[q] - (IF Head(t.ready) \in NeedsIn(b, q) THEN 1 ELSE 0)]
Freed(b, t) == {q \in DOMAIN b : Head(t.ready) \in NeedsIn(b, q) /\ Lowered(b, t)[q] = 0}

SortTurn(b, t) ==
  [ready |-> FoldLeft(InsertSorted, Tail(t.ready), ByCodeUnit(Freed(b, t))),
   indegree |-> Lowered(b, t), order |-> Append(t.order, Head(t.ready))]

Free(b, done) == {p \in DOMAIN b : NeedsIn(b, p) \subseteq done}

SortHolds(b, t) ==
  /\ t.ready \in Seq(DOMAIN b) /\ t.order \in Seq(DOMAIN b)
  /\ t.indegree = [p \in DOMAIN b |-> Cardinality(NeedsIn(b, p) \ Range(t.order))]
  /\ IsInjective(t.ready) /\ IsInjective(t.order) /\ Range(t.ready) \cap Range(t.order) = {}
  /\ Range(t.ready) \cup Range(t.order) = Free(b, Range(t.order))
  /\ \A i \in DOMAIN t.order : NeedsIn(b, t.order[i]) \subseteq Range(SubSeq(t.order, 1, i - 1))

LEMMA GivenAreManifests ==
  /\ \A x \in ManifestsGiven : IsManifest(x)
  /\ \A list \in ManifestLists : list \in Seq(ManifestsGiven)
<1>1. \A x \in ManifestsGiven : IsManifest(x)
  BY RegistryAssumption DEF ManifestsGiven
<1>2. ASSUME NEW list \in ManifestLists PROVE list \in Seq(ManifestsGiven)
  <2>1. list \in Seq(Range(list)) /\ Range(list) \subseteq ManifestsGiven
    BY RegistryAssumption DEF ManifestsGiven
  <2> QED BY <2>1, SeqMonotonic
<1> QED BY <1>1, <1>2

LEMMA ByIdsIs ==
  ASSUME NEW b \in ByIds
  PROVE  /\ DOMAIN b \in SUBSET Plugins /\ b \in [DOMAIN b -> ManifestsGiven] /\ IsFiniteSet(DOMAIN b)
         /\ \A p \in DOMAIN b : /\ IsManifest(b[p]) /\ b[p].plugin = p
                                /\ NeedsIn(b, p) \in SUBSET Plugins /\ IsFiniteSet(NeedsIn(b, p))
<1>1. PICK ids \in SUBSET Plugins : b \in [ids -> ManifestsGiven] /\ \A p \in DOMAIN b : b[p].plugin = p
  BY DEF ByIds
<1>2. DOMAIN b = ids /\ IsFiniteSet(ids)
  BY <1>1, PluginsFinite, FS_Subset
<1>3. ASSUME NEW p \in DOMAIN b
      PROVE  IsManifest(b[p]) /\ NeedsIn(b, p) \in SUBSET Plugins /\ IsFiniteSet(NeedsIn(b, p))
  <2>1. IsManifest(b[p])
    BY <1>1, GivenAreManifests
  <2>2. NeedsIn(b, p) \in SUBSET Plugins
    BY <2>1 DEF IsManifest, NeedsIn
  <2> QED BY <2>1, <2>2, PluginsFinite, FS_Subset
<1> QED BY <1>1, <1>2, <1>3

LEMMA SeqParts ==
  ASSUME NEW T, NEW s \in Seq(T), NEW e \in T
  PROVE  /\ Range(Append(s, e)) = Range(s) \cup {e}
         /\ IsInjective(s) /\ e \notin Range(s) => IsInjective(Append(s, e))
         /\ s # <<>> => /\ Head(s) \in T /\ Tail(s) \in Seq(T)
                        /\ Range(s) = {Head(s)} \cup Range(Tail(s))
                        /\ IsInjective(s) => IsInjective(Tail(s)) /\ Head(s) \notin Range(Tail(s))
<1>1. PICK n \in Nat : n = Len(s)
  OBVIOUS
<1> DEFINE a == Append(s, e)
<1>2. DOMAIN s = 1..n /\ DOMAIN a = 1..(n + 1) /\ a[n + 1] = e /\ \A i \in 1..n : a[i] = s[i]
  BY <1>1
<1> HIDE DEF a
<1>3. Range(a) = Range(s) \cup {e}
  <2>1. 1..(n + 1) = (1..n) \cup {n + 1}
    OBVIOUS
  <2> QED BY <1>2, <2>1 DEF Range
<1>4. ASSUME IsInjective(s), e \notin Range(s) PROVE IsInjective(a)
  <2>1. \A i \in 1..n : s[i] # e
    BY <1>2, <1>4 DEF Range
  <2>2. \A i \in 1..(n + 1) : i = n + 1 \/ i \in 1..n
    OBVIOUS
  <2>3. \A i, j \in 1..n : s[i] = s[j] => i = j
    BY <1>2, <1>4 DEF IsInjective
  <2> QED BY <1>2, <2>1, <2>2, <2>3 DEF IsInjective
<1>5. ASSUME s # <<>>
      PROVE  /\ Head(s) \in T /\ Tail(s) \in Seq(T)
             /\ Range(s) = {Head(s)} \cup Range(Tail(s))
             /\ IsInjective(s) => IsInjective(Tail(s)) /\ Head(s) \notin Range(Tail(s))
  <2> DEFINE r == Tail(s)
  <2>1. n \in Nat \ {0}
    BY <1>1, <1>5, EmptySeq
  <2>2. Head(s) = s[1] /\ r \in Seq(T) /\ DOMAIN r = 1..(n - 1) /\ \A i \in 1..(n - 1) : r[i] = s[i + 1]
    BY <1>1, <1>5, <2>1
  <2>3. s[1] \in T
    BY <1>1, <2>1
  <2> HIDE DEF r
  <2>4. Range(s) = {s[1]} \cup Range(r)
    <3>1. ASSUME NEW i \in 1..n PROVE s[i] \in {s[1]} \cup Range(r)
      <4>1. CASE i # 1
        <5>1. i - 1 \in 1..(n - 1) /\ (i - 1) + 1 = i
          BY <4>1
        <5>2. r[i - 1] = s[i]
          BY <2>2, <5>1
        <5> QED BY <2>2, <5>1, <5>2 DEF Range
      <4> QED BY <4>1
    <3>2. ASSUME NEW i \in 1..(n - 1) PROVE r[i] \in Range(s)
      <4>1. i + 1 \in 1..n
        BY <2>1
      <4> QED BY <1>2, <2>2, <4>1 DEF Range
    <3>3. s[1] \in Range(s)
      <4>1. 1 \in 1..n
        BY <2>1
      <4> QED BY <1>2, <4>1 DEF Range
    <3>4. Range(s) \subseteq {s[1]} \cup Range(r)
      BY <1>2, <3>1 DEF Range
    <3>5. Range(r) \subseteq Range(s)
      <4>1. \A x \in Range(r) : \E i \in 1..(n - 1) : x = r[i]
        BY <2>2 DEF Range
      <4> QED BY <3>2, <4>1
    <3> QED BY <3>3, <3>4, <3>5
  <2>5. ASSUME IsInjective(s) PROVE IsInjective(r) /\ s[1] \notin Range(r)
    <3>1. \A i, j \in 1..n : s[i] = s[j] => i = j
      BY <1>2, <2>5 DEF IsInjective
    <3>2. \A i \in 1..(n - 1) : i + 1 \in 1..n /\ 1 \in 1..n /\ i + 1 # 1
      BY <2>1
    <3>3. ASSUME NEW i \in 1..(n - 1), NEW j \in 1..(n - 1), r[i] = r[j] PROVE i = j
      <4>1. s[i + 1] = s[j + 1]
        BY <2>2, <3>3
      <4>2. i + 1 = j + 1
        BY <3>1, <3>2, <4>1
      <4> QED BY <4>2
    <3>4. \A i \in 1..(n - 1) : r[i] # s[1]
      BY <2>2, <3>1, <3>2
    <3> QED BY <2>2, <3>3, <3>4 DEF IsInjective, Range
  <2> QED BY <2>2, <2>3, <2>4, <2>5 DEF r
<1> QED BY <1>3, <1>4, <1>5 DEF a

LEMMA SeqOver ==
  ASSUME NEW T, NEW s \in Seq(T), NEW S, Range(s) \subseteq S
  PROVE  s \in Seq(S)
BY SeqOfRange, SeqMonotonic

LEMMA StartHolds ==
  ASSUME NEW b \in ByIds
  PROVE  SortHolds(b, SortStart(b))
<1> DEFINE ids == {p \in DOMAIN b : NeedsIn(b, p) = {}}
           t == SortStart(b)
<1>1. ids \in SUBSET Plugins /\ ids \subseteq DOMAIN b
  BY ByIdsIs
<1>2. ByCodeUnit(ids) \in Seq(ids) /\ IsInjective(ByCodeUnit(ids)) /\ Range(ByCodeUnit(ids)) = ids
  BY <1>1, ByCodeUnitIs
<1>3. t.ready = ByCodeUnit(ids) /\ t.order = <<>> /\ t.indegree = [p \in DOMAIN b |-> Cardinality(NeedsIn(b, p))]
  BY DEF SortStart
<1> HIDE DEF t, ids
<1>4. t.ready \in Seq(DOMAIN b) /\ t.order \in Seq(DOMAIN b)
  BY <1>1, <1>2, <1>3, SeqMonotonic
<1>5. Range(t.order) = {} /\ IsInjective(t.order) /\ DOMAIN t.order = {}
  BY <1>3 DEF Range, IsInjective
<1>6. t.indegree = [p \in DOMAIN b |-> Cardinality(NeedsIn(b, p) \ Range(t.order))]
  BY <1>3, <1>5
<1>7. ids = Free(b, {})
  BY DEF ids, Free
<1> QED BY <1>2, <1>3, <1>4, <1>5, <1>6, <1>7 DEF SortHolds, t

LEMMA TurnHolds ==
  ASSUME NEW b \in ByIds, NEW t, SortHolds(b, t), t.ready # <<>>
  PROVE  SortHolds(b, SortTurn(b, t))
<1> DEFINE p == Head(t.ready)
           rest == Tail(t.ready)
           freed == Freed(b, t)
           u == SortTurn(b, t)
           done == Range(t.order)
<1>1. /\ t.ready \in Seq(DOMAIN b) /\ t.order \in Seq(DOMAIN b)
      /\ t.indegree = [q \in DOMAIN b |-> Cardinality(NeedsIn(b, q) \ done)]
      /\ IsInjective(t.ready) /\ IsInjective(t.order) /\ Range(t.ready) \cap done = {}
      /\ Range(t.ready) \cup done = Free(b, done)
      /\ \A i \in DOMAIN t.order : NeedsIn(b, t.order[i]) \subseteq Range(SubSeq(t.order, 1, i - 1))
  BY DEF SortHolds
<1>2. /\ p \in DOMAIN b /\ rest \in Seq(DOMAIN b) /\ Range(t.ready) = {p} \cup Range(rest)
      /\ IsInjective(rest) /\ p \notin Range(rest)
  <2> DEFINE s == t.ready
             T == DOMAIN b
  <2>1. s \in Seq(T) /\ s # <<>> /\ IsInjective(s)
    BY <1>1
  <2> HIDE DEF s, T
  <2>2. /\ Head(s) \in T /\ Tail(s) \in Seq(T) /\ Range(s) = {Head(s)} \cup Range(Tail(s))
        /\ IsInjective(Tail(s)) /\ Head(s) \notin Range(Tail(s))
    <3>1. Head(s) \in T
      BY <2>1, HeadTailProperties
    <3> QED BY <2>1, <3>1, SeqParts
  <2> QED BY <2>2 DEF s, T
<1>3. DOMAIN b \in SUBSET Plugins /\ \A q \in DOMAIN b : IsFiniteSet(NeedsIn(b, q))
  BY ByIdsIs
<1>4. /\ u.order = Append(t.order, p) /\ u.indegree = Lowered(b, t)
      /\ u.ready = FoldLeft(InsertSorted, rest, ByCodeUnit(freed))
  BY DEF SortTurn
<1>5. Lowered(b, t) = [q \in DOMAIN b |-> t.indegree[q] - (IF p \in NeedsIn(b, q) THEN 1 ELSE 0)]
  BY DEF Lowered
<1>6. freed = {q \in DOMAIN b : p \in NeedsIn(b, q) /\ Lowered(b, t)[q] = 0}
  BY DEF Freed
<1> HIDE DEF p, rest, freed, u, done
<1>7. p \notin done /\ NeedsIn(b, p) \subseteq done
  BY <1>1, <1>2 DEF Free
<1>8. ASSUME NEW q \in DOMAIN b
      PROVE  /\ Lowered(b, t)[q] = Cardinality(NeedsIn(b, q) \ (done \cup {p}))
             /\ Lowered(b, t)[q] = 0 <=> NeedsIn(b, q) \subseteq done \cup {p}
  <2> DEFINE open == NeedsIn(b, q) \ done
             left == open \ {p}
  <2>1. IsFiniteSet(open) /\ left = NeedsIn(b, q) \ (done \cup {p})
    BY <1>3, FS_Subset
  <2>2. Cardinality(open) \in Nat
    BY <2>1, FS_CardinalityType
  <2>3. p \in open <=> p \in NeedsIn(b, q)
    BY <1>7
  <2>4. IsFiniteSet(left) /\ Cardinality(left) = IF p \in open THEN Cardinality(open) - 1 ELSE Cardinality(open)
    BY <2>1, FS_RemoveElement
  <2>5. Lowered(b, t)[q] = Cardinality(open) - (IF p \in NeedsIn(b, q) THEN 1 ELSE 0)
    BY <1>1, <1>5
  <2>6. Cardinality(left) = 0 <=> left = {}
    BY <2>4, FS_EmptySet
  <2> HIDE DEF left, open
  <2>7. Lowered(b, t)[q] = Cardinality(left)
    BY <2>2, <2>3, <2>4, <2>5
  <2> QED BY <2>1, <2>6, <2>7
<1>9. freed = {q \in DOMAIN b : p \in NeedsIn(b, q) /\ NeedsIn(b, q) \subseteq done \cup {p}}
  BY <1>6, <1>8
<1>10. freed \in SUBSET Plugins /\ freed \subseteq DOMAIN b
  BY <1>3, <1>9
<1>11. Range(rest) \cap freed = {} /\ freed \cap (done \cup {p}) = {}
  BY <1>1, <1>2, <1>7, <1>9 DEF Free
<1>12. ByCodeUnit(freed) \in Seq(freed) /\ IsInjective(ByCodeUnit(freed)) /\ Range(ByCodeUnit(freed)) = freed
  BY <1>10, ByCodeUnitIs
<1>13. u.ready \in Seq(Plugins) /\ Range(u.ready) = Range(rest) \cup freed /\ IsInjective(u.ready)
  <2>1. rest \in Seq(Plugins) /\ ByCodeUnit(freed) \in Seq(Plugins)
    BY <1>2, <1>3, <1>10, <1>12, SeqMonotonic
  <2> DEFINE s == ByCodeUnit(freed)
             all == FoldLeft(InsertSorted, rest, s)
  <2>2. /\ all \in Seq(Plugins) /\ Range(all) = Range(rest) \cup Range(s)
        /\ IsInjective(rest) /\ IsInjective(s) /\ Range(rest) \cap Range(s) = {} => IsInjective(all)
    <3> HIDE DEF s
    <3> QED BY <2>1, FoldInserts DEF s
  <2>3. u.ready = all
    BY <1>4
  <2> HIDE DEF all, s
  <2> QED BY <1>2, <1>11, <1>12, <2>2, <2>3 DEF s
<1>14. /\ u.order \in Seq(DOMAIN b) /\ Range(u.order) = done \cup {p} /\ IsInjective(u.order)
  BY <1>1, <1>2, <1>4, <1>7, SeqParts DEF done
<1>15. u.ready \in Seq(DOMAIN b)
  <2>1. Range(rest) \subseteq DOMAIN b
    BY <1>1, <1>2 DEF Free
  <2> QED BY <1>10, <1>13, <2>1, SeqOver
<1>16. u.indegree = [q \in DOMAIN b |-> Cardinality(NeedsIn(b, q) \ Range(u.order))]
  <2>1. u.indegree = [q \in DOMAIN b |-> u.indegree[q]]
    BY <1>4, <1>5
  <2> QED BY <1>4, <1>8, <1>14, <2>1
<1>17. Range(u.ready) \cap Range(u.order) = {}
  BY <1>1, <1>2, <1>11, <1>13, <1>14
<1>18. Range(u.ready) \cup Range(u.order) = Free(b, Range(u.order))
  <2>1. ASSUME NEW q \in Free(b, done \cup {p}) PROVE q \in Range(u.ready) \cup Range(u.order)
    <3>1. q \in DOMAIN b /\ NeedsIn(b, q) \subseteq done \cup {p}
      BY DEF Free
    <3>2. CASE p \in NeedsIn(b, q)
      BY <1>9, <1>13, <3>1, <3>2
    <3>3. CASE p \notin NeedsIn(b, q)
      <4>1. q \in Range(t.ready) \cup done
        BY <1>1, <3>1, <3>3 DEF Free
      <4> QED BY <1>2, <1>13, <1>14, <4>1
    <3> QED BY <3>2, <3>3
  <2>2. Range(u.ready) \cup Range(u.order) \subseteq Free(b, done \cup {p})
    BY <1>1, <1>2, <1>9, <1>13, <1>14 DEF Free
  <2> QED BY <1>14, <2>1, <2>2
<1>19. ASSUME NEW i \in DOMAIN u.order
       PROVE  NeedsIn(b, u.order[i]) \subseteq Range(SubSeq(u.order, 1, i - 1))
  <2>1. PICK n \in Nat : n = Len(t.order)
    BY <1>1
  <2>2. DOMAIN t.order = 1..n /\ DOMAIN u.order = 1..(n + 1) /\ u.order[n + 1] = p
        /\ \A j \in 1..n : u.order[j] = t.order[j]
    BY <1>1, <1>2, <1>4, <2>1
  <2>3. ASSUME NEW k \in 0..n PROVE Range(SubSeq(u.order, 1, k)) = {t.order[j] : j \in 1..k}
    <3> DEFINE s == SubSeq(u.order, 1, k)
    <3>1. Len(u.order) = n + 1 /\ u.order \in Seq(DOMAIN b)
      BY <1>1, <1>2, <1>4, <1>14, <2>1
    <3>2. DOMAIN s = 1..k /\ \A j \in 1..k : s[j] = u.order[j]
      BY <2>1, <3>1, SubSeqProperties
    <3> HIDE DEF s
    <3>3. \A j \in 1..k : s[j] = t.order[j]
      <4> TAKE j \in 1..k
      <4>1. j \in 1..n
        BY <2>1
      <4> QED BY <2>2, <3>2, <4>1
    <3> QED BY <3>2, <3>3 DEF s, Range
  <2>4. CASE i = n + 1
    <3>1. Range(SubSeq(u.order, 1, n)) = done
      <4>1. Range(SubSeq(u.order, 1, n)) = {t.order[j] : j \in 1..n}
        BY <2>3
      <4>2. done = {t.order[j] : j \in 1..n}
        BY <2>2 DEF done, Range
      <4> QED BY <4>1, <4>2
    <3>2. i - 1 = n
      BY <2>1, <2>4
    <3> QED BY <1>7, <2>2, <2>4, <3>1, <3>2
  <2>5. CASE i # n + 1
    <3>1. i \in 1..n /\ i - 1 \in 0..n
      BY <2>1, <2>2, <2>5
    <3>2. Range(SubSeq(t.order, 1, i - 1)) = {t.order[j] : j \in 1..(i - 1)}
      <4> DEFINE s == SubSeq(t.order, 1, i - 1)
      <4>1. DOMAIN s = 1..(i - 1) /\ \A j \in 1..(i - 1) : s[j] = t.order[j]
        BY <1>1, <2>1, <3>1, SubSeqProperties
      <4> HIDE DEF s
      <4> QED BY <4>1 DEF Range, s
    <3>3. NeedsIn(b, t.order[i]) \subseteq Range(SubSeq(t.order, 1, i - 1))
      BY <1>1, <2>2, <3>1
    <3> QED BY <2>2, <2>3, <3>1, <3>2, <3>3
  <2> QED BY <2>4, <2>5
<1> QED BY <1>13, <1>14, <1>15, <1>16, <1>17, <1>18, <1>19 DEF SortHolds, u

-------------------------------------------------------------------------------
(* Plugins: a sort is a function of the manifests                            *)

IsSorting(q, n, b) ==
  /\ n \in Nat /\ q[0] = SortStart(b)
  /\ \A i \in 1..n : q[i - 1].ready # <<>> /\ q[i] = SortTurn(b, q[i - 1])

SortsTo(b, t) == \E q, n : IsSorting(q, n, b) /\ q[n] = t

LEMMA SortsStart ==
  ASSUME NEW b
  PROVE  SortsTo(b, SortStart(b))
<1> DEFINE q == [i \in 0..0 |-> SortStart(b)]
<1>1. q[0] = SortStart(b)
  OBVIOUS
<1>2. IsSorting(q, 0, b)
  BY <1>1 DEF IsSorting
<1> HIDE DEF q
<1> QED BY <1>1, <1>2 DEF SortsTo

LEMMA SortsOn ==
  ASSUME NEW b, NEW t, SortsTo(b, t), t.ready # <<>>
  PROVE  SortsTo(b, SortTurn(b, t))
<1>1. PICK q, n : IsSorting(q, n, b) /\ q[n] = t
  BY DEF SortsTo
<1>2. n \in Nat
  BY <1>1 DEF IsSorting
<1> DEFINE r == [i \in 0..(n + 1) |-> IF i = n + 1 THEN SortTurn(b, t) ELSE q[i]]
<1>3. r[n + 1] = SortTurn(b, t) /\ \A i \in 0..n : r[i] = q[i]
  BY <1>2
<1> HIDE DEF r
<1>4. r[0] = SortStart(b)
  BY <1>1, <1>2, <1>3 DEF IsSorting
<1>5. ASSUME NEW i \in 1..(n + 1) PROVE r[i - 1].ready # <<>> /\ r[i] = SortTurn(b, r[i - 1])
  <2>1. CASE i = n + 1
    <3>1. i - 1 = n /\ r[n] = t
      BY <1>1, <1>2, <1>3, <2>1
    <3> QED BY <1>3, <2>1, <3>1
  <2>2. CASE i # n + 1
    <3>1. i \in 1..n /\ r[i] = q[i] /\ r[i - 1] = q[i - 1]
      BY <1>2, <1>3, <2>2
    <3> QED BY <1>1, <3>1 DEF IsSorting
  <2> QED BY <2>1, <2>2
<1>6. IsSorting(r, n + 1, b)
  BY <1>2, <1>4, <1>5 DEF IsSorting
<1> QED BY <1>3, <1>6 DEF SortsTo

\* Two sorts of the same manifests end alike.
LEMMA SortsAgree ==
  ASSUME NEW b, NEW t, NEW u, SortsTo(b, t), SortsTo(b, u), t.ready = <<>>, u.ready = <<>>
  PROVE  t = u
<1>1. PICK q, n : IsSorting(q, n, b) /\ q[n] = t
  BY DEF SortsTo
<1>2. PICK r, m : IsSorting(r, m, b) /\ r[m] = u
  BY DEF SortsTo
<1>3. n \in Nat /\ m \in Nat
  BY <1>1, <1>2 DEF IsSorting
<1> DEFINE S == {k \in Nat : k <= n /\ k <= m => q[k] = r[k]}
<1>4. 0 \in S
  BY <1>1, <1>2 DEF IsSorting
<1>5. \A k \in S : k + 1 \in S
  <2> SUFFICES ASSUME NEW k \in S, k + 1 <= n, k + 1 <= m PROVE q[k + 1] = r[k + 1]
    OBVIOUS
  <2>1. k + 1 \in 1..n /\ k + 1 \in 1..m /\ (k + 1) - 1 = k /\ k <= n /\ k <= m /\ k \in Nat
    BY <1>3
  <2>2. q[k + 1] = SortTurn(b, q[k]) /\ r[k + 1] = SortTurn(b, r[k])
    <3>1. q[k + 1] = SortTurn(b, q[(k + 1) - 1]) /\ r[k + 1] = SortTurn(b, r[(k + 1) - 1])
      BY <1>1, <1>2, <2>1 DEF IsSorting
    <3> QED BY <2>1, <3>1
  <2> QED BY <2>1, <2>2
<1>6. S = Nat
  <2>1. S \in SUBSET Nat
    OBVIOUS
  <2> HIDE DEF S
  <2> QED BY <1>4, <1>5, <2>1, Induction
<1>7. ~(n < m)
  <2> SUFFICES ASSUME n < m PROVE FALSE
    OBVIOUS
  <2>1. n + 1 \in 1..m /\ (n + 1) - 1 = n /\ n <= m
    BY <1>3
  <2>2. r[(n + 1) - 1].ready # <<>>
    BY <1>2, <2>1 DEF IsSorting
  <2>3. q[n] = r[n]
    BY <1>3, <1>6, <2>1
  <2> QED BY <1>1, <2>1, <2>2, <2>3
<1>8. ~(m < n)
  <2> SUFFICES ASSUME m < n PROVE FALSE
    OBVIOUS
  <2>1. m + 1 \in 1..n /\ (m + 1) - 1 = m /\ m <= n
    BY <1>3
  <2>2. q[(m + 1) - 1].ready # <<>>
    BY <1>1, <2>1 DEF IsSorting
  <2>3. q[m] = r[m]
    BY <1>3, <1>6, <2>1
  <2> QED BY <1>2, <2>1, <2>2, <2>3
<1>9. n = m /\ n \in S
  BY <1>3, <1>6, <1>7, <1>8
<1> QED BY <1>1, <1>2, <1>3, <1>9

\* What ends a sort: all plugins are in order, or some that need each other are left.
LEMMA SortEnds ==
  ASSUME NEW b \in ByIds, NEW t, SortHolds(b, t), t.ready = <<>>, NeedsMet(b)
  PROVE  /\ Len(t.order) = Cardinality(DOMAIN b) => Range(t.order) = DOMAIN b
         /\ Len(t.order) # Cardinality(DOMAIN b) =>
              \E ring \in SUBSET DOMAIN b \ {{}} : \A p \in ring : NeedsIn(b, p) \cap ring # {}
<1> DEFINE done == Range(t.order)
           n == Len(t.order)
<1>1. /\ t.order \in Seq(DOMAIN b) /\ IsInjective(t.order) /\ done = Free(b, done)
  <2>1. Range(t.ready) = {}
    BY DEF Range
  <2> QED BY <2>1 DEF SortHolds
<1>2. n \in Nat /\ t.order \in [1..n -> DOMAIN b]
  BY <1>1
<1>3. IsFiniteSet(DOMAIN b)
  BY ByIdsIs
<1>4. t.order \in Injection(1..n, DOMAIN b)
  BY <1>1, <1>2 DEF Injection
<1>5. IsFiniteSet(1..n) /\ Cardinality(1..n) = n
  <2> HIDE DEF n
  <2>1. n >= 0 /\ n \in Int
    BY <1>2
  <2> QED BY <2>1, FS_Interval
<1>6. n = Cardinality(DOMAIN b) <=> t.order \in Surjection(1..n, DOMAIN b)
  BY <1>3, <1>4, <1>5, FS_Injection
<1>7. t.order \in Surjection(1..n, DOMAIN b) <=> done = DOMAIN b
  BY <1>2 DEF Surjection, Range
<1>8. ASSUME n # Cardinality(DOMAIN b)
      PROVE  \E ring \in SUBSET DOMAIN b \ {{}} : \A p \in ring : NeedsIn(b, p) \cap ring # {}
  <2> DEFINE ring == DOMAIN b \ done
  <2>1. done \subseteq DOMAIN b
    BY <1>1 DEF Free
  <2>2. ring # {}
    BY <1>6, <1>7, <1>8, <2>1
  <2>3. \A p \in ring : NeedsIn(b, p) \cap ring # {}
    BY <1>1 DEF Free, NeedsMet
  <2> QED BY <2>2, <2>3
<1> QED BY <1>6, <1>7, <1>8

-------------------------------------------------------------------------------
(* Plugins: the registry                                                     *)

Stages == {"none", "reading", "sorting", "built", "refused"}
Codes == {None, "INVALID_MANIFEST", "DUPLICATE_PLUGIN_ID", "ENGINE_API_INCOMPATIBLE",
          "MISSING_DEPENDENCY", "GLOBAL_ID_COLLISION", "DEPENDENCY_CYCLE"}
Registries ==
  [stage : Stages, code : Codes, left : Seq(ManifestsGiven), byId : ByIds, ready : Seq(Plugins),
   indegree : UNION {[ids -> Int] : ids \in SUBSET Plugins}, order : Seq(Plugins)]

OwnersApart(b) ==
  \A p, q \in DOMAIN b : p # q => Range(b[p].owns) \cap Range(b[q].owns) = {}

SortOf(r) == [ready |-> r.ready, indegree |-> r.indegree, order |-> r.order]

RingIn(b) == \E ring \in SUBSET DOMAIN b \ {{}} : \A p \in ring : NeedsIn(b, p) \cap ring # {}

GoodRegistry(r) ==
  /\ r \in Registries
  /\ r.stage \in {"sorting", "built"} =>
       /\ NeedsMet(r.byId) /\ OwnersApart(r.byId)
       /\ SortHolds(r.byId, SortOf(r)) /\ SortsTo(r.byId, SortOf(r))
  /\ r.stage = "built" => r.ready = <<>> /\ Len(r.order) = Cardinality(DOMAIN r.byId)
  /\ r.code = "DEPENDENCY_CYCLE" => RingIn(r.byId)
  /\ r.stage \in {"reading", "sorting", "built"} => r.code = None
  /\ r.stage = "reading" => r.order = <<>>

GoodBuilt(entries) ==
  \A e \in entries : \E b \in ByIds : \E t :
    e = [of |-> Range(b), order |-> t.order] /\ SortsTo(b, t) /\ t.ready = <<>>

\* What a backend resolves is owned by its plugin.
GoodBackends(r, m) ==
  /\ r.stage # "built" => DOMAIN m = {}
  /\ \A a \in DOMAIN m : m[a] \in DOMAIN r.byId /\ a \in Range(r.byId[m[a]].owns)

RegistryIInv == GoodRegistry(registry) /\ GoodBuilt(built) /\ GoodBackends(registry, backends)

LEMMA UnbuiltGood == Unbuilt \in Registries /\ GoodRegistry(Unbuilt)
<1>1. Unbuilt.byId \in ByIds
  <2>1. Unbuilt.byId \in [{} -> ManifestsGiven] /\ DOMAIN Unbuilt.byId = {}
    BY DEF Unbuilt
  <2> QED BY <2>1 DEF ByIds
<1>2. Unbuilt.indegree \in UNION {[ids -> Int] : ids \in SUBSET Plugins}
  <2>1. Unbuilt.indegree \in [{} -> Int]
    BY DEF Unbuilt
  <2> QED BY <2>1
<1>3. Unbuilt \in Registries
  <2> DEFINE maps == UNION {[ids -> Int] : ids \in SUBSET Plugins}
             manifests == Seq(ManifestsGiven)
             ids == Seq(Plugins)
  <2>1. PICK b \in ByIds, m \in maps : b = Unbuilt.byId /\ m = Unbuilt.indegree
    BY <1>1, <1>2
  <2>2. Unbuilt = [stage |-> "none", code |-> "none", left |-> <<>>, byId |-> b,
                   ready |-> <<>>, indegree |-> m, order |-> <<>>]
    BY <2>1 DEF Unbuilt, None
  <2>3. <<>> \in manifests /\ <<>> \in ids
    OBVIOUS
  <2>4. "none" \in Stages /\ "none" \in Codes
    BY DEF Stages, Codes, None
  <2> HIDE DEF maps, manifests, ids
  <2>5. Unbuilt \in [stage : Stages, code : Codes, left : manifests, byId : ByIds,
                     ready : ids, indegree : maps, order : ids]
    BY <2>2, <2>3, <2>4
  <2> QED BY <2>5 DEF Registries, maps, manifests, ids
<1> QED BY <1>3 DEF GoodRegistry, Unbuilt, None

LEMMA NewRegistry ==
  ASSUME NEW list \in ManifestLists
  PROVE  GoodRegistry([Unbuilt EXCEPT !.stage = "reading", !.left = list])
<1>1. list \in Seq(ManifestsGiven)
  BY GivenAreManifests
<1>2. [Unbuilt EXCEPT !.stage = "reading", !.left = list] \in Registries
  BY <1>1, UnbuiltGood DEF Registries, Stages
<1> QED BY <1>2 DEF GoodRegistry, Unbuilt, None

Indegrees == UNION {[ids -> Int] : ids \in SUBSET Plugins}
Manifests == Seq(ManifestsGiven)
IdLists == Seq(Plugins)

LEMMA RegistryFields ==
  ASSUME NEW r \in Registries
  PROVE  /\ r.stage \in Stages /\ r.code \in Codes /\ r.left \in Manifests /\ r.byId \in ByIds
         /\ r.ready \in IdLists /\ r.indegree \in Indegrees /\ r.order \in IdLists
         /\ \E stage, code, left, b, ready, indegree, order :
              r = [stage |-> stage, code |-> code, left |-> left, byId |-> b,
                   ready |-> ready, indegree |-> indegree, order |-> order]
<1>1. r \in [stage : Stages, code : Codes, left : Manifests, byId : ByIds,
             ready : IdLists, indegree : Indegrees, order : IdLists]
  BY DEF Registries, Manifests, Indegrees, IdLists
<1> QED BY <1>1

LEMMA RegistryMade ==
  ASSUME NEW stage \in Stages, NEW code \in Codes, NEW left \in Manifests, NEW b \in ByIds,
         NEW ready \in IdLists, NEW indegree \in Indegrees, NEW order \in IdLists
  PROVE  [stage |-> stage, code |-> code, left |-> left, byId |-> b,
          ready |-> ready, indegree |-> indegree, order |-> order] \in Registries
BY DEF Registries, Manifests, Indegrees, IdLists

LEMMA SortTyped ==
  ASSUME NEW b \in ByIds, NEW t, SortHolds(b, t)
  PROVE  t.ready \in IdLists /\ t.order \in IdLists /\ t.indegree \in Indegrees
<1>1. DOMAIN b \in SUBSET Plugins
  BY ByIdsIs
<1>2. t.ready \in IdLists /\ t.order \in IdLists
  BY <1>1, SeqMonotonic DEF SortHolds, IdLists
<1>3. ASSUME NEW p \in DOMAIN b PROVE Cardinality(NeedsIn(b, p) \ Range(t.order)) \in Int
  <2>1. IsFiniteSet(NeedsIn(b, p) \ Range(t.order))
    BY ByIdsIs, FS_Subset
  <2> QED BY <2>1, FS_CardinalityType
<1>4. t.indegree \in [DOMAIN b -> Int]
  BY <1>3 DEF SortHolds
<1> QED BY <1>1, <1>2, <1>4 DEF Indegrees

\* What the steps of a build make of the registry.
RefusedAs(r, code) == [r EXCEPT !.stage = "refused", !.code = code]

LEMMA RefusedGood ==
  ASSUME NEW r, GoodRegistry(r), NEW code \in Codes \ {None},
         code = "DEPENDENCY_CYCLE" => RingIn(r.byId)
  PROVE  GoodRegistry(RefusedAs(r, code))
<1> DEFINE s == RefusedAs(r, code)
<1>1. r \in Registries
  BY DEF GoodRegistry
<1>2. s = [stage |-> "refused", code |-> code, left |-> r.left, byId |-> r.byId,
           ready |-> r.ready, indegree |-> r.indegree, order |-> r.order]
  <2>1. PICK stage, code0, left, b0, ready, indegree, order :
          r = [stage |-> stage, code |-> code0, left |-> left, byId |-> b0,
               ready |-> ready, indegree |-> indegree, order |-> order]
    BY <1>1, RegistryFields
  <2>2. s = [r EXCEPT !.stage = "refused", !.code = code]
    BY DEF RefusedAs
  <2> HIDE DEF s
  <2> QED BY <2>1, <2>2
<1>3. s \in Registries
  <2>1. "refused" \in Stages
    BY DEF Stages
  <2> QED BY <1>1, <1>2, <2>1, RegistryFields, RegistryMade
<1>4. s.stage = "refused" /\ s.code = code /\ s.byId = r.byId
  BY <1>2
<1> HIDE DEF s
<1> QED BY <1>3, <1>4 DEF GoodRegistry, s

WithManifest(r, x) ==
  [r EXCEPT !.left = Tail(@),
     !.byId = [p \in DOMAIN r.byId \cup {x.plugin} |-> IF p = x.plugin THEN x ELSE @[p]]]

LEMMA ReadGood ==
  ASSUME NEW r, GoodRegistry(r), r.stage = "reading", r.left # <<>>
  PROVE  GoodRegistry(WithManifest(r, Head(r.left)))
<1> DEFINE x == Head(r.left)
           s == WithManifest(r, x)
           b == [p \in DOMAIN r.byId \cup {x.plugin} |-> IF p = x.plugin THEN x ELSE r.byId[p]]
<1>1. r \in Registries
  BY DEF GoodRegistry
<1>2. x \in ManifestsGiven /\ Tail(r.left) \in Manifests
  <2>1. r.left \in Seq(ManifestsGiven)
    BY <1>1, RegistryFields DEF Manifests
  <2> QED BY <2>1 DEF Manifests
<1>3. x.plugin \in Plugins
  BY <1>2, GivenAreManifests DEF IsManifest
<1>4. b \in ByIds
  <2>1. r.byId \in ByIds
    BY <1>1, RegistryFields
  <2>2. /\ DOMAIN r.byId \in SUBSET Plugins /\ r.byId \in [DOMAIN r.byId -> ManifestsGiven]
        /\ \A p \in DOMAIN r.byId : r.byId[p].plugin = p
    BY <2>1, ByIdsIs
  <2> HIDE DEF x
  <2>3. b \in [DOMAIN r.byId \cup {x.plugin} -> ManifestsGiven]
    BY <1>2, <2>2
  <2>4. \A p \in DOMAIN b : b[p].plugin = p
    BY <2>2
  <2>5. DOMAIN r.byId \cup {x.plugin} \in SUBSET Plugins
    BY <1>3, <2>2
  <2> QED BY <2>3, <2>4, <2>5 DEF ByIds
<1> HIDE DEF x
<1>5. s = [stage |-> r.stage, code |-> r.code, left |-> Tail(r.left), byId |-> b,
           ready |-> r.ready, indegree |-> r.indegree, order |-> r.order]
  <2>1. PICK stage, code0, left, b0, ready, indegree, order :
          r = [stage |-> stage, code |-> code0, left |-> left, byId |-> b0,
               ready |-> ready, indegree |-> indegree, order |-> order]
    BY <1>1, RegistryFields
  <2>2. s = [r EXCEPT !.left = Tail(r.left), !.byId = b]
    BY DEF WithManifest
  <2> HIDE DEF s, b
  <2> QED BY <2>1, <2>2
<1> HIDE DEF b, s
<1>6. s \in Registries
  BY <1>1, <1>2, <1>4, <1>5, RegistryFields, RegistryMade
<1>7. s.stage = "reading" /\ s.code = r.code /\ s.order = r.order
  BY <1>5
<1>8. r.code = None /\ r.order = <<>>
  BY DEF GoodRegistry
<1> QED BY <1>6, <1>7, <1>8 DEF GoodRegistry, s, x, None

ToSort(r) ==
  [r EXCEPT !.stage = "sorting", !.indegree = [p \in DOMAIN r.byId |-> Cardinality(NeedsIn(r.byId, p))],
            !.ready = ByCodeUnit({p \in DOMAIN r.byId : NeedsIn(r.byId, p) = {}})]

LEMMA CheckGood ==
  ASSUME NEW r, GoodRegistry(r), r.stage = "reading", NeedsMet(r.byId), OwnersApart(r.byId)
  PROVE  GoodRegistry(ToSort(r))
<1> DEFINE s == ToSort(r)
           t == SortStart(r.byId)
<1>1. r \in Registries /\ r.code = None /\ r.order = <<>>
  BY DEF GoodRegistry
<1>2. r.byId \in ByIds
  BY <1>1, RegistryFields
<1>3. SortHolds(r.byId, t) /\ SortsTo(r.byId, t)
  BY <1>2, StartHolds, SortsStart
<1>4. s = [stage |-> "sorting", code |-> r.code, left |-> r.left, byId |-> r.byId,
           ready |-> t.ready, indegree |-> t.indegree, order |-> t.order]
  <2>1. PICK stage, code0, left, b0, ready, indegree, order :
          r = [stage |-> stage, code |-> code0, left |-> left, byId |-> b0,
               ready |-> ready, indegree |-> indegree, order |-> order]
    BY <1>1, RegistryFields
  <2>2. t.order = r.order
    BY <1>1 DEF SortStart
  <2>3. s = [r EXCEPT !.stage = "sorting", !.indegree = t.indegree, !.ready = t.ready]
    BY DEF ToSort, SortStart
  <2> HIDE DEF s, t
  <2> QED BY <2>1, <2>2, <2>3
<1>5. t = [ready |-> t.ready, indegree |-> t.indegree, order |-> t.order]
  BY DEF SortStart
<1> HIDE DEF s, t
<1>6. t.ready \in IdLists /\ t.order \in IdLists /\ t.indegree \in Indegrees
  BY <1>2, <1>3, SortTyped
<1>7. s \in Registries
  <2>1. "sorting" \in Stages
    BY DEF Stages
  <2> QED BY <1>1, <1>2, <1>4, <1>6, <2>1, RegistryFields, RegistryMade
<1>8. s.stage = "sorting" /\ s.code = None /\ s.byId = r.byId /\ SortOf(s) = t
  BY <1>1, <1>4, <1>5 DEF SortOf
<1> QED BY <1>3, <1>7, <1>8 DEF GoodRegistry, s, None

WithTurn(r) ==
  LET t == SortTurn(r.byId, SortOf(r))
  IN  [r EXCEPT !.order = t.order, !.indegree = t.indegree, !.ready = t.ready]

LEMMA TurnGood ==
  ASSUME NEW r, GoodRegistry(r), r.stage = "sorting", r.ready # <<>>
  PROVE  GoodRegistry(WithTurn(r))
<1> DEFINE s == WithTurn(r)
           t == SortTurn(r.byId, SortOf(r))
<1>1. /\ r \in Registries /\ r.code = None /\ NeedsMet(r.byId) /\ OwnersApart(r.byId)
      /\ SortHolds(r.byId, SortOf(r)) /\ SortsTo(r.byId, SortOf(r))
  BY DEF GoodRegistry
<1>2. r.byId \in ByIds /\ SortOf(r).ready # <<>>
  BY <1>1, RegistryFields DEF SortOf
<1>3. SortHolds(r.byId, t) /\ SortsTo(r.byId, t)
  BY <1>1, <1>2, TurnHolds, SortsOn
<1>4. t = [ready |-> t.ready, indegree |-> t.indegree, order |-> t.order]
  BY DEF SortTurn
<1>5. s = [r EXCEPT !.order = t.order, !.indegree = t.indegree, !.ready = t.ready]
  BY DEF WithTurn
<1> HIDE DEF s, t
<1>6. s = [stage |-> "sorting", code |-> r.code, left |-> r.left, byId |-> r.byId,
           ready |-> t.ready, indegree |-> t.indegree, order |-> t.order]
  <2>1. PICK stage, code0, left, b0, ready, indegree, order :
          r = [stage |-> stage, code |-> code0, left |-> left, byId |-> b0,
               ready |-> ready, indegree |-> indegree, order |-> order]
    BY <1>1, RegistryFields
  <2> QED BY <1>5, <2>1
<1>7. t.ready \in IdLists /\ t.order \in IdLists /\ t.indegree \in Indegrees
  BY <1>2, <1>3, SortTyped
<1>8. s \in Registries
  <2>1. "sorting" \in Stages
    BY DEF Stages
  <2> QED BY <1>1, <1>2, <1>6, <1>7, <2>1, RegistryFields, RegistryMade
<1>9. s.stage = "sorting" /\ s.code = None /\ s.byId = r.byId /\ SortOf(s) = t
  BY <1>1, <1>4, <1>6 DEF SortOf
<1> QED BY <1>1, <1>3, <1>8, <1>9 DEF GoodRegistry, s, None

LEMMA BuiltGood ==
  ASSUME NEW r, GoodRegistry(r), r.stage = "sorting", r.ready = <<>>
  PROVE  /\ Len(r.order) = Cardinality(DOMAIN r.byId) => GoodRegistry([r EXCEPT !.stage = "built"])
         /\ Len(r.order) # Cardinality(DOMAIN r.byId) => RingIn(r.byId)
<1>1. /\ r \in Registries /\ r.code = None /\ NeedsMet(r.byId) /\ OwnersApart(r.byId)
      /\ SortHolds(r.byId, SortOf(r)) /\ SortsTo(r.byId, SortOf(r))
  BY DEF GoodRegistry
<1>2. r.byId \in ByIds
  BY <1>1, RegistryFields
<1>3. Len(r.order) # Cardinality(DOMAIN r.byId) => RingIn(r.byId)
  <2>1. SortOf(r).ready = <<>> /\ SortOf(r).order = r.order
    BY DEF SortOf
  <2> QED BY <1>1, <1>2, <2>1, SortEnds DEF RingIn
<1>4. ASSUME Len(r.order) = Cardinality(DOMAIN r.byId) PROVE GoodRegistry([r EXCEPT !.stage = "built"])
  <2> DEFINE s == [r EXCEPT !.stage = "built"]
  <2>1. s = [stage |-> "built", code |-> r.code, left |-> r.left, byId |-> r.byId,
             ready |-> r.ready, indegree |-> r.indegree, order |-> r.order]
    <3>1. PICK stage, code0, left, b0, ready, indegree, order :
            r = [stage |-> stage, code |-> code0, left |-> left, byId |-> b0,
                 ready |-> ready, indegree |-> indegree, order |-> order]
      BY <1>1, RegistryFields
    <3> QED BY <3>1
  <2> HIDE DEF s
  <2>2. s \in Registries
    <3>1. "built" \in Stages
      BY DEF Stages
    <3> QED BY <1>1, <2>1, <3>1, RegistryFields, RegistryMade
  <2>3. /\ s.stage = "built" /\ s.code = None /\ s.byId = r.byId /\ SortOf(s) = SortOf(r)
        /\ s.ready = r.ready /\ s.order = r.order
    BY <1>1, <2>1 DEF SortOf
  <2>4. GoodRegistry(s)
    BY <1>1, <1>4, <2>2, <2>3 DEF GoodRegistry, None
  <2> QED BY <2>4 DEF s
<1> QED BY <1>3, <1>4

LEMMA NoBackends ==
  ASSUME NEW r
  PROVE  GoodBackends(r, [a \in {} |-> None])
BY DEF GoodBackends

\* Backends outlive no registry, and are of the plugins whose ids they resolve.
LEMMA BackendsGood ==
  ASSUME RegistryIInv, NEW list, BuildPluginExecutionRegistry(list)
  PROVE  GoodBackends(registry, backends')
<1> DEFINE ids == UNION {Range(list[i].actions) : i \in DOMAIN list}
<1>1. registry.stage = "built" /\ Registrable(list)
  BY DEF BuildPluginExecutionRegistry, InStage
<1>2. backends' = [a \in ids |-> list[CHOOSE i \in Resolves(list, a) : TRUE].plugin]
  BY DEF BuildPluginExecutionRegistry
<1>3. ASSUME NEW a \in ids
      PROVE  /\ backends'[a] \in DOMAIN registry.byId
             /\ a \in Range(registry.byId[backends'[a]].owns)
  <2> DEFINE i == CHOOSE j \in Resolves(list, a) : TRUE
  <2>1. Resolves(list, a) # {}
    BY DEF Resolves
  <2>2. i \in Resolves(list, a)
    BY <2>1
  <2>3. backends'[a] = list[i].plugin
    BY <1>2
  <2> HIDE DEF i
  <2>4. i \in DOMAIN list /\ a \in Range(list[i].actions)
    BY <2>2 DEF Resolves
  <2>5. list[i].plugin \in DOMAIN registry.byId /\ a \in registry.byId[list[i].plugin].acts
    BY <1>1, <2>4 DEF Registrable, Installed
  <2>6. registry.byId \in ByIds
    BY RegistryFields DEF RegistryIInv, GoodRegistry
  <2>7. IsManifest(registry.byId[list[i].plugin])
    BY <2>5, <2>6, ByIdsIs
  <2> QED BY <2>3, <2>5, <2>7 DEF IsManifest
<1>4. DOMAIN backends' = ids
  BY <1>2
<1> HIDE DEF ids
<1> QED BY <1>1, <1>3, <1>4 DEF GoodBackends

LEMMA BuiltGrows ==
  ASSUME RegistryIInv, InStage("sorting"), registry.ready = <<>>
  PROVE  GoodBuilt(built \cup {[of |-> Range(registry.byId), order |-> registry.order]})
<1> DEFINE t == SortOf(registry)
<1>1. registry.byId \in ByIds /\ SortsTo(registry.byId, t)
  BY RegistryFields DEF RegistryIInv, GoodRegistry, InStage
<1>2. t.ready = <<>> /\ t.order = registry.order
  BY DEF SortOf
<1> HIDE DEF t
<1>3. ASSUME NEW e \in built \cup {[of |-> Range(registry.byId), order |-> registry.order]}
      PROVE  \E b \in ByIds : \E u : e = [of |-> Range(b), order |-> u.order] /\ SortsTo(b, u) /\ u.ready = <<>>
  <2>1. CASE e \in built
    BY <2>1 DEF RegistryIInv, GoodBuilt
  <2>2. CASE e = [of |-> Range(registry.byId), order |-> registry.order]
    <3>1. e = [of |-> Range(registry.byId), order |-> t.order]
      BY <1>2, <2>2
    <3> QED BY <1>1, <1>2, <3>1
  <2> QED BY <2>1, <2>2
<1> QED BY <1>3 DEF GoodBuilt

LEMMA RegistryInvInit == RegistryInit => RegistryIInv
<1> SUFFICES ASSUME RegistryInit PROVE RegistryIInv
  OBVIOUS
<1>1. GoodRegistry(Unbuilt)
  BY UnbuiltGood
<1>2. registry = Unbuilt /\ built = {} /\ backends = [a \in {} |-> None]
  BY DEF RegistryInit
<1> QED BY <1>1, <1>2, NoBackends DEF RegistryIInv, GoodBuilt

LEMMA SameOperators ==
  /\ Installed = DOMAIN registry.byId
  /\ \A p : Needs(p) = NeedsIn(registry.byId, p)
  /\ DependenciesMet => NeedsMet(registry.byId)
  /\ NoIdHasTwoOwners => OwnersApart(registry.byId)
BY DEF Installed, Needs, NeedsIn, DependenciesMet, NeedsMet, NoIdHasTwoOwners, OwnersApart

LEMMA RefuseGood ==
  ASSUME RegistryIInv, registry.stage # "built", NEW code \in Codes \ {None},
         code = "DEPENDENCY_CYCLE" => RingIn(registry.byId), RefuseRegistry(code)
  PROVE  GoodRegistry(registry') /\ registry'.stage # "built"
<1>1. registry' = RefusedAs(registry, code)
  BY DEF RefuseRegistry, RefusedAs
<1>2. GoodRegistry(RefusedAs(registry, code))
  BY RefusedGood DEF RegistryIInv
<1>3. RefusedAs(registry, code).stage = "refused"
  <2>1. PICK r \in Registries : r = registry
    BY DEF RegistryIInv, GoodRegistry
  <2>2. PICK stage, code0, left, b0, ready, indegree, order :
          r = [stage |-> stage, code |-> code0, left |-> left, byId |-> b0,
               ready |-> ready, indegree |-> indegree, order |-> order]
    BY RegistryFields
  <2>3. [r EXCEPT !.stage = "refused", !.code = code].stage = "refused"
    BY <2>2
  <2> QED BY <2>1, <2>3 DEF RefusedAs
<1> QED BY <1>1, <1>2, <1>3

LEMMA RegistryInvStep == RegistryIInv /\ [RegistryNext]_registryVars => RegistryIInv'
<1> SUFFICES ASSUME RegistryIInv, [RegistryNext]_registryVars PROVE RegistryIInv'
  OBVIOUS
<1>1. PICK r : r = registry
  OBVIOUS
<1>2. GoodRegistry(r) /\ r \in Registries /\ GoodBuilt(built) /\ GoodBackends(r, backends)
  BY <1>1 DEF RegistryIInv, GoodRegistry
<1> SUFFICES GoodRegistry(registry') /\ GoodBuilt(built') /\ GoodBackends(registry', backends')
  BY DEF RegistryIInv
<1>3. ASSUME UNCHANGED <<backends, built>>, GoodRegistry(registry'), r.stage # "built"
      PROVE  GoodRegistry(registry') /\ GoodBuilt(built') /\ GoodBackends(registry', backends')
  <2>1. DOMAIN backends = {}
    BY <1>2, <1>3 DEF GoodBackends
  <2>2. GoodBackends(registry', backends)
    BY <2>1 DEF GoodBackends
  <2> QED BY <1>2, <1>3, <2>2
<1>4. ASSUME NEW list \in ManifestLists, BuildPluginRegistry(list)
      PROVE  GoodRegistry(registry') /\ GoodBuilt(built') /\ GoodBackends(registry', backends')
  BY <1>2, <1>4, NewRegistry, NoBackends DEF BuildPluginRegistry
<1>5. CASE ReadManifest
  <2>1. r.stage = "reading" /\ r.left # <<>> /\ UNCHANGED <<backends, built>>
    BY <1>1, <1>5 DEF ReadManifest, InStage
  <2>2. GoodRegistry(registry')
    <3>1. \/ \E code \in {"INVALID_MANIFEST", "DUPLICATE_PLUGIN_ID", "ENGINE_API_INCOMPATIBLE"} : RefuseRegistry(code)
          \/ registry' = WithManifest(r, Head(r.left))
      BY <1>1, <1>5 DEF ReadManifest, WithManifest, Installed
    <3>2. ASSUME NEW code \in {"INVALID_MANIFEST", "DUPLICATE_PLUGIN_ID", "ENGINE_API_INCOMPATIBLE"}, RefuseRegistry(code)
          PROVE  GoodRegistry(registry')
      <4>1. code \in Codes \ {None} /\ code # "DEPENDENCY_CYCLE" /\ registry.stage # "built"
        BY <1>1, <2>1 DEF Codes, None
      <4> QED BY <3>2, <4>1, RefuseGood
    <3> QED BY <1>2, <2>1, <3>1, <3>2, ReadGood
  <2> QED BY <1>3, <2>1, <2>2
<1>6. CASE CheckRegistry
  <2>1. r.stage = "reading" /\ UNCHANGED <<backends, built>>
    BY <1>1, <1>6 DEF CheckRegistry, InStage
  <2>2. GoodRegistry(registry')
    <3>1. \/ \E code \in {"MISSING_DEPENDENCY", "GLOBAL_ID_COLLISION"} : RefuseRegistry(code)
          \/ /\ DependenciesMet /\ NoIdHasTwoOwners
             /\ registry' = ToSort(r)
      BY <1>1, <1>6 DEF CheckRegistry, ToSort, Installed, Needs, NeedsIn
    <3>2. ASSUME NEW code \in {"MISSING_DEPENDENCY", "GLOBAL_ID_COLLISION"}, RefuseRegistry(code)
          PROVE  GoodRegistry(registry')
      <4>1. code \in Codes \ {None} /\ code # "DEPENDENCY_CYCLE" /\ registry.stage # "built"
        BY <1>1, <2>1 DEF Codes, None
      <4> QED BY <3>2, <4>1, RefuseGood
    <3>3. ASSUME DependenciesMet, NoIdHasTwoOwners, registry' = ToSort(r)
          PROVE  GoodRegistry(registry')
      <4>1. NeedsMet(r.byId) /\ OwnersApart(r.byId)
        BY <1>1, <3>3, SameOperators
      <4> QED BY <1>2, <2>1, <3>3, <4>1, CheckGood
    <3> QED BY <3>1, <3>2, <3>3
  <2> QED BY <1>3, <2>1, <2>2
<1>7. CASE TakeReady
  <2>1. r.stage = "sorting" /\ r.ready # <<>> /\ UNCHANGED <<backends, built>>
    BY <1>1, <1>7 DEF TakeReady, InStage
  <2>2. registry' = WithTurn(r)
    <3> DEFINE p == Head(r.ready)
               next == [q \in DOMAIN r.byId |-> r.indegree[q] - (IF p \in NeedsIn(r.byId, q) THEN 1 ELSE 0)]
               freed == ByCodeUnit({q \in DOMAIN r.byId : p \in NeedsIn(r.byId, q) /\ next[q] = 0})
               t == SortTurn(r.byId, SortOf(r))
    <3>1. registry' = [r EXCEPT !.order = Append(r.order, p), !.indegree = next,
                                !.ready = FoldLeft(InsertSorted, Tail(r.ready), freed)]
      BY <1>1, <1>7 DEF TakeReady, Installed, Needs, NeedsIn
    <3>2. /\ t.order = Append(r.order, p) /\ t.indegree = next
          /\ t.ready = FoldLeft(InsertSorted, Tail(r.ready), freed)
      BY DEF SortTurn, SortOf, Lowered, Freed
    <3> HIDE DEF t
    <3>3. registry' = [r EXCEPT !.order = t.order, !.indegree = t.indegree, !.ready = t.ready]
      BY <3>1, <3>2
    <3> QED BY <3>3 DEF WithTurn, t
  <2> QED BY <1>2, <1>3, <2>1, <2>2, TurnGood
<1>8. CASE FinishRegistry
  <2>1. r.stage = "sorting" /\ r.ready = <<>> /\ UNCHANGED backends
    BY <1>1, <1>8 DEF FinishRegistry, InStage
  <2>2. \/ /\ Len(r.order) # Cardinality(DOMAIN r.byId) /\ RefuseRegistry("DEPENDENCY_CYCLE") /\ built' = built
        \/ /\ Len(r.order) = Cardinality(DOMAIN r.byId) /\ registry' = [r EXCEPT !.stage = "built"]
           /\ built' = built \cup {[of |-> Range(r.byId), order |-> r.order]}
    BY <1>1, <1>8 DEF FinishRegistry, Installed
  <2>3. ASSUME Len(r.order) # Cardinality(DOMAIN r.byId), RefuseRegistry("DEPENDENCY_CYCLE"), built' = built
        PROVE  GoodRegistry(registry') /\ GoodBuilt(built') /\ GoodBackends(registry', backends')
    <3>1. RingIn(r.byId)
      BY <1>2, <2>1, <2>3, BuiltGood
    <3>2. "DEPENDENCY_CYCLE" \in Codes \ {None} /\ registry.stage # "built"
      BY <1>1, <2>1 DEF Codes, None
    <3>3. GoodRegistry(registry')
      BY <1>1, <2>3, <3>1, <3>2, RefuseGood
    <3> QED BY <1>3, <2>1, <2>3, <3>3
  <2>4. ASSUME Len(r.order) = Cardinality(DOMAIN r.byId), registry' = [r EXCEPT !.stage = "built"],
               built' = built \cup {[of |-> Range(r.byId), order |-> r.order]}
        PROVE  GoodRegistry(registry') /\ GoodBuilt(built') /\ GoodBackends(registry', backends')
    <3>1. GoodRegistry(registry')
      BY <1>2, <2>1, <2>4, BuiltGood
    <3>2. GoodBuilt(built')
      BY <1>1, <2>1, <2>4, BuiltGrows DEF InStage
    <3>3. DOMAIN backends = {}
      BY <1>2, <2>1 DEF GoodBackends
    <3>4. GoodBackends(registry', backends')
      BY <2>1, <3>3 DEF GoodBackends
    <3> QED BY <3>1, <3>2, <3>4
  <2> QED BY <2>2, <2>3, <2>4
<1>9. ASSUME NEW list \in BackendLists, BuildPluginExecutionRegistry(list)
      PROVE  GoodRegistry(registry') /\ GoodBuilt(built') /\ GoodBackends(registry', backends')
  <2>1. registry' = registry /\ built' = built
    BY <1>9 DEF BuildPluginExecutionRegistry
  <2> QED BY <1>1, <1>2, <1>9, <2>1, BackendsGood
<1>10. CASE UNCHANGED registryVars
  BY <1>1, <1>2, <1>10 DEF registryVars
<1> QED BY <1>4, <1>5, <1>6, <1>7, <1>8, <1>9, <1>10 DEF RegistryNext

LEMMA ByIdsDomain ==
  ASSUME NEW b \in ByIds
  PROVE  DOMAIN b = {x.plugin : x \in Range(b)}
<1>1. \A p \in DOMAIN b : b[p].plugin = p
  BY ByIdsIs
<1>2. ASSUME NEW p \in DOMAIN b PROVE p \in {x.plugin : x \in Range(b)}
  <2>1. b[p] \in Range(b)
    BY DEF Range
  <2> QED BY <1>1, <2>1
<1>3. ASSUME NEW x \in Range(b) PROVE x.plugin \in DOMAIN b
  <2>1. PICK p \in DOMAIN b : x = b[p]
    BY DEF Range
  <2> QED BY <1>1, <2>1
<1> QED BY <1>2, <1>3

LEMMA RegistryInvariance == RegistrySpec => []RegistryIInv
BY RegistryInvInit, RegistryInvStep, PTL DEF RegistrySpec

\* The registry's promise: whatever list the plugins came in, every one is in the order
\* once and after what it needs, builds of one set agree, and a refused cycle is one.
THEOREM RegistryIsItsSet == RegistrySpec => []RegistryIsOfItsSet
<1>1. ASSUME RegistryIInv PROVE RegistryIsOfItsSet
  <2>1. ASSUME InStage("built")
        PROVE  /\ IsInjective(registry.order) /\ Range(registry.order) = Installed
               /\ \A i \in DOMAIN registry.order :
                    Needs(registry.order[i]) \subseteq Range(SubSeq(registry.order, 1, i - 1))
    <3> DEFINE t == SortOf(registry)
    <3>1. /\ registry.byId \in ByIds /\ NeedsMet(registry.byId) /\ SortHolds(registry.byId, t)
          /\ registry.ready = <<>> /\ Len(registry.order) = Cardinality(DOMAIN registry.byId)
      BY <1>1, <2>1, RegistryFields DEF RegistryIInv, GoodRegistry, InStage
    <3>2. t.ready = <<>> /\ t.order = registry.order
      BY <3>1 DEF SortOf
    <3> HIDE DEF t
    <3>3. Range(t.order) = DOMAIN registry.byId
      BY <3>1, <3>2, SortEnds
    <3>4. /\ IsInjective(t.order)
          /\ \A i \in DOMAIN t.order :
               NeedsIn(registry.byId, t.order[i]) \subseteq Range(SubSeq(t.order, 1, i - 1))
      BY <3>1 DEF SortHolds
    <3> QED BY <3>2, <3>3, <3>4, SameOperators
  <2>2. ASSUME NEW one \in built, NEW other \in built, one.of = other.of PROVE one = other
    <3>a. PICK b \in ByIds : \E t : one = [of |-> Range(b), order |-> t.order] /\ SortsTo(b, t) /\ t.ready = <<>>
      BY <1>1 DEF RegistryIInv, GoodBuilt
    <3>1. PICK t : one = [of |-> Range(b), order |-> t.order] /\ SortsTo(b, t) /\ t.ready = <<>>
      BY <3>a
    <3>b. PICK c \in ByIds : \E u : other = [of |-> Range(c), order |-> u.order] /\ SortsTo(c, u) /\ u.ready = <<>>
      BY <1>1 DEF RegistryIInv, GoodBuilt
    <3>2. PICK u : other = [of |-> Range(c), order |-> u.order] /\ SortsTo(c, u) /\ u.ready = <<>>
      BY <3>b
    <3>3. Range(b) = Range(c)
      BY <2>2, <3>1, <3>2
    <3>4. /\ b \in [DOMAIN b -> ManifestsGiven] /\ \A p \in DOMAIN b : b[p].plugin = p
          /\ c \in [DOMAIN c -> ManifestsGiven] /\ \A p \in DOMAIN c : c[p].plugin = p
      BY ByIdsIs
    <3>5. DOMAIN b = {x.plugin : x \in Range(b)} /\ DOMAIN c = {x.plugin : x \in Range(c)}
      BY ByIdsDomain
    <3>6. DOMAIN b = DOMAIN c
      BY <3>3, <3>5
    <3>7. ASSUME NEW p \in DOMAIN b PROVE b[p] = c[p]
      <4>1. b[p] \in Range(c)
        BY <3>3 DEF Range
      <4>2. PICK q \in DOMAIN c : b[p] = c[q]
        BY <4>1 DEF Range
      <4>3. p = q
        BY <3>4, <4>2
      <4> QED BY <4>2, <4>3
    <3>8. b = c
      BY <3>4, <3>6, <3>7
    <3>9. t = u
      BY <3>1, <3>2, <3>8, SortsAgree
    <3> QED BY <3>1, <3>2, <3>8, <3>9
  <2>3. ASSUME registry.code = "DEPENDENCY_CYCLE"
        PROVE  \E ring \in SUBSET Installed \ {{}} : \A p \in ring : Needs(p) \cap ring # {}
    <3>1. RingIn(registry.byId)
      BY <1>1, <2>3 DEF RegistryIInv, GoodRegistry
    <3> QED BY <3>1, SameOperators DEF RingIn
  <2> QED BY <2>1, <2>2, <2>3 DEF RegistryIsOfItsSet
<1> QED BY RegistryInvariance, <1>1, PTL

-------------------------------------------------------------------------------
(* Plugins: the stream                                                      *)

Joined(l, r) == l \o r

\* The sequences s joined, one more of them at a time.
IsFlattening(f, s, D) ==
  /\ f \in [0..Len(s) -> D] /\ f[0] = <<>>
  /\ \A n \in 1..Len(s) : f[n] = Joined(f[n - 1], s[n])

LEMMA FlatteningExists ==
  ASSUME NEW T, NEW s \in Seq(Seq(T))
  PROVE  \E f : IsFlattening(f, s, Seq(T))
<1> DEFINE D == Seq(T)
           N == Len(s)
           F == [x \in D \X (1..N) |-> Joined(x[1], s[x[2]])]
<1>1. Maps(F, D, N)
  <2>1. \A x \in D \X (1..N) : Joined(x[1], s[x[2]]) \in D
    BY ConcatProperties, ElementOfSeq DEF Joined
  <2> QED BY <2>1 DEF Maps
<1>2. N \in Nat /\ <<>> \in D
  OBVIOUS
<1>3. \A d \in D, n \in 1..N : F[<<d, n>>] = Joined(d, s[n])
  OBVIOUS
<1> HIDE DEF F
<1>4. PICK f : IsIterate(f, F, <<>>, D, N)
  <2> HIDE DEF D, N
  <2> QED BY <1>1, <1>2, Iterates
<1>5. IsFlattening(f, s, D)
  <2> PICK len \in Nat : len = N
    BY <1>2
  <2> HIDE DEF D, N
  <2>1. /\ f \in [0..len -> D] /\ f[0] = <<>>
        /\ \A n \in 1..len : f[n] = F[<<f[n - 1], n>>]
    BY <1>4 DEF IsIterate
  <2>2. \A n \in 1..len : f[n - 1] \in D
    BY <2>1
  <2>3. \A n \in 1..len : f[n] = Joined(f[n - 1], s[n])
    BY <1>3, <2>1, <2>2
  <2> QED BY <2>1, <2>3 DEF IsFlattening, N
<1> QED BY <1>5

LEMMA FlattenSeqIs ==
  ASSUME NEW T, NEW s \in Seq(Seq(T)), NEW g, IsFlattening(g, s, Seq(T))
  PROVE  FlattenSeq(s) = g[Len(s)]
<1>1. CASE Len(s) = 0
  <2>1. s = <<>>
    BY <1>1, EmptySeq
  <2> QED BY <1>1, <2>1 DEF FlattenSeq, IsFlattening
<1>2. CASE Len(s) # 0
  <2> DEFINE E(f) == [i \in 1..Len(s) |-> IF i = 1 THEN s[i] ELSE f[i - 1] \o s[i]]
             flatten == CHOOSE f : f = E(f)
             h == [i \in 1..Len(s) |-> g[i]]
  <2>1. PICK len \in Nat : len = Len(s)
    OBVIOUS
  <2>2. \A i \in 1..len : g[i] = Joined(g[i - 1], s[i])
    BY <2>1 DEF IsFlattening
  <2>3. 1 \in 1..len => g[1] = s[1]
    <3> HAVE 1 \in 1..len
    <3>1. s[1] \in Seq(T)
      BY <2>1, ElementOfSeq
    <3>2. g[1] = Joined(<<>>, s[1])
      BY <2>2 DEF IsFlattening
    <3> QED BY <3>1, <3>2, ConcatEmptySeq DEF Joined
  <2>4. E(h) = [i \in 1..Len(s) |-> IF i = 1 THEN s[i] ELSE Joined(h[i - 1], s[i])]
    BY DEF Joined
  <2>5. h = E(h)
    <3>1. \A i \in 1..len : h[i] = IF i = 1 THEN s[i] ELSE Joined(h[i - 1], s[i])
      BY <2>1, <2>2, <2>3
    <3> QED BY <2>1, <2>4, <3>1
  <2>6. flatten = E(flatten)
    BY <2>5
  <2>7. FlattenSeq(s) = flatten[Len(s)]
    BY <1>2 DEF FlattenSeq
  <2>8. E(flatten) = [i \in 1..Len(s) |-> IF i = 1 THEN s[i] ELSE Joined(flatten[i - 1], s[i])]
    BY DEF Joined
  <2> HIDE DEF flatten, h
  <2>9. flatten = [i \in 1..len |-> IF i = 1 THEN s[i] ELSE Joined(flatten[i - 1], s[i])]
    BY <2>1, <2>6, <2>8
  <2> HIDE DEF E
  <2>10. \A i \in 1..len : flatten[i] = IF i = 1 THEN s[i] ELSE Joined(flatten[i - 1], s[i])
    BY <2>9
  <2> DEFINE S == {n \in Nat : n + 1 \in 1..len => flatten[n + 1] = g[n + 1]}
  <2>11. 0 \in S
    BY <2>3, <2>10
  <2>12. ASSUME NEW n \in S PROVE n + 1 \in S
    <3>1. n \in Nat /\ (n + 1 \in 1..len => flatten[n + 1] = g[n + 1])
      OBVIOUS
    <3>2. n + 1 \in Nat /\ (n + 1) + 1 = n + 2
      BY <3>1
    <3> HIDE DEF S
    <3>3. ASSUME n + 2 \in 1..len PROVE flatten[n + 2] = g[n + 2]
      <4>1. PICK k \in 1..len : k = n + 2 /\ k # 1 /\ k - 1 = n + 1 /\ k - 1 \in 1..len
        BY <2>1, <3>1, <3>3
      <4>2. flatten[k - 1] = g[k - 1]
        BY <3>1, <4>1
      <4>3. flatten[k] = Joined(flatten[k - 1], s[k])
        BY <2>10, <4>1
      <4>4. g[k] = Joined(g[k - 1], s[k])
        BY <2>2
      <4> QED BY <4>1, <4>2, <4>3, <4>4
    <3>4. (n + 1) + 1 \in 1..len => flatten[(n + 1) + 1] = g[(n + 1) + 1]
      BY <3>2, <3>3
    <3> USE DEF S
    <3> QED BY <3>2, <3>4
  <2>13. S = Nat
    <3>1. S \in SUBSET Nat
      OBVIOUS
    <3> HIDE DEF S
    <3> QED BY <2>11, <2>12, <3>1, Induction
  <2>14. len - 1 \in Nat
    BY <1>2, <2>1
  <2>15. len - 1 \in S
    BY <2>13, <2>14
  <2> QED BY <2>1, <2>7, <2>14, <2>15
<1> QED BY <1>1, <1>2

LEMMA FlattenAppend ==
  ASSUME NEW T, NEW s \in Seq(Seq(T)), NEW x \in Seq(T)
  PROVE  FlattenSeq(Append(s, x)) = FlattenSeq(s) \o x
<1> DEFINE t == Append(s, x)
           D == Seq(T)
<1>1. t \in Seq(Seq(T)) /\ Len(t) = Len(s) + 1
  OBVIOUS
<1>2. PICK len \in Nat : len = Len(s)
  OBVIOUS
<1>3. \A n \in 1..len : t[n] = s[n]
  BY <1>2
<1>4. t[len + 1] = x
  BY <1>2
<1> HIDE DEF t
<1>5. PICK f : IsFlattening(f, t, D)
  BY <1>1, FlatteningExists
<1>6. FlattenSeq(t) = f[len + 1]
  BY <1>1, <1>2, <1>5, FlattenSeqIs
<1> HIDE DEF D
<1>7. /\ f \in [0..(len + 1) -> D] /\ f[0] = <<>>
      /\ \A n \in 1..(len + 1) : f[n] = Joined(f[n - 1], t[n])
  BY <1>1, <1>2, <1>5 DEF IsFlattening
<1> DEFINE g == [n \in 0..len |-> f[n]]
<1>8. IsFlattening(g, s, D)
  <2>1. g \in [0..len -> D] /\ g[0] = <<>>
    BY <1>7
  <2>2. \A n \in 1..len : g[n] = Joined(g[n - 1], s[n])
    BY <1>3, <1>7
  <2> HIDE DEF g
  <2> QED BY <1>2, <2>1, <2>2 DEF IsFlattening
<1>9. FlattenSeq(s) = f[len]
  <2>1. g[len] = f[len]
    OBVIOUS
  <2> HIDE DEF g
  <2>2. FlattenSeq(s) = g[Len(s)]
    BY <1>8, FlattenSeqIs DEF D
  <2> QED BY <1>2, <2>1, <2>2
<1>10. f[len + 1] = Joined(f[len], x)
  BY <1>4, <1>7
<1> QED BY <1>6, <1>9, <1>10 DEF t, Joined

\* The places of a stream from a up to b, b not included.
Places(a, b) == [n \in 1..(b - a) |-> a + n - 1]

LEMMA PlacesAre ==
  ASSUME NEW a \in Nat, NEW b \in Nat, a <= b
  PROVE  /\ Places(a, b) \in Seq(Nat) /\ Places(a, a) = <<>>
         /\ Append(Places(a, b), b) = Places(a, b + 1)
<1>1. b - a \in Nat /\ \A n \in 1..(b - a) : a + n - 1 \in Nat
  OBVIOUS
<1>2. Places(a, b) \in Seq(Nat) /\ Len(Places(a, b)) = b - a
  BY <1>1, IsASeq DEF Places
<1>3. Places(a, a) = <<>>
  BY DEF Places
<1> DEFINE s == Append(Places(a, b), b)
           t == Places(a, b + 1)
           n == b - a
<1>4. DOMAIN s = 1..(n + 1) /\ s[n + 1] = b /\ \A i \in 1..n : s[i] = Places(a, b)[i]
  <2> DEFINE p == Places(a, b)
  <2>1. p \in Seq(Nat) /\ Len(p) = n
    BY <1>2
  <2> HIDE DEF p, n
  <2>2. /\ DOMAIN Append(p, b) = 1..(n + 1) /\ Append(p, b)[n + 1] = b
        /\ \A i \in 1..n : Append(p, b)[i] = p[i]
    BY <1>1, <2>1 DEF n
  <2> QED BY <2>2 DEF p
<1>5. \A i \in 1..n : Places(a, b)[i] = a + i - 1
  BY DEF Places
<1>6. DOMAIN t = 1..(n + 1) /\ \A i \in 1..(n + 1) : t[i] = a + i - 1
  <2>1. (b + 1) - a = n + 1
    OBVIOUS
  <2> QED BY <2>1 DEF Places
<1>7. a + (n + 1) - 1 = b
  OBVIOUS
<1>8. s \in Seq(Nat) /\ t \in [1..(n + 1) -> Nat]
  <2>1. s \in Seq(Nat)
    BY <1>2
  <2>2. (b + 1) - a = n + 1 /\ \A i \in 1..(n + 1) : a + i - 1 \in Nat
    OBVIOUS
  <2> QED BY <2>1, <2>2 DEF Places
<1> HIDE DEF s, t
<1>9. \A i \in 1..(n + 1) : s[i] = t[i]
  <2> SUFFICES ASSUME NEW i \in 1..(n + 1) PROVE s[i] = t[i]
    OBVIOUS
  <2>1. i = n + 1 \/ i \in 1..n
    OBVIOUS
  <2> HIDE DEF n
  <2> QED BY <1>4, <1>5, <1>6, <1>7, <2>1
<1>10. s \in [1..(n + 1) -> Nat]
  <2>1. DOMAIN s = 1..Len(s) /\ s \in [1..Len(s) -> Nat]
    BY <1>8
  <2>2. s \in [DOMAIN s -> Nat]
    BY <2>1
  <2> QED BY <1>4, <2>2
<1>11. s = t
  BY <1>8, <1>9, <1>10
<1> QED BY <1>2, <1>3, <1>11 DEF s, t

LEMMA JoinAppend ==
  ASSUME NEW T, NEW s \in Seq(T), NEW t \in Seq(T), NEW e \in T
  PROVE  s \o Append(t, e) = Append(s \o t, e)
<1>1. Append(t, e) = t \o <<e>> /\ s \o t \in Seq(T) /\ <<e>> \in Seq(T)
  BY AppendIsConcat, ConcatProperties
<1>2. Append(s \o t, e) = (s \o t) \o <<e>>
  BY <1>1, AppendIsConcat
<1>3. (s \o t) \o <<e>> = s \o (t \o <<e>>)
  BY <1>1, ConcatAssociative
<1> QED BY <1>1, <1>2, <1>3

LEMMA PlacesJoin ==
  ASSUME NEW a \in Nat, NEW b \in Nat, NEW c \in Nat, a <= b, b <= c
  PROVE  Places(a, b) \o Places(b, c) = Places(a, c)
<1> DEFINE S == {n \in Nat : Joined(Places(a, b), Places(b, b + n)) = Places(a, b + n)}
<1>1. 0 \in S
  <2>1. Places(a, b) \in Seq(Nat) /\ Places(b, b) = <<>> /\ b + 0 = b
    <3>1. b + 0 = b
      OBVIOUS
    <3> QED BY <3>1, PlacesAre
  <2>2. Joined(Places(a, b), <<>>) = Places(a, b)
    BY <2>1, ConcatEmptySeq DEF Joined
  <2> QED BY <2>1, <2>2
<1>2. \A n \in S : n + 1 \in S
  <2> SUFFICES ASSUME NEW n \in Nat, Joined(Places(a, b), Places(b, b + n)) = Places(a, b + n)
               PROVE  Joined(Places(a, b), Places(b, b + (n + 1))) = Places(a, b + (n + 1))
    OBVIOUS
  <2> DEFINE m == b + n
  <2>1. m \in Nat /\ a <= m /\ b <= m /\ m + 1 = b + (n + 1)
    OBVIOUS
  <2> HIDE DEF m
  <2>2. /\ Places(a, b) \in Seq(Nat) /\ Places(b, m) \in Seq(Nat)
        /\ Append(Places(b, m), m) = Places(b, m + 1) /\ Append(Places(a, m), m) = Places(a, m + 1)
    BY <2>1, PlacesAre
  <2>3. Joined(Places(a, b), Append(Places(b, m), m)) = Append(Joined(Places(a, b), Places(b, m)), m)
    <3> HIDE DEF S
    <3>1. m \in Nat /\ Places(a, b) \in Seq(Nat) /\ Places(b, m) \in Seq(Nat)
      BY <2>1, <2>2
    <3>2. Places(a, b) \o Append(Places(b, m), m) = Append(Places(a, b) \o Places(b, m), m)
      BY ONLY <3>1, JoinAppend
    <3> QED BY <3>2 DEF Joined
  <2>4. Joined(Places(a, b), Places(b, m)) = Places(a, m)
    BY DEF m
  <2> QED BY <2>1, <2>2, <2>3, <2>4
<1>3. S = Nat
  <2>1. S \in SUBSET Nat
    OBVIOUS
  <2> HIDE DEF S
  <2> QED BY <1>1, <1>2, <2>1, Induction
<1>4. c - b \in Nat /\ b + (c - b) = c
  OBVIOUS
<1>5. Joined(Places(a, b), Places(b, b + (c - b))) = Places(a, b + (c - b))
  BY <1>3, <1>4
<1> QED BY <1>4, <1>5 DEF Joined

\* A generator that with what its call drew before has drawn the stream from a place on.
Drawing(g, from, drawn) ==
  /\ DOMAIN g = {"closure", "trace", "failure", "refused"}
  /\ g.closure \in Nat /\ g.trace \in Seq(Nat)
  /\ from <= g.closure /\ Joined(drawn, g.trace) = Places(from, g.closure)
  /\ g.refused => g.failure # None

GoodCall(c, from) ==
  /\ DOMAIN c = {"pc", "of", "rng", "left", "drawn"} /\ c.drawn \in Seq(Nat)
  /\ c.pc \in {"resolving", "handling"} => Drawing(c.rng, from, c.drawn)
  /\ c.pc = "resolving" => c.drawn = <<>>
  /\ c.pc = "events" => /\ c.rng.closure \in Nat /\ from <= c.rng.closure
                        /\ c.drawn = Places(from, c.rng.closure) /\ ~ c.rng.refused

GoodPlace(w) == DOMAIN w = {"stock", "clock", "stream"} /\ w.stream \in Nat

GoodRecord(r, stream) ==
  /\ \E T : r \in Seq(T)
  /\ [i \in DOMAIN r |-> r[i].drawn] \in Seq(Seq(Nat))
  /\ FlattenSeq([i \in DOMAIN r |-> r[i].drawn]) = Places(0, stream)
  /\ \A i \in DOMAIN r : ~ r[i].refused

CallsIInv == RegistryIInv /\ GoodPlace(place) /\ GoodCall(call, place.stream) /\ GoodRecord(record, place.stream)

LEMMA NoCallGood == ASSUME NEW from PROVE GoodCall(NoCall, from)
<1>1. DOMAIN NoCall = {"pc", "of", "rng", "left", "drawn"} /\ NoCall.pc = "rest" /\ NoCall.drawn = <<>>
  BY DEF NoCall
<1>2. <<>> \in Seq(Nat)
  OBVIOUS
<1> QED BY <1>1, <1>2 DEF GoodCall

LEMMA CallsInvInit == CallsInit => CallsIInv
<1> SUFFICES ASSUME CallsInit PROVE CallsIInv
  OBVIOUS
<1>1. RegistryIInv
  BY RegistryInvInit DEF CallsInit
<1>2. GoodPlace(place) /\ place.stream = 0
  BY DEF CallsInit, GoodPlace
<1>3. GoodCall(call, place.stream)
  BY NoCallGood DEF CallsInit
<1>4. GoodRecord(<<>>, 0)
  <2>1. [i \in DOMAIN <<>> |-> <<>>[i].drawn] = <<>> /\ <<>> \in Seq(Nat) /\ <<>> \in Seq(Seq(Nat))
    OBVIOUS
  <2>2. FlattenSeq(<<>>) = <<>>
    BY DEF FlattenSeq
  <2>3. Places(0, 0) = <<>>
    BY PlacesAre
  <2> QED BY <2>1, <2>2, <2>3 DEF GoodRecord
<1> QED BY <1>1, <1>2, <1>3, <1>4 DEF CallsIInv, CallsInit

LEMMA RecordGrows ==
  ASSUME NEW r, NEW from \in Nat, GoodRecord(r, from), NEW to \in Nat, from <= to,
         NEW e, e.drawn = Places(from, to), ~ e.refused
  PROVE  GoodRecord(Append(r, e), to)
<1> DEFINE s == [i \in DOMAIN r |-> r[i].drawn]
           q == Append(r, e)
           t == [i \in DOMAIN q |-> q[i].drawn]
<1>1. PICK T : r \in Seq(T)
  BY DEF GoodRecord
<1>2. PICK len \in Nat : len = Len(r) /\ DOMAIN r = 1..len
  BY <1>1
<1>3. DOMAIN q = 1..(len + 1) /\ q[len + 1] = e /\ \A i \in 1..len : q[i] = r[i]
  BY <1>1, <1>2
<1>4. q \in Seq(T \cup {e})
  BY <1>1
<1>5. s \in Seq(Seq(Nat)) /\ FlattenSeq(s) = Places(0, from)
  BY DEF GoodRecord
<1>6. e.drawn \in Seq(Nat)
  BY PlacesAre
<1>7. t = Append(s, e.drawn)
  <2>1. Len(s) = len
    <3>1. DOMAIN s = 1..len
      BY <1>2
    <3> HIDE DEF s
    <3> QED BY <1>5, <3>1
  <2>2. \A i \in 1..len : s[i] = r[i].drawn
    BY <1>2
  <2>3. /\ DOMAIN Append(s, e.drawn) = 1..(len + 1) /\ Append(s, e.drawn)[len + 1] = e.drawn
        /\ \A i \in 1..len : Append(s, e.drawn)[i] = s[i]
        /\ Append(s, e.drawn) = [i \in 1..(len + 1) |-> Append(s, e.drawn)[i]]
    <3> DEFINE D == Seq(Nat)
    <3> HIDE DEF s, D
    <3>1. s \in Seq(D) /\ e.drawn \in D
      BY <1>5, <1>6 DEF D
    <3>2. PICK z \in Seq(D), d \in D : z = s /\ d = e.drawn
      BY <3>1
    <3>3. Append(z, d) \in Seq(D) /\ Len(z) = len
      BY <2>1, <3>2
    <3>4. DOMAIN Append(z, d) = 1..(len + 1) /\ Append(z, d)[len + 1] = d
      BY <3>3
    <3>5. \A i \in 1..len : Append(z, d)[i] = z[i]
      BY <3>3
    <3>6. Append(z, d) = [i \in DOMAIN Append(z, d) |-> Append(z, d)[i]]
      <4> PICK y \in Seq(D) : y = Append(z, d)
        BY <3>3
      <4>1. y \in [1..Len(y) -> D]
        BY LenProperties
      <4>2. y = [i \in DOMAIN y |-> y[i]]
        BY <4>1
      <4> QED BY <4>2
    <3> QED BY <3>2, <3>4, <3>5, <3>6
  <2> DEFINE a == Append(s, e.drawn)
  <2> HIDE DEF a, q, s
  <2>4. \A i \in 1..(len + 1) : i = len + 1 \/ i \in 1..len
    OBVIOUS
  <2>5. \A i \in 1..(len + 1) : t[i] = a[i]
    BY <1>3, <2>2, <2>3, <2>4 DEF a
  <2>6. t = [i \in 1..(len + 1) |-> t[i]]
    BY <1>3
  <2> QED BY <2>3, <2>5, <2>6 DEF a
<1>8. FlattenSeq(t) = Places(0, to)
  <2>1. FlattenSeq(t) = FlattenSeq(s) \o e.drawn
    <3> HIDE DEF s, t
    <3> QED BY <1>5, <1>6, <1>7, FlattenAppend
  <2>2. FlattenSeq(t) = Places(0, from) \o Places(from, to)
    BY <1>5, <2>1
  <2>3. Places(0, from) \o Places(from, to) = Places(0, to)
    <3>1. 0 \in Nat /\ 0 <= from
      OBVIOUS
    <3> QED BY <3>1, PlacesJoin
  <2> QED BY <2>2, <2>3
<1>9. t \in Seq(Seq(Nat))
  <2> HIDE DEF s, t
  <2>1. Append(s, e.drawn) \in Seq(Seq(Nat))
    <3> DEFINE D == Seq(Nat)
    <3> HIDE DEF D
    <3>1. s \in Seq(D) /\ e.drawn \in D
      BY <1>5, <1>6 DEF D
    <3>2. Append(s, e.drawn) \in Seq(D)
      BY <3>1
    <3> QED BY <3>2 DEF D
  <2> QED BY <1>7, <2>1
<1>10. \A i \in DOMAIN q : ~ q[i].refused
  <2> SUFFICES ASSUME NEW i \in 1..(len + 1) PROVE ~ q[i].refused
    BY <1>3
  <2>1. i = len + 1 \/ i \in 1..len
    OBVIOUS
  <2>2. \A j \in 1..len : ~ r[j].refused
    BY <1>2 DEF GoodRecord
  <2> HIDE DEF q
  <2> QED BY <1>3, <2>1, <2>2
<1> HIDE DEF t, q
<1> QED BY <1>4, <1>8, <1>9, <1>10 DEF GoodRecord, t, q

LEMMA FreshGenerator ==
  ASSUME NEW from \in Nat, NEW at \in Nat, from <= at, NEW drawn \in Seq(Nat), drawn = Places(from, at)
  PROVE  /\ Drawing(NewGenerator(at), from, drawn)
         /\ \A h, g : ~ g.refused /\ h = [NewGenerator(at) EXCEPT !.refused = g.refused] => Drawing(h, from, drawn)
<1> DEFINE g == NewGenerator(at)
<1>1. /\ DOMAIN g = {"closure", "trace", "failure", "refused"}
      /\ g.closure = at /\ g.trace = <<>> /\ ~ g.refused
  BY DEF NewGenerator
<1>2. Joined(drawn, <<>>) = Places(from, at) /\ <<>> \in Seq(Nat)
  BY ConcatEmptySeq DEF Joined
<1> HIDE DEF g
<1>3. ASSUME NEW h, NEW k, ~ k.refused, h = [g EXCEPT !.refused = k.refused] PROVE Drawing(h, from, drawn)
  <2>1. /\ DOMAIN h = {"closure", "trace", "failure", "refused"}
        /\ h.closure = at /\ h.trace = <<>> /\ ~ h.refused
    BY <1>1, <1>3
  <2> QED BY <1>2, <2>1 DEF Drawing
<1>4. Drawing(g, from, drawn)
  BY <1>1, <1>2 DEF Drawing
<1> QED BY <1>3, <1>4 DEF g

LEMMA DrawnGood ==
  ASSUME NEW from \in Nat, NEW drawn \in Seq(Nat), NEW g, Drawing(g, from, drawn), NEW valid, NEW sticky
  PROVE  Drawing(Drawn(g, valid, sticky), from, drawn)
<1> DEFINE next == Drawn(g, valid, sticky)
           fields == {"closure", "trace", "failure", "refused"}
<1>1. \/ next = g
      \/ next = Refuses(g, "RNG_DRAW_LIMIT_EXCEEDED")
      \/ next = Refuses(g, "RNG_FAILED")
      \/ next = [g EXCEPT !.closure = @ + 1, !.trace = Append(@, g.closure)]
  BY Zenon DEF Drawn
<1> HIDE DEF next
<1>2. ASSUME NEW code \in {"RNG_DRAW_LIMIT_EXCEEDED", "RNG_FAILED"}, next = Refuses(g, code)
      PROVE  Drawing(next, from, drawn)
  <2>1. DOMAIN next = fields /\ next.closure = g.closure /\ next.trace = g.trace /\ next.failure = code
    BY <1>2 DEF Refuses, Drawing
  <2>2. code # None
    BY DEF None
  <2> QED BY <2>1, <2>2 DEF Drawing
<1>3. ASSUME next = [g EXCEPT !.closure = @ + 1, !.trace = Append(@, g.closure)]
      PROVE  Drawing(next, from, drawn)
  <2>1. DOMAIN g = fields
    BY DEF Drawing
  <2>2. PICK closure \in Nat, trace \in Seq(Nat) : closure = g.closure /\ trace = g.trace
    BY DEF Drawing
  <2> DEFINE t == Append(trace, closure)
  <2>3. next = [g EXCEPT !.closure = closure + 1, !.trace = t]
    BY <1>3, <2>2
  <2>4. Joined(drawn, t) = Append(Joined(drawn, trace), closure)
    BY JoinAppend DEF Joined
  <2>5. Joined(drawn, trace) = Places(from, closure) /\ from <= closure
    BY <2>2 DEF Drawing
  <2>6. Joined(drawn, t) = Places(from, closure + 1)
    BY <2>4, <2>5, PlacesAre
  <2>7. t \in Seq(Nat) /\ closure + 1 \in Nat /\ from <= closure + 1
    BY <2>5
  <2> HIDE DEF t
  <2>8. /\ DOMAIN next = fields /\ next.closure = closure + 1 /\ next.trace = t
        /\ next.failure = g.failure /\ next.refused = g.refused
    BY <2>1, <2>3
  <2> QED BY <2>6, <2>7, <2>8 DEF Drawing
<1> QED BY <1>1, <1>2, <1>3 DEF next

LEMMA CallDraws ==
  ASSUME NEW c, NEW from \in Nat, GoodCall(c, from), c.pc \in {"resolving", "handling"}, NEW valid, NEW sticky
  PROVE  GoodCall([c EXCEPT !.rng = Drawn(@, valid, sticky)], from)
<1> DEFINE rng == Drawn(c.rng, valid, sticky)
<1>1. Drawing(rng, from, c.drawn)
  <2>1. Drawing(c.rng, from, c.drawn) /\ c.drawn \in Seq(Nat)
    BY DEF GoodCall
  <2> QED BY <2>1, DrawnGood
<1> HIDE DEF rng
<1>2. ASSUME NEW d, d = [c EXCEPT !.rng = rng] PROVE GoodCall(d, from)
  <2>1. /\ DOMAIN d = {"pc", "of", "rng", "left", "drawn"} /\ d.pc = c.pc /\ d.drawn = c.drawn /\ d.rng = rng
    BY <1>2 DEF GoodCall
  <2>2. c.pc # "events"
    OBVIOUS
  <2> QED BY <1>1, <2>1, <2>2 DEF GoodCall
<1> QED BY <1>2 DEF rng

\* An accepted call publishes the place its generator reached, and its numbers with it.
LEMMA PublishGood ==
  ASSUME GoodPlace(place), GoodRecord(record, place.stream), NEW accepted, NEW next, NEW drawn,
         accepted => /\ GoodPlace(next) /\ place.stream <= next.stream
                     /\ drawn = Places(place.stream, next.stream) /\ ~ call.rng.refused,
         Publish(accepted, next, drawn)
  PROVE  GoodPlace(place') /\ GoodRecord(record', place'.stream)
<1>1. PICK w, r, c : w = place /\ r = record /\ c = call
  OBVIOUS
<1>2. GoodPlace(w) /\ GoodRecord(r, w.stream) /\ w.stream \in Nat
  BY <1>1 DEF GoodPlace
<1>3. CASE accepted
  <2> DEFINE e == [of |-> c.of, drawn |-> drawn, refused |-> c.rng.refused]
  <2>1. place' = next /\ record' = Append(r, e)
    BY <1>1, <1>3 DEF Publish
  <2>2. next.stream \in Nat /\ e.drawn = Places(w.stream, next.stream) /\ ~ e.refused /\ w.stream <= next.stream
    BY <1>1, <1>3 DEF GoodPlace
  <2> HIDE DEF e
  <2>3. GoodRecord(Append(r, e), next.stream)
    BY <1>2, <2>2, RecordGrows
  <2> QED BY <1>3, <2>1, <2>3
<1>4. CASE ~ accepted
  <2>1. place' = w /\ record' = r
    BY <1>1, <1>4 DEF Publish
  <2> QED BY <1>2, <2>1
<1> QED BY <1>3, <1>4

LEMMA CallsInvStep == CallsIInv /\ [CallsNext]_pluginVars => CallsIInv'
<1> SUFFICES ASSUME CallsIInv, [CallsNext]_pluginVars PROVE CallsIInv'
  OBVIOUS
<1>1. PICK c, w, r : c = call /\ w = place /\ r = record
  OBVIOUS
<1>2. GoodPlace(w) /\ GoodCall(c, w.stream) /\ GoodRecord(r, w.stream) /\ w.stream \in Nat
  BY <1>1 DEF CallsIInv, GoodPlace
<1>a. <<>> \in Seq(Nat) /\ Places(w.stream, w.stream) = <<>> /\ w.stream <= w.stream
  <2> PICK s \in Nat : s = w.stream
    BY <1>2
  <2>1. s <= s
    OBVIOUS
  <2>2. Places(s, s) = <<>>
    BY <2>1, PlacesAre
  <2> QED BY <2>1, <2>2
<1>3. RegistryIInv'
  <2>1. [RegistryNext]_registryVars
    BY DEF CallsNext, pluginVars, registryVars, ExecuteAction, Draw, DrawLate, PluginThrows, ReturnPlan,
           BeginProcessing, PassEvent, HandlePluginEvent, ReturnEvents, ProcessingFails, FinishProcessing
  <2> QED BY <2>1, RegistryInvStep DEF CallsIInv
<1> SUFFICES GoodPlace(place') /\ GoodCall(call', place'.stream) /\ GoodRecord(record', place'.stream)
  BY <1>3 DEF CallsIInv
<1>4. ASSUME UNCHANGED <<place, record>>, GoodCall(call', w.stream)
      PROVE  GoodPlace(place') /\ GoodCall(call', place'.stream) /\ GoodRecord(record', place'.stream)
  BY <1>1, <1>2, <1>4
<1>5. ASSUME UNCHANGED <<place, record>>, EndCall
      PROVE  GoodPlace(place') /\ GoodCall(call', place'.stream) /\ GoodRecord(record', place'.stream)
  BY <1>1, <1>2, <1>5, NoCallGood DEF EndCall
<1>6. ASSUME NEW accepted, NEW next, NEW drawn, EndCall, Publish(accepted, next, drawn),
             accepted => /\ GoodPlace(next) /\ w.stream <= next.stream
                         /\ drawn = Places(w.stream, next.stream) /\ ~ c.rng.refused
      PROVE  GoodPlace(place') /\ GoodCall(call', place'.stream) /\ GoodRecord(record', place'.stream)
  <2>1. GoodPlace(place') /\ GoodRecord(record', place'.stream)
    BY <1>1, <1>2, <1>6, PublishGood
  <2>2. call' = NoCall
    BY <1>6 DEF EndCall
  <2> QED BY <2>1, <2>2, NoCallGood
<1>7. CASE RegistryNext /\ CallAt("rest") /\ kept' = {} /\ UNCHANGED <<place, call, record>>
  BY <1>1, <1>2, <1>4, <1>7
<1>8. ASSUME NEW a \in DOMAIN backends, ExecuteAction(a)
      PROVE  GoodPlace(place') /\ GoodCall(call', place'.stream) /\ GoodRecord(record', place'.stream)
  <2>1. call' = [NoCall EXCEPT !.pc = "resolving", !.of = a, !.rng = NewGenerator(w.stream)]
    BY <1>1, <1>8 DEF ExecuteAction
  <2>2. PICK d : d = call'
    OBVIOUS
  <2>3. /\ DOMAIN d = {"pc", "of", "rng", "left", "drawn"} /\ d.pc = "resolving" /\ d.drawn = <<>>
        /\ d.rng = NewGenerator(w.stream)
    BY <2>1, <2>2 DEF NoCall
  <2>5. Drawing(NewGenerator(w.stream), w.stream, <<>>)
    BY <1>2, <1>a, FreshGenerator
  <2>6. GoodCall(d, w.stream)
    BY <2>3, <1>a, <2>5 DEF GoodCall
  <2> QED BY <1>4, <1>8, <2>2, <2>6 DEF ExecuteAction
<1>9. ASSUME NEW valid \in BOOLEAN, Draw(valid)
      PROVE  GoodPlace(place') /\ GoodCall(call', place'.stream) /\ GoodRecord(record', place'.stream)
  <2>1. PICK sticky : sticky = CallAt("resolving")
    OBVIOUS
  <2>2. call' = [c EXCEPT !.rng = Drawn(@, valid, sticky)] /\ c.pc \in {"resolving", "handling"}
    BY <1>1, <1>9, <2>1 DEF Draw
  <2>3. GoodCall(call', w.stream)
    BY <1>2, <2>2, CallDraws
  <2> QED BY <1>4, <1>9, <2>3 DEF Draw
<1>10. ASSUME NEW valid \in BOOLEAN, DrawLate(valid)
       PROVE  GoodPlace(place') /\ GoodCall(call', place'.stream) /\ GoodRecord(record', place'.stream)
  BY <1>1, <1>2, <1>4, <1>10 DEF DrawLate
<1>11. CASE PluginThrows
  BY <1>5, <1>11 DEF PluginThrows
<1>12. ASSUME NEW plan \in ActionPlans, ReturnPlan(plan)
       PROVE  GoodPlace(place') /\ GoodCall(call', place'.stream) /\ GoodRecord(record', place'.stream)
  <2> DEFINE next == [stock |-> w.stock + plan.delta, clock |-> w.clock + plan.duration, stream |-> c.rng.closure]
             accepted == PlanStands(plan) /\ next.stock \in 0..Capacity /\ next.clock <= LastSecond
  <2>1. Publish(accepted, next, c.rng.trace) /\ EndCall /\ c.pc = "resolving"
    BY <1>1, <1>12 DEF ReturnPlan, CallAt
  <2>2. PICK n, t : n = next /\ t = c.rng.trace
    OBVIOUS
  <2>3. DOMAIN n = {"stock", "clock", "stream"} /\ n.stream = c.rng.closure
    BY <2>2
  <2>4. Drawing(c.rng, w.stream, c.drawn) /\ c.drawn = <<>>
    BY <1>2, <2>1 DEF GoodCall
  <2>5. t \in Seq(Nat) /\ Joined(<<>>, t) = Places(w.stream, n.stream) /\ n.stream \in Nat /\ w.stream <= n.stream
    BY <2>2, <2>3, <2>4 DEF Drawing
  <2>6. t = Places(w.stream, n.stream)
    BY <2>5, ConcatEmptySeq DEF Joined
  <2>7. accepted => ~ c.rng.refused
    BY <1>1, <2>4 DEF PlanStands, Drawing
  <2>8. PICK yes : yes = accepted
    OBVIOUS
  <2>9. Publish(yes, n, t)
    BY <2>1, <2>2, <2>8
  <2>10. GoodPlace(n)
    BY <2>3, <2>5 DEF GoodPlace
  <2> HIDE DEF next, accepted
  <2> QED BY <1>6, <2>1, <2>5, <2>6, <2>7, <2>8, <2>9, <2>10
<1>13. ASSUME NEW n \in Advances, BeginProcessing(n)
       PROVE  GoodPlace(place') /\ GoodCall(call', place'.stream) /\ GoodRecord(record', place'.stream)
  <2>1. call' = [NoCall EXCEPT !.pc = "events", !.left = n, !.rng = NewGenerator(w.stream)]
    BY <1>1, <1>13 DEF BeginProcessing
  <2>2. PICK d : d = call'
    OBVIOUS
  <2>3. /\ DOMAIN d = {"pc", "of", "rng", "left", "drawn"} /\ d.pc = "events" /\ d.drawn = <<>>
        /\ d.rng = NewGenerator(w.stream)
    BY <2>1, <2>2 DEF NoCall
  <2>5. NewGenerator(w.stream).closure = w.stream /\ ~ NewGenerator(w.stream).refused
    BY DEF NewGenerator
  <2>6. GoodCall(d, w.stream)
    BY <1>2, <1>a, <2>3, <2>5 DEF GoodCall
  <2> QED BY <1>4, <1>13, <2>2, <2>6 DEF BeginProcessing
<1>14. CASE PassEvent
  <2>1. PICK d : d = call'
    OBVIOUS
  <2>2. d = [c EXCEPT !.left = @ - 1] /\ c.pc = "events"
    BY <1>1, <1>14, <2>1 DEF PassEvent, CallAt
  <2>3. DOMAIN d = DOMAIN c /\ d.pc = c.pc /\ d.drawn = c.drawn /\ d.rng = c.rng
    BY <1>2, <2>2 DEF GoodCall
  <2>4. GoodCall(d, w.stream)
    BY <1>2, <2>2, <2>3 DEF GoodCall
  <2> QED BY <1>4, <1>14, <2>1, <2>4 DEF PassEvent
<1>15. CASE HandlePluginEvent
  <2>1. PICK d : d = call'
    OBVIOUS
  <2>2. PICK a, rng : /\ d = [c EXCEPT !.pc = "handling", !.of = a, !.rng = rng]
                      /\ rng = [NewGenerator(c.rng.closure) EXCEPT !.refused = c.rng.refused]
    BY <1>1, <1>15, <2>1 DEF HandlePluginEvent
  <2>3. /\ DOMAIN d = {"pc", "of", "rng", "left", "drawn"} /\ d.pc = "handling"
        /\ d.drawn = c.drawn /\ d.rng = rng
    BY <1>2, <2>2 DEF GoodCall
  <2>4. /\ c.rng.closure \in Nat /\ w.stream <= c.rng.closure /\ c.drawn \in Seq(Nat)
        /\ c.drawn = Places(w.stream, c.rng.closure) /\ ~ c.rng.refused
    BY <1>1, <1>2, <1>15 DEF GoodCall, HandlePluginEvent, CallAt
  <2>5. Drawing(rng, w.stream, c.drawn)
    BY <1>2, <2>2, <2>4, FreshGenerator
  <2>6. GoodCall(d, w.stream)
    BY <2>3, <2>4, <2>5 DEF GoodCall
  <2> QED BY <1>4, <1>15, <2>1, <2>6 DEF HandlePluginEvent
<1>16. CASE ReturnEvents
  <2>1. PICK d : d = call'
    OBVIOUS
  <2>2. PICK drawn, trace, closure : drawn = c.drawn /\ trace = c.rng.trace /\ closure = c.rng.closure
    OBVIOUS
  <2>3. d = [c EXCEPT !.pc = "events", !.left = @ - 1, !.drawn = Joined(drawn, trace)]
    BY <1>1, <1>16, <2>1, <2>2 DEF ReturnEvents, Joined
  <2>4. c.pc = "handling" /\ c.rng.failure = None
    BY <1>1, <1>16 DEF ReturnEvents, CallAt, AnswerStands
  <2>5. Drawing(c.rng, w.stream, c.drawn) /\ drawn \in Seq(Nat)
    BY <1>2, <2>2, <2>4 DEF GoodCall
  <2>6. /\ closure \in Nat /\ w.stream <= closure /\ ~ c.rng.refused
        /\ Joined(drawn, trace) = Places(w.stream, closure)
    BY <2>2, <2>4, <2>5 DEF Drawing
  <2>7. Places(w.stream, closure) \in Seq(Nat)
    BY <1>2, <2>6, PlacesAre
  <2>8. /\ DOMAIN d = {"pc", "of", "rng", "left", "drawn"} /\ d.pc = "events"
        /\ d.drawn = Places(w.stream, closure) /\ d.rng = c.rng
    BY <1>2, <2>3, <2>6 DEF GoodCall
  <2>9. GoodCall(d, w.stream)
    BY <2>2, <2>6, <2>7, <2>8 DEF GoodCall
  <2> QED BY <1>4, <1>16, <2>1, <2>9 DEF ReturnEvents
<1>17. CASE ProcessingFails
  BY <1>5, <1>17 DEF ProcessingFails
<1>18. CASE FinishProcessing
  <2>1. PICK n, yes, t : /\ n = [w EXCEPT !.clock = @ + 1, !.stream = c.rng.closure] /\ yes = TRUE /\ t = c.drawn
    OBVIOUS
  <2>2. Publish(yes, n, t) /\ EndCall /\ c.pc = "events"
    BY <1>1, <1>18, <2>1 DEF FinishProcessing, CallAt
  <2>3. DOMAIN n = {"stock", "clock", "stream"} /\ n.stream = c.rng.closure
    BY <1>2, <2>1 DEF GoodPlace
  <2>4. /\ c.rng.closure \in Nat /\ w.stream <= c.rng.closure
        /\ c.drawn = Places(w.stream, c.rng.closure) /\ ~ c.rng.refused
    BY <1>2, <2>2 DEF GoodCall
  <2>5. GoodPlace(n)
    BY <2>3, <2>4 DEF GoodPlace
  <2> QED BY <1>6, <2>1, <2>2, <2>3, <2>4, <2>5
<1>19. CASE UNCHANGED pluginVars
  BY <1>1, <1>2, <1>4, <1>19 DEF pluginVars, callVars
<1> QED BY <1>7, <1>8, <1>9, <1>10, <1>11, <1>12, <1>13, <1>14, <1>15, <1>16, <1>17, <1>18, <1>19 DEF CallsNext

\* Randomness is accounted for: the accepted calls drew the beginning of the stream, each
\* number once and in order, none of them went on after a refused draw, and an action is
\* resolved by the only plugin that owns it.
THEOREM StreamIsDrawn == CallsSpec => []StreamIsItsDraws
<1>1. ASSUME CallsIInv PROVE StreamIsItsDraws
  <2>1. place.stream \in Nat
    BY <1>1 DEF CallsIInv, GoodPlace
  <2>2. Places(0, place.stream) = [n \in 1..place.stream |-> n - 1]
    <3>1. place.stream - 0 = place.stream /\ \A n \in 1..place.stream : 0 + n - 1 = n - 1
      BY <2>1
    <3> QED BY <2>1, <3>1 DEF Places
  <2>3. /\ FlattenSeq([i \in DOMAIN record |-> record[i].drawn]) = [n \in 1..place.stream |-> n - 1]
        /\ \A i \in DOMAIN record : ~ record[i].refused
    BY <1>1, <2>2 DEF CallsIInv, GoodRecord
  <2>4. ASSUME NEW a \in DOMAIN backends
        PROVE  {p \in Installed : a \in Range(registry.byId[p].owns)} = {backends[a]}
    <3>1. GoodBackends(registry, backends) /\ GoodRegistry(registry)
      BY <1>1 DEF CallsIInv, RegistryIInv
    <3>2. registry.stage = "built" /\ backends[a] \in DOMAIN registry.byId
          /\ a \in Range(registry.byId[backends[a]].owns)
      BY <2>4, <3>1 DEF GoodBackends
    <3>3. OwnersApart(registry.byId)
      BY <3>1, <3>2 DEF GoodRegistry
    <3> QED BY <3>2, <3>3 DEF OwnersApart, Installed
  <2> QED BY <2>3, <2>4 DEF StreamIsItsDraws
<1>2. CallsSpec => []CallsIInv
  BY CallsInvInit, CallsInvStep, PTL DEF CallsSpec
<1> QED BY <1>1, <1>2, PTL

-------------------------------------------------------------------------------
(* Game time: what a batch, and what the events of a trial, make of the stock *)

LEMMA EventTyped ==
  ASSUME NEW e \in Event
  PROVE  /\ e.id \in Nat /\ e.at \in Nat /\ e.order \in Nat /\ e.deltas \in Seq(Int)
         /\ e.kind \in {"core.marker", "core.effects", "core.terminal"}
         /\ e.kind # "core.effects" => e.deltas = <<>>
BY DEF Event

LEMMA ChangeTyped ==
  ASSUME NEW stock \in Int, NEW delta \in Int
  PROVE  Change(stock, delta) \in Int
BY DEF Change

IsBatch(h, base, seq, N) ==
  /\ h \in [0..N -> Int] /\ h[0] = base
  /\ \A n \in 1..N : h[n] = Change(h[n - 1], seq[n])
  /\ BatchApplied(base, seq) = h[N]

LEMMA BatchIterates ==
  ASSUME NEW base \in Int, NEW seq \in Seq(Int)
  PROVE  \E h : IsBatch(h, base, seq, Len(seq))
<1> DEFINE N == Len(seq)
           F == [x \in Int \X (1..N) |-> Change(x[1], seq[x[2]])]
<1>1. N \in Nat /\ DOMAIN seq = 1..N
  OBVIOUS
<1>2. Maps(F, Int, N)
  <2>1. \A x \in Int \X (1..N) : x[1] \in Int /\ seq[x[2]] \in Int
    OBVIOUS
  <2>2. \A x \in Int \X (1..N) : Change(x[1], seq[x[2]]) \in Int
    BY <2>1, ChangeTyped
  <2> QED BY <2>2 DEF Maps
<1>3. \A d \in Int, n \in 1..N : F[<<d, n>>] = Change(d, seq[n])
  OBVIOUS
<1>4. BatchApplied(base, seq) =
        LET E(f) == [t \in SUBSET DOMAIN seq |->
                       IF t = {} THEN base ELSE Change(f[t \ {Max(t)}], seq[Max(t)])]
        IN  (CHOOSE f : f = E(f))[DOMAIN seq]
  BY DEF BatchApplied, FoldLeft, MapThenFoldSet
<1> DEFINE E(f) == [t \in SUBSET (1..N) |->
                      IF t = {} THEN base ELSE Change(f[t \ {Max(t)}], seq[Max(t)])]
           fold == CHOOSE f : f = E(f)
<1>5. BatchApplied(base, seq) = fold[1..N]
  BY <1>1, <1>4
<1> HIDE DEF F, N
<1>6. PICK f : IsSetFold(f, F, base, Int, N)
  BY <1>1, <1>2, SetFolds
<1>7. PICK h : IsIterate(h, F, base, Int, N)
  BY <1>1, <1>2, Iterates
<1>8. ASSUME NEW t \in SUBSET (1..N), t # {} PROVE Max(t) \in 1..N
  BY <1>1, <1>8, MaxIs
<1>9. f = E(f)
  <2>1. f \in [SUBSET (1..N) -> Int]
    BY <1>6 DEF IsSetFold
  <2>2. ASSUME NEW t \in SUBSET (1..N), t # {} PROVE f[t] = Change(f[t \ {Max(t)}], seq[Max(t)])
    <3>1. f[t] = F[<<f[t \ {Max(t)}], Max(t)>>]
      BY <1>6, <2>2 DEF IsSetFold
    <3>2. f[t \ {Max(t)}] \in Int
      BY <2>1
    <3> QED BY <1>3, <1>8, <2>2, <3>1, <3>2
  <2>3. f[{}] = base
    BY <1>6 DEF IsSetFold
  <2> QED BY <2>1, <2>2, <2>3
<1>10. fold = E(fold)
  BY <1>9
<1> HIDE DEF fold
<1> DEFINE S == {n \in Nat : n <= N => fold[1..n] = h[n]}
<1>11. 0 \in S
  <2>1. 1..0 = {} /\ {} \in SUBSET (1..N)
    OBVIOUS
  <2>2. fold[{}] = base
    BY <1>10, <2>1
  <2> QED BY <1>7, <2>1, <2>2 DEF IsIterate
<1>12. \A n \in S : n + 1 \in S
  <2> SUFFICES ASSUME NEW n \in S, n + 1 <= N PROVE fold[1..(n + 1)] = h[n + 1]
    OBVIOUS
  <2>1. 1..(n + 1) \in SUBSET (1..N) /\ 1..(n + 1) # {}
    <3>1. N \in Nat /\ n \in Nat
      BY <1>1
    <3>2. \A k \in 1..(n + 1) : k \in 1..N
      BY <3>1
    <3>3. n + 1 \in 1..(n + 1)
      BY <3>1
    <3> QED BY <3>2, <3>3
  <2>2. Max(1..(n + 1)) = n + 1 /\ (1..(n + 1)) \ {n + 1} = 1..n
    BY MaxOfInterval
  <2>3. fold[1..(n + 1)] = Change(fold[1..n], seq[n + 1])
    BY <1>10, <2>1, <2>2
  <2>4. n + 1 \in 1..N /\ (n + 1) - 1 = n /\ n \in 0..N
    BY <1>1
  <2>5. h[n + 1] = F[<<h[n], n + 1>>] /\ h[n] \in Int
    BY <1>7, <2>4 DEF IsIterate
  <2> QED BY <1>3, <2>3, <2>4, <2>5
<1>13. S = Nat
  <2> HIDE DEF S
  <2>1. S \in SUBSET Nat
    BY DEF S
  <2> QED BY <1>11, <1>12, <2>1, Induction
<1>14. fold[1..N] = h[N]
  BY <1>1, <1>13
<1>15. h \in [0..N -> Int] /\ h[0] = base
  BY <1>7 DEF IsIterate
<1>16. ASSUME NEW n \in 1..N PROVE h[n] = Change(h[n - 1], seq[n])
  <2>1. h[n] = F[<<h[n - 1], n>>]
    BY <1>7 DEF IsIterate
  <2>2. h[n - 1] \in Int
    BY <1>1, <1>15
  <2> QED BY <1>3, <2>1, <2>2
<1>17. IsBatch(h, base, seq, N)
  BY <1>5, <1>14, <1>15, <1>16 DEF IsBatch
<1> QED BY <1>17 DEF N

LEMMA BatchIs ==
  ASSUME NEW stock \in Int, NEW deltas \in Seq(Int)
  PROVE  /\ BatchApplied(stock, deltas) \in Int
         /\ deltas = <<>> => BatchApplied(stock, deltas) = stock
         /\ ~ InBounds(stock) => ~ InBounds(BatchApplied(stock, deltas))
<1>1. PICK len \in Nat : len = Len(deltas)
  OBVIOUS
<1>2. PICK h : IsBatch(h, stock, deltas, len)
  BY <1>1, BatchIterates
<1>3. h \in [0..len -> Int] /\ h[0] = stock /\ BatchApplied(stock, deltas) = h[len]
  BY <1>2 DEF IsBatch
<1>4. deltas = <<>> => len = 0
  BY <1>1
<1>5. ASSUME ~ InBounds(stock) PROVE ~ InBounds(h[len])
  <2> DEFINE S == {n \in Nat : n <= len => ~ InBounds(h[n])}
  <2>1. 0 \in S
    BY <1>3, <1>5
  <2>2. \A n \in S : n + 1 \in S
    <3> SUFFICES ASSUME NEW n \in S, n + 1 <= len PROVE ~ InBounds(h[n + 1])
      OBVIOUS
    <3>1. n + 1 \in 1..len /\ (n + 1) - 1 = n
      OBVIOUS
    <3>2. h[n + 1] = Change(h[n], deltas[n + 1])
      BY <1>2, <3>1 DEF IsBatch
    <3>3. ~ InBounds(h[n])
      OBVIOUS
    <3>4. h[n + 1] = -1
      BY <3>2, <3>3 DEF Change
    <3> QED BY <3>4 DEF InBounds
  <2>3. S = Nat
    <3>1. S \in SUBSET Nat
      OBVIOUS
    <3> HIDE DEF S
    <3> QED BY <2>1, <2>2, <3>1, Induction
  <2> QED BY <2>3
<1> QED BY <1>3, <1>4, <1>5

IsStock(h, base, seq, N) ==
  /\ h \in [0..N -> Int] /\ h[0] = base
  /\ \A n \in 1..N : h[n] = BatchApplied(h[n - 1], seq[n].deltas)
  /\ StockAfter(base, seq) = h[N]

LEMMA StockIterates ==
  ASSUME NEW base \in Int, NEW seq \in Seq(Event)
  PROVE  \E h : IsStock(h, base, seq, Len(seq))
<1> DEFINE N == Len(seq)
           F == [x \in Int \X (1..N) |-> BatchApplied(x[1], seq[x[2]].deltas)]
<1>1. N \in Nat /\ DOMAIN seq = 1..N
  OBVIOUS
<1>2. Maps(F, Int, N)
  <2>1. \A x \in Int \X (1..N) : x[1] \in Int /\ seq[x[2]] \in Event
    OBVIOUS
  <2>2. \A x \in Int \X (1..N) : BatchApplied(x[1], seq[x[2]].deltas) \in Int
    BY <2>1, BatchIs, EventTyped
  <2> QED BY <2>2 DEF Maps
<1>3. \A d \in Int, n \in 1..N : F[<<d, n>>] = BatchApplied(d, seq[n].deltas)
  OBVIOUS
<1>4. StockAfter(base, seq) =
        LET E(f) == [t \in SUBSET DOMAIN seq |->
                       IF t = {} THEN base ELSE BatchApplied(f[t \ {Max(t)}], seq[Max(t)].deltas)]
        IN  (CHOOSE f : f = E(f))[DOMAIN seq]
  BY DEF StockAfter, FoldLeft, MapThenFoldSet
<1> DEFINE E(f) == [t \in SUBSET (1..N) |->
                      IF t = {} THEN base ELSE BatchApplied(f[t \ {Max(t)}], seq[Max(t)].deltas)]
           fold == CHOOSE f : f = E(f)
<1>5. StockAfter(base, seq) = fold[1..N]
  BY <1>1, <1>4
<1> HIDE DEF F, N
<1>6. PICK f : IsSetFold(f, F, base, Int, N)
  BY <1>1, <1>2, SetFolds
<1>7. PICK h : IsIterate(h, F, base, Int, N)
  BY <1>1, <1>2, Iterates
<1>8. ASSUME NEW t \in SUBSET (1..N), t # {} PROVE Max(t) \in 1..N
  BY <1>1, <1>8, MaxIs
<1>9. f = E(f)
  <2>1. f \in [SUBSET (1..N) -> Int]
    BY <1>6 DEF IsSetFold
  <2>2. ASSUME NEW t \in SUBSET (1..N), t # {} PROVE f[t] = BatchApplied(f[t \ {Max(t)}], seq[Max(t)].deltas)
    <3>1. f[t] = F[<<f[t \ {Max(t)}], Max(t)>>]
      BY <1>6, <2>2 DEF IsSetFold
    <3>2. f[t \ {Max(t)}] \in Int
      BY <2>1
    <3> QED BY <1>3, <1>8, <2>2, <3>1, <3>2
  <2>3. f[{}] = base
    BY <1>6 DEF IsSetFold
  <2> QED BY <2>1, <2>2, <2>3
<1>10. fold = E(fold)
  BY <1>9
<1> HIDE DEF fold
<1> DEFINE S == {n \in Nat : n <= N => fold[1..n] = h[n]}
<1>11. 0 \in S
  <2>1. 1..0 = {} /\ {} \in SUBSET (1..N)
    OBVIOUS
  <2>2. fold[{}] = base
    BY <1>10, <2>1
  <2> QED BY <1>7, <2>1, <2>2 DEF IsIterate
<1>12. \A n \in S : n + 1 \in S
  <2> SUFFICES ASSUME NEW n \in S, n + 1 <= N PROVE fold[1..(n + 1)] = h[n + 1]
    OBVIOUS
  <2>1. 1..(n + 1) \in SUBSET (1..N) /\ 1..(n + 1) # {}
    <3>1. N \in Nat /\ n \in Nat
      BY <1>1
    <3>2. \A k \in 1..(n + 1) : k \in 1..N
      BY <3>1
    <3>3. n + 1 \in 1..(n + 1)
      BY <3>1
    <3> QED BY <3>2, <3>3
  <2>2. Max(1..(n + 1)) = n + 1 /\ (1..(n + 1)) \ {n + 1} = 1..n
    BY MaxOfInterval
  <2>3. fold[1..(n + 1)] = BatchApplied(fold[1..n], seq[n + 1].deltas)
    BY <1>10, <2>1, <2>2
  <2>4. n + 1 \in 1..N /\ (n + 1) - 1 = n /\ n \in 0..N
    BY <1>1
  <2>5. h[n + 1] = F[<<h[n], n + 1>>] /\ h[n] \in Int
    BY <1>7, <2>4 DEF IsIterate
  <2> QED BY <1>3, <2>3, <2>4, <2>5
<1>13. S = Nat
  <2> HIDE DEF S
  <2>1. S \in SUBSET Nat
    BY DEF S
  <2> QED BY <1>11, <1>12, <2>1, Induction
<1>14. fold[1..N] = h[N]
  BY <1>1, <1>13
<1>15. h \in [0..N -> Int] /\ h[0] = base
  BY <1>7 DEF IsIterate
<1>16. ASSUME NEW n \in 1..N PROVE h[n] = BatchApplied(h[n - 1], seq[n].deltas)
  <2>1. h[n] = F[<<h[n - 1], n>>]
    BY <1>7 DEF IsIterate
  <2>2. h[n - 1] \in Int
    BY <1>1, <1>15
  <2> QED BY <1>3, <2>1, <2>2
<1>17. IsStock(h, base, seq, N)
  BY <1>5, <1>14, <1>15, <1>16 DEF IsStock
<1> QED BY <1>17 DEF N

-------------------------------------------------------------------------------
(* The stock after a part of the events                                      *)

LEMMA StockPrefix ==
  ASSUME NEW base \in Int, NEW es \in Seq(Event), NEW len \in Nat, len = Len(es),
         NEW h, IsStock(h, base, es, len), NEW k \in 0..len
  PROVE  StockAfter(base, SubSeq(es, 1, k)) = h[k]
<1> DEFINE fs == SubSeq(es, 1, k)
<1>1. fs \in Seq(Event) /\ Len(fs) = k /\ \A i \in 1..k : fs[i] = es[i]
  BY SubSeqProperties
<1> HIDE DEF fs
<1>2. PICK g : IsStock(g, base, fs, k)
  BY <1>1, StockIterates
<1>3. /\ g \in [0..k -> Int] /\ g[0] = base /\ StockAfter(base, fs) = g[k]
      /\ \A n \in 1..k : g[n] = BatchApplied(g[n - 1], fs[n].deltas)
  BY <1>2 DEF IsStock
<1>4. h[0] = base /\ \A n \in 1..k : h[n] = BatchApplied(h[n - 1], es[n].deltas)
  BY DEF IsStock
<1> DEFINE S == {n \in Nat : n <= k => g[n] = h[n]}
<1>5. 0 \in S
  BY <1>3, <1>4
<1>6. \A n \in S : n + 1 \in S
  <2> SUFFICES ASSUME NEW n \in S, n + 1 <= k PROVE g[n + 1] = h[n + 1]
    OBVIOUS
  <2>1. n + 1 \in 1..k /\ (n + 1) - 1 = n /\ g[n] = h[n]
    OBVIOUS
  <2>2. g[n + 1] = BatchApplied(g[(n + 1) - 1], fs[n + 1].deltas)
    BY <1>3, <2>1
  <2>3. h[n + 1] = BatchApplied(h[(n + 1) - 1], es[n + 1].deltas)
    BY <1>4, <2>1
  <2> QED BY <1>1, <2>1, <2>2, <2>3
<1>7. S = Nat
  <2>1. S \in SUBSET Nat
    OBVIOUS
  <2> HIDE DEF S
  <2> QED BY <1>5, <1>6, <2>1, Induction
<1> QED BY <1>3, <1>7 DEF fs

LEMMA StockIs ==
  ASSUME NEW base \in Int, NEW es \in Seq(Event)
  PROVE  /\ StockAfter(base, es) \in Int /\ StockAfter(base, <<>>) = base
         /\ \A e \in Event :
              StockAfter(base, Append(es, e)) = BatchApplied(StockAfter(base, es), e.deltas)
         /\ \A k \in 0..Len(es) :
              ~ InBounds(StockAfter(base, SubSeq(es, 1, k))) => ~ InBounds(StockAfter(base, es))
<1>1. PICK len \in Nat : len = Len(es)
  OBVIOUS
<1>2. PICK h : IsStock(h, base, es, len)
  BY <1>1, StockIterates
<1>3. /\ h \in [0..len -> Int] /\ StockAfter(base, es) = h[len]
      /\ \A n \in 1..len : h[n] = BatchApplied(h[n - 1], es[n].deltas)
  BY <1>2 DEF IsStock
<1>4. StockAfter(base, <<>>) = base
  <2>1. <<>> \in Seq(Event) /\ Len(<<>>) = 0
    OBVIOUS
  <2>2. PICK g : IsStock(g, base, <<>>, 0)
    BY <2>1, StockIterates
  <2> QED BY <2>2 DEF IsStock
<1>5. ASSUME NEW e \in Event
      PROVE  StockAfter(base, Append(es, e)) = BatchApplied(StockAfter(base, es), e.deltas)
  <2> DEFINE fs == Append(es, e)
  <2>1. fs \in Seq(Event) /\ Len(fs) = len + 1 /\ fs[len + 1] = e /\ SubSeq(fs, 1, len) = es
    <3>1. fs \in Seq(Event) /\ Len(fs) = len + 1 /\ fs[len + 1] = e
      BY <1>1
    <3>2. SubSeq(fs, 1, len) = es
      BY <1>1, AppendProperties
    <3> QED BY <3>1, <3>2
  <2> HIDE DEF fs
  <2>2. PICK g : IsStock(g, base, fs, len + 1)
    BY <2>1, StockIterates
  <2>3. StockAfter(base, fs) = g[len + 1]
    BY <2>2 DEF IsStock
  <2>4. len + 1 \in 1..(len + 1) /\ (len + 1) - 1 = len /\ len + 1 \in Nat /\ len \in 0..(len + 1)
    OBVIOUS
  <2>5. g[len + 1] = BatchApplied(g[(len + 1) - 1], fs[len + 1].deltas)
    BY <2>2, <2>4 DEF IsStock
  <2>6. StockAfter(base, SubSeq(fs, 1, len)) = g[len]
    BY <2>1, <2>2, <2>4, StockPrefix
  <2> QED BY <2>1, <2>3, <2>4, <2>5, <2>6 DEF fs
<1>6. ASSUME NEW k \in 0..len, ~ InBounds(StockAfter(base, SubSeq(es, 1, k)))
      PROVE  ~ InBounds(h[len])
  <2> DEFINE S == {n \in Nat : k + n <= len => ~ InBounds(h[k + n])}
  <2>1. 0 \in S
    <3>1. StockAfter(base, SubSeq(es, 1, k)) = h[k] /\ k + 0 = k
      BY <1>1, <1>2, StockPrefix
    <3> QED BY <1>6, <3>1
  <2>2. \A n \in S : n + 1 \in S
    <3> SUFFICES ASSUME NEW n \in S, k + (n + 1) <= len PROVE ~ InBounds(h[k + (n + 1)])
      OBVIOUS
    <3> DEFINE m == k + n
    <3>1. m \in 0..len /\ m + 1 \in 1..len /\ (m + 1) - 1 = m /\ k + (n + 1) = m + 1 /\ ~ InBounds(h[m])
      OBVIOUS
    <3> HIDE DEF m
    <3>2. h[m + 1] = BatchApplied(h[(m + 1) - 1], es[m + 1].deltas)
      BY <1>3, <3>1
    <3>3. h[m] \in Int /\ es[m + 1].deltas \in Seq(Int)
      BY <1>1, <1>3, <3>1, EventTyped
    <3> QED BY <3>1, <3>2, <3>3, BatchIs
  <2>3. S = Nat
    <3>1. S \in SUBSET Nat
      OBVIOUS
    <3> HIDE DEF S
    <3> QED BY <2>1, <2>2, <3>1, Induction
  <2>4. len - k \in Nat /\ k + (len - k) = len
    OBVIOUS
  <2>5. len - k \in S
    BY <2>3, <2>4
  <2> QED BY <2>4, <2>5
<1>7. h[len] \in Int
  BY <1>3
<1> QED BY <1>1, <1>3, <1>4, <1>5, <1>6, <1>7

-------------------------------------------------------------------------------
(* Game time: the orders of events and of queue entries                      *)

Entries == [event : Event, effectiveOrder : Nat, sequence : Nat]

LEMMA ByTimeIs ==
  ASSUME NEW S \in SUBSET Event, IsFiniteSet(S), \A x, y \in S : x.id = y.id => x = y
  PROVE  /\ ByTime(S) \in Seq(S) /\ Len(ByTime(S)) = Cardinality(S)
         /\ IsInjective(ByTime(S)) /\ Range(ByTime(S)) = S
<1> DEFINE R == {x \in S \X S : Before(x[1], x[2])}
           n == Cardinality(S)
           InTime(s) == \A i, j \in 1..n : i < j => Before(s[i], s[j])
<1>1. \A x, y \in S : <<x, y>> \in R <=> Before(x, y)
  OBVIOUS
<1>2. \A x \in S : x.id \in Nat /\ x.at \in Nat /\ x.order \in Nat
  BY EventTyped
<1> HIDE DEF R
<1>3. Orders(R, S)
  <2>1. \A x, y \in S : x # y => <<x, y>> \in R \/ <<y, x>> \in R
    <3> SUFFICES ASSUME NEW x \in S, NEW y \in S, x # y PROVE Before(x, y) \/ Before(y, x)
      BY <1>1
    <3>1. x.id # y.id
      OBVIOUS
    <3> QED BY <1>2, <3>1 DEF Before
  <2>2. \A x \in S : <<x, x>> \notin R
    BY <1>1, <1>2 DEF Before
  <2>3. \A x, y, z \in S : <<x, y>> \in R /\ <<y, z>> \in R => <<x, z>> \in R
    <3> SUFFICES ASSUME NEW x \in S, NEW y \in S, NEW z \in S, Before(x, y), Before(y, z) PROVE Before(x, z)
      BY <1>1
    <3> QED BY <1>2 DEF Before
  <2> QED BY <2>1, <2>2, <2>3 DEF Orders
<1>4. \A s \in [1..n -> S] : InTime(s) <=> InOrder(s, n, R)
  <2> SUFFICES ASSUME NEW s \in [1..n -> S] PROVE InTime(s) <=> InOrder(s, n, R)
    OBVIOUS
  <2>1. \A i, j \in 1..n : Before(s[i], s[j]) <=> <<s[i], s[j]>> \in R
    BY <1>1
  <2> QED BY <2>1 DEF InOrder
<1>5. ByTime(S) = CHOOSE s \in [1..n -> S] : InTime(s)
  BY DEF ByTime, Arranged
<1> HIDE DEF InTime
<1>6. \E s \in [1..n -> S] : InTime(s)
  BY <1>3, <1>4, ArrangementExists
<1>7. ByTime(S) \in [1..n -> S] /\ InTime(ByTime(S))
  BY <1>5, <1>6
<1>8. InOrder(ByTime(S), n, R)
  BY <1>4, <1>7
<1> QED BY <1>3, <1>7, <1>8, ArrangementIsAll

LEMMA ByTurnIs ==
  ASSUME NEW S \in SUBSET Entries, IsFiniteSet(S), \A x, y \in S : x.sequence = y.sequence => x = y
  PROVE  /\ ByTurn(S) \in Seq(S) /\ Len(ByTurn(S)) = Cardinality(S)
         /\ IsInjective(ByTurn(S)) /\ Range(ByTurn(S)) = S
<1> DEFINE R == {x \in S \X S : EntryBefore(x[1], x[2])}
           n == Cardinality(S)
           InTurn(s) == \A i, j \in 1..n : i < j => EntryBefore(s[i], s[j])
<1>1. \A x, y \in S : <<x, y>> \in R <=> EntryBefore(x, y)
  OBVIOUS
<1>2. \A x \in S : x.event.at \in Nat /\ x.effectiveOrder \in Nat /\ x.sequence \in Nat
  BY EventTyped DEF Entries
<1> HIDE DEF R
<1>3. Orders(R, S)
  <2>1. \A x, y \in S : x # y => <<x, y>> \in R \/ <<y, x>> \in R
    <3> SUFFICES ASSUME NEW x \in S, NEW y \in S, x # y PROVE EntryBefore(x, y) \/ EntryBefore(y, x)
      BY <1>1
    <3>1. x.sequence # y.sequence
      OBVIOUS
    <3> QED BY <1>2, <3>1 DEF EntryBefore
  <2>2. \A x \in S : <<x, x>> \notin R
    BY <1>1, <1>2 DEF EntryBefore
  <2>3. \A x, y, z \in S : <<x, y>> \in R /\ <<y, z>> \in R => <<x, z>> \in R
    <3> SUFFICES ASSUME NEW x \in S, NEW y \in S, NEW z \in S, EntryBefore(x, y), EntryBefore(y, z) PROVE EntryBefore(x, z)
      BY <1>1
    <3> QED BY <1>2 DEF EntryBefore
  <2> QED BY <2>1, <2>2, <2>3 DEF Orders
<1>4. \A s \in [1..n -> S] : InTurn(s) <=> InOrder(s, n, R)
  <2> SUFFICES ASSUME NEW s \in [1..n -> S] PROVE InTurn(s) <=> InOrder(s, n, R)
    OBVIOUS
  <2>1. \A i, j \in 1..n : EntryBefore(s[i], s[j]) <=> <<s[i], s[j]>> \in R
    BY <1>1
  <2> QED BY <2>1 DEF InOrder
<1>5. ByTurn(S) = CHOOSE s \in [1..n -> S] : InTurn(s)
  BY DEF ByTurn, Arranged
<1> HIDE DEF InTurn
<1>6. \E s \in [1..n -> S] : InTurn(s)
  BY <1>3, <1>4, ArrangementExists
<1>7. ByTurn(S) \in [1..n -> S] /\ InTurn(ByTurn(S))
  BY <1>5, <1>6
<1>8. InOrder(ByTurn(S), n, R)
  BY <1>4, <1>7
<1> QED BY <1>3, <1>7, <1>8, ArrangementIsAll

-------------------------------------------------------------------------------
(* Game time: the events of a trial and their ids                            *)

EventsOf(entries) == [i \in DOMAIN entries |-> entries[i].event]
Ids(es) == {es[i].id : i \in DOMAIN es}
IdsApart(es) == \A i, j \in DOMAIN es : es[i].id = es[j].id => i = j

LEMMA EventsOfIs ==
  ASSUME NEW q \in Seq(Entries)
  PROVE  /\ EventsOf(q) \in Seq(Event) /\ Len(EventsOf(q)) = Len(q)
         /\ DOMAIN EventsOf(q) = DOMAIN q /\ \A i \in DOMAIN q : EventsOf(q)[i] = q[i].event
<1>1. PICK len \in Nat : len = Len(q) /\ DOMAIN q = 1..len
  OBVIOUS
<1>2. \A i \in 1..len : q[i].event \in Event
  <2> TAKE i \in 1..len
  <2>1. q[i] \in Entries
    BY <1>1, ElementOfSeq
  <2> QED BY <2>1 DEF Entries
<1>3. EventsOf(q) \in [1..len -> Event]
  BY <1>1, <1>2 DEF EventsOf
<1>4. EventsOf(q) \in Seq(Event) /\ Len(EventsOf(q)) = len
  <2> DEFINE es == EventsOf(q)
  <2>1. es \in [1..len -> Event]
    BY <1>3
  <2> HIDE DEF es
  <2>2. es \in Seq(Event)
    BY <2>1, IsASeq
  <2>3. Len(es) = len
    BY <2>1, <2>2
  <2> QED BY <2>2, <2>3 DEF es
<1> QED BY <1>1, <1>4 DEF EventsOf

LEMMA JoinedIds ==
  ASSUME NEW a \in Seq(Event), NEW b \in Seq(Event)
  PROVE  /\ Joined(a, b) \in Seq(Event) /\ Len(Joined(a, b)) = Len(a) + Len(b)
         /\ Ids(Joined(a, b)) = Ids(a) \cup Ids(b)
         /\ IdsApart(Joined(a, b)) <=> IdsApart(a) /\ IdsApart(b) /\ Ids(a) \cap Ids(b) = {}
<1> DEFINE c == Joined(a, b)
<1>1. PICK m \in Nat, n \in Nat : m = Len(a) /\ n = Len(b) /\ DOMAIN a = 1..m /\ DOMAIN b = 1..n
  OBVIOUS
<1>2. /\ c \in Seq(Event) /\ Len(c) = m + n /\ DOMAIN c = 1..(m + n)
      /\ \A i \in 1..(m + n) : c[i] = IF i <= m THEN a[i] ELSE b[i - m]
  <2>1. c \in Seq(Event) /\ Len(c) = m + n
    BY <1>1, ConcatProperties DEF Joined
  <2>2. \A i \in 1..(m + n) : c[i] = IF i <= m THEN a[i] ELSE b[i - m]
    BY <1>1, ConcatProperties DEF Joined
  <2> HIDE DEF c
  <2> QED BY <2>1, <2>2
<1> HIDE DEF c
<1>3. \A i \in 1..m : i \in 1..(m + n) /\ c[i] = a[i]
  BY <1>2
<1>4. \A j \in 1..n : m + j \in 1..(m + n) /\ c[m + j] = b[j]
  <2> TAKE j \in 1..n
  <2>1. m + j \in 1..(m + n) /\ ~ (m + j <= m) /\ (m + j) - m = j
    OBVIOUS
  <2> QED BY <1>2, <2>1
<1>5. \A i \in 1..(m + n) : i \in 1..m \/ \E j \in 1..n : i = m + j
  <2> SUFFICES ASSUME NEW i \in 1..(m + n), i \notin 1..m PROVE \E j \in 1..n : i = m + j
    OBVIOUS
  <2>1. i - m \in 1..n /\ i = m + (i - m)
    OBVIOUS
  <2> QED BY <2>1
<1>6. Ids(c) = Ids(a) \cup Ids(b)
  <2>1. ASSUME NEW k \in 1..(m + n) PROVE c[k].id \in Ids(a) \cup Ids(b)
    <3>1. CASE k \in 1..m
      BY <1>1, <1>3, <3>1 DEF Ids
    <3>2. ASSUME NEW j \in 1..n, k = m + j PROVE c[k].id \in Ids(b)
      BY <1>1, <1>4, <3>2 DEF Ids
    <3> QED BY <1>5, <3>1, <3>2
  <2>2. Ids(a) \subseteq Ids(c)
    BY <1>1, <1>2, <1>3 DEF Ids
  <2>3. ASSUME NEW j \in 1..n PROVE b[j].id \in Ids(c)
    <3>1. m + j \in 1..(m + n) /\ c[m + j] = b[j]
      BY <1>4
    <3> QED BY <1>2, <3>1 DEF Ids
  <2>4. Ids(c) = {c[k].id : k \in 1..(m + n)} /\ Ids(b) = {b[j].id : j \in 1..n}
    BY <1>1, <1>2 DEF Ids
  <2> QED BY <2>1, <2>2, <2>3, <2>4
<1>7. ASSUME IdsApart(c) PROVE IdsApart(a) /\ IdsApart(b) /\ Ids(a) \cap Ids(b) = {}
  <2>1. IdsApart(a)
    BY <1>1, <1>2, <1>3, <1>7 DEF IdsApart
  <2>2. IdsApart(b)
    <3> SUFFICES ASSUME NEW i \in 1..n, NEW j \in 1..n, b[i].id = b[j].id PROVE i = j
      BY <1>1 DEF IdsApart
    <3>1. /\ m + i \in DOMAIN c /\ c[m + i].id = b[i].id
          /\ m + j \in DOMAIN c /\ c[m + j].id = b[j].id
      BY <1>2, <1>4
    <3>2. m + i = m + j
      BY <1>7, <3>1 DEF IdsApart
    <3> QED BY <3>2
  <2>3. ASSUME NEW i \in 1..m, NEW j \in 1..n PROVE a[i].id # b[j].id
    <3>1. i # m + j
      OBVIOUS
    <3> QED BY <1>2, <1>3, <1>4, <1>7, <3>1 DEF IdsApart
  <2> QED BY <1>1, <2>1, <2>2, <2>3 DEF Ids
<1>8. ASSUME IdsApart(a), IdsApart(b), Ids(a) \cap Ids(b) = {} PROVE IdsApart(c)
  <2> SUFFICES ASSUME NEW i \in 1..(m + n), NEW j \in 1..(m + n), c[i].id = c[j].id PROVE i = j
    BY <1>2 DEF IdsApart
  <2>1. \A k \in 1..m, l \in 1..n : a[k].id # b[l].id
    BY <1>1, <1>8 DEF Ids
  <2>2. CASE i \in 1..m /\ j \in 1..m
    BY <1>1, <1>3, <1>8, <2>2 DEF IdsApart
  <2>3. ASSUME NEW k \in 1..n, NEW l \in 1..n, i = m + k, j = m + l PROVE i = j
    <3>1. b[k].id = b[l].id
      BY <1>4, <2>3
    <3>2. k = l
      BY <1>1, <1>8, <3>1 DEF IdsApart
    <3> QED BY <2>3, <3>2
  <2>4. ASSUME NEW k \in 1..m, NEW l \in 1..n PROVE c[k].id # c[m + l].id
    BY <1>3, <1>4, <2>1
  <2> QED BY <1>5, <2>2, <2>3, <2>4
<1> QED BY <1>1, <1>2, <1>6, <1>7, <1>8 DEF c

LEMMA HeadThenTail ==
  ASSUME NEW T, NEW q \in Seq(T), q # <<>>
  PROVE  q = <<Head(q)>> \o Tail(q)
OBVIOUS

\* An event that moves from the one list to the other stays where it is among all.
LEMMA JoinedMoves ==
  ASSUME NEW p \in Seq(Event), NEW q \in Seq(Event), q # <<>>
  PROVE  Joined(Append(p, Head(q)), Tail(q)) = Joined(p, q)
<1> PICK e \in Event, r \in Seq(Event) : e = Head(q) /\ r = Tail(q)
  BY HeadTailProperties
<1>1. q = <<e>> \o r
  BY HeadThenTail
<1>2. Append(p, e) = p \o <<e>> /\ <<e>> \in Seq(Event)
  BY AppendIsConcat
<1>3. (p \o <<e>>) \o r = p \o (<<e>> \o r)
  BY <1>2, ConcatAssociative
<1> QED BY <1>1, <1>2, <1>3 DEF Joined

LEMMA EventsOfMoves ==
  ASSUME NEW p \in Seq(Entries), NEW q \in Seq(Entries), q # <<>>
  PROVE  /\ Head(q) \in Entries /\ Head(q).event \in Event
         /\ Tail(q) \in Seq(Entries) /\ Append(p, Head(q)) \in Seq(Entries)
         /\ EventsOf(q) # <<>> /\ Head(EventsOf(q)) = Head(q).event
         /\ EventsOf(Tail(q)) = Tail(EventsOf(q))
         /\ EventsOf(Append(p, Head(q))) = Append(EventsOf(p), Head(q).event)
<1>1. PICK x \in Entries, r \in Seq(Entries) : x = Head(q) /\ r = Tail(q)
  BY HeadTailProperties
<1>2. x.event \in Event
  BY DEF Entries
<1>3. PICK n \in Nat : n = Len(r) /\ Len(q) = n + 1 /\ DOMAIN r = 1..n /\ DOMAIN q = 1..(n + 1)
  <2>1. Len(r) = Len(q) - 1 /\ Len(q) \in Nat /\ Len(r) \in Nat
    BY <1>1, HeadTailProperties
  <2> QED BY <2>1
<1>4. q[1] = x /\ \A i \in 1..n : r[i] = q[i + 1]
  BY <1>1, <1>3, HeadTailProperties
<1>5. PICK u \in Seq(Event) : u = EventsOf(q) /\ Len(u) = n + 1 /\ \A i \in 1..(n + 1) : u[i] = q[i].event
  BY <1>3, EventsOfIs
<1>6. PICK v \in Seq(Event) : v = EventsOf(r) /\ Len(v) = n /\ \A i \in 1..n : v[i] = r[i].event
  BY <1>3, EventsOfIs
<1>7. u # <<>> /\ Head(u) = x.event
  <2>1. u # <<>>
    BY <1>5
  <2>2. Head(u) = u[1] /\ 1 \in 1..(n + 1)
    BY <2>1
  <2> QED BY <1>4, <1>5, <2>1, <2>2
<1>8. v = Tail(u)
  <2>1. PICK y \in Seq(Event) : y = Tail(u)
    BY <1>7, HeadTailProperties
  <2>2. Len(y) = n /\ \A i \in 1..n : y[i] = u[i + 1]
    BY <1>5, <1>7, <2>1, HeadTailProperties
  <2>3. \A i \in 1..n : y[i] = v[i]
    <3> TAKE i \in 1..n
    <3>1. i + 1 \in 1..(n + 1)
      OBVIOUS
    <3> QED BY <1>4, <1>5, <1>6, <2>2, <3>1
  <2>4. y = v
    BY <1>6, <2>2, <2>3, SeqEqual
  <2> QED BY <2>1, <2>4
<1>9. EventsOf(Append(p, x)) = Append(EventsOf(p), x.event)
  <2>1. PICK m \in Nat : m = Len(p) /\ DOMAIN p = 1..m
    OBVIOUS
  <2>2. PICK a \in Seq(Entries) : a = Append(p, x)
    BY AppendProperties
  <2>3. Len(a) = m + 1 /\ DOMAIN a = 1..(m + 1) /\ a[m + 1] = x /\ \A i \in 1..m : a[i] = p[i]
    <3>1. Len(a) = m + 1 /\ a[m + 1] = x /\ \A i \in 1..m : a[i] = p[i]
      BY <2>1, <2>2, AppendProperties
    <3> QED BY <3>1
  <2>4. PICK w \in Seq(Event) : w = EventsOf(p) /\ Len(w) = m /\ \A i \in 1..m : w[i] = p[i].event
    BY <2>1, EventsOfIs
  <2>5. PICK b \in Seq(Event) : b = Append(w, x.event)
    BY <1>2, AppendProperties
  <2>6. Len(b) = m + 1 /\ b[m + 1] = x.event /\ \A i \in 1..m : b[i] = w[i]
    BY <1>2, <2>4, <2>5, AppendProperties
  <2>7. PICK c \in Seq(Event) : c = EventsOf(a) /\ Len(c) = m + 1 /\ \A i \in 1..(m + 1) : c[i] = a[i].event
    BY <2>2, <2>3, EventsOfIs
  <2>8. \A i \in 1..(m + 1) : c[i] = b[i]
    <3> TAKE i \in 1..(m + 1)
    <3>1. CASE i \in 1..m
      <4>1. c[i] = a[i].event /\ a[i] = p[i]
        BY <2>3, <2>7, <3>1
      <4>2. b[i] = w[i] /\ w[i] = p[i].event
        BY <2>4, <2>6, <3>1
      <4> QED BY <4>1, <4>2
    <3>2. CASE i = m + 1
      BY <2>3, <2>6, <2>7, <3>2
    <3> QED BY <3>1, <3>2
  <2>9. c = b
    BY <2>5, <2>6, <2>7, <2>8, SeqEqual
  <2> QED BY <2>2, <2>4, <2>5, <2>7, <2>9
<1>10. Append(p, x) \in Seq(Entries)
  OBVIOUS
<1> QED BY <1>1, <1>2, <1>5, <1>6, <1>7, <1>8, <1>9, <1>10

-------------------------------------------------------------------------------
(* Game time: what a plan makes of the events it is given                    *)

\* Events sorted by time have the ids they had, each once.
LEMMA TimedIs ==
  ASSUME NEW S \in SUBSET Event, IsFiniteSet(S), \A x, y \in S : x.id = y.id => x = y
  PROVE  /\ ByTime(S) \in Seq(Event) /\ Len(ByTime(S)) = Cardinality(S)
         /\ IdsApart(ByTime(S)) /\ Ids(ByTime(S)) = {e.id : e \in S}
         /\ \A i \in DOMAIN ByTime(S) : ByTime(S)[i] \in S
<1>1. PICK s \in Seq(S) : s = ByTime(S)
  BY ByTimeIs
<1>2. Len(s) = Cardinality(S) /\ IsInjective(s) /\ Range(s) = S
  BY <1>1, ByTimeIs
<1>3. \A i \in DOMAIN s : s[i] \in S
  BY <1>2 DEF Range
<1>4. IdsApart(s)
  <2> SUFFICES ASSUME NEW i \in DOMAIN s, NEW j \in DOMAIN s, s[i].id = s[j].id PROVE i = j
    BY DEF IdsApart
  <2>1. s[i] = s[j]
    BY <1>3
  <2> QED BY <1>2, <2>1 DEF IsInjective
<1>5. Ids(s) = {e.id : e \in S}
  BY <1>2 DEF Ids, Range
<1>6. s \in Seq(Event)
  BY <1>3, SeqOver
<1> QED BY <1>1, <1>2, <1>3, <1>4, <1>5, <1>6

LEMMA RangeCounts ==
  ASSUME NEW es \in Seq(Event), IdsApart(es)
  PROVE  IsFiniteSet(Range(es)) /\ Cardinality(Range(es)) = Len(es)
<1> DEFINE All == Range(es)
<1>1. PICK n \in Nat : n = Len(es) /\ DOMAIN es = 1..n
  OBVIOUS
<1>2. es \in [1..n -> All] /\ \A y \in All : \E x \in 1..n : es[x] = y
  BY <1>1 DEF Range
<1>3. \A i, j \in 1..n : es[i] = es[j] => i = j
  BY <1>1 DEF IdsApart
<1>4. IsFiniteSet(1..n) /\ Cardinality(1..n) = n
  BY FS_Interval
<1>5. ExistsBijection(1..n, All)
  <2> HIDE DEF All
  <2>1. es \in Injection(1..n, All)
    BY <1>2, <1>3 DEF Injection, IsInjective
  <2>2. es \in Surjection(1..n, All)
    BY <1>2 DEF Surjection
  <2> QED BY <2>1, <2>2 DEF Bijection, ExistsBijection
<1> HIDE DEF All
<1>6. IsFiniteSet(All) /\ Cardinality(All) = n
  BY <1>4, <1>5, FS_Bijection
<1> QED BY <1>1, <1>6 DEF All

LEMMA PlanIs ==
  ASSUME NEW es \in Seq(Event), IdsApart(es), NEW end \in Nat
  PROVE  /\ DueEvents(es, end) \in Seq(Event) /\ PendingEvents(es, end) \in Seq(Event)
         /\ IdsApart(DueEvents(es, end)) /\ IdsApart(PendingEvents(es, end))
         /\ Ids(DueEvents(es, end)) \cap Ids(PendingEvents(es, end)) = {}
         /\ Ids(DueEvents(es, end)) \cup Ids(PendingEvents(es, end)) = Ids(es)
         /\ Len(DueEvents(es, end)) + Len(PendingEvents(es, end)) = Len(es)
         /\ \A i \in DOMAIN PendingEvents(es, end) : PendingEvents(es, end)[i].at > end
<1> DEFINE All == Range(es)
           D == {e \in All : IsDue(e, end)}
           P == {e \in All : ~ IsDue(e, end)}
<1>1. PICK n \in Nat : n = Len(es) /\ DOMAIN es = 1..n
  OBVIOUS
<1>2. All \in SUBSET Event /\ \A x \in All : \E i \in 1..n : x = es[i]
  BY <1>1 DEF Range
<1>3. \A x, y \in All : x.id = y.id => x = y
  BY <1>1, <1>2 DEF IdsApart
<1>4. IsFiniteSet(All) /\ Cardinality(All) = n
  BY <1>1, RangeCounts
<1>5. D \cup P = All /\ D \cap P = {} /\ D \in SUBSET All /\ P \in SUBSET All
  OBVIOUS
<1>6. \A e \in P : e.at > end
  BY <1>2, EventTyped DEF IsDue
<1>7. ByTime(D) = DueEvents(es, end) /\ ByTime(P) = PendingEvents(es, end)
  BY DEF DueEvents, PendingEvents
<1> HIDE DEF All, D, P
<1>8. IsFiniteSet(D) /\ IsFiniteSet(P) /\ Cardinality(D) + Cardinality(P) = n
  <2>1. IsFiniteSet(D) /\ IsFiniteSet(P)
    BY <1>4, <1>5, FS_Subset
  <2>2. Cardinality(D \cup P) = Cardinality(D) + Cardinality(P)
    <3>1. Cardinality(D \cup P) = Cardinality(D) + Cardinality(P) - Cardinality(D \cap P)
      BY <2>1, FS_Union
    <3>2. Cardinality(D \cap P) = 0
      BY <1>5, FS_EmptySet
    <3>3. Cardinality(D) \in Nat /\ Cardinality(P) \in Nat
      BY <2>1, FS_CardinalityType
    <3> QED BY <3>1, <3>2, <3>3
  <2> QED BY <1>4, <1>5, <2>1, <2>2
<1>9. PICK d \in Seq(Event) : /\ d = ByTime(D) /\ Len(d) = Cardinality(D) /\ IdsApart(d)
                              /\ Ids(d) = {e.id : e \in D}
  BY <1>2, <1>3, <1>5, <1>8, TimedIs
<1>10. PICK p \in Seq(Event) : /\ p = ByTime(P) /\ Len(p) = Cardinality(P) /\ IdsApart(p)
                               /\ Ids(p) = {e.id : e \in P} /\ \A i \in DOMAIN p : p[i] \in P
  BY <1>2, <1>3, <1>5, <1>8, TimedIs
<1>11. Ids(es) = {e.id : e \in All}
  BY DEF Ids, Range, All
<1>12. Ids(d) \cup Ids(p) = Ids(es)
  BY <1>5, <1>9, <1>10, <1>11
<1>13. Ids(d) \cap Ids(p) = {}
  <2>1. ASSUME NEW x \in D, NEW y \in P, x.id = y.id PROVE FALSE
    BY <1>3, <1>5, <2>1
  <2> QED BY <1>9, <1>10, <2>1
<1>14. Len(d) + Len(p) = n
  BY <1>8, <1>9, <1>10
<1>15. \A i \in DOMAIN p : p[i].at > end
  BY <1>6, <1>10
<1> QED BY <1>1, <1>7, <1>9, <1>10, <1>12, <1>13, <1>14, <1>15

\* One more pending event.
TimedWith(es, e) == ByTime(Range(es) \cup {e})

LEMMA PendingGrows ==
  ASSUME NEW es \in Seq(Event), IdsApart(es), NEW e \in Event, e.id \notin Ids(es),
         NEW r, r = TimedWith(es, e)
  PROVE  /\ r \in Seq(Event) /\ Len(r) = Len(es) + 1
         /\ IdsApart(r) /\ Ids(r) = Ids(es) \cup {e.id}
         /\ \A i \in DOMAIN r : r[i] = e \/ \E j \in DOMAIN es : r[i] = es[j]
<1> DEFINE All == Range(es)
           S == All \cup {e}
<1>1. PICK n \in Nat : n = Len(es) /\ DOMAIN es = 1..n
  OBVIOUS
<1>2. All \in SUBSET Event /\ \A x \in All : \E i \in 1..n : x = es[i]
  BY <1>1 DEF Range
<1>3. \A x, y \in All : x.id = y.id => x = y
  BY <1>1, <1>2 DEF IdsApart
<1>4. \A x \in All : x.id # e.id
  BY <1>1, <1>2 DEF Ids
<1>5. IsFiniteSet(All) /\ Cardinality(All) = n
  BY <1>1, RangeCounts
<1> HIDE DEF All
<1>6. S \in SUBSET Event /\ \A x, y \in S : x.id = y.id => x = y
  BY <1>2, <1>3, <1>4
<1>7. IsFiniteSet(S) /\ Cardinality(S) = n + 1
  <2>1. e \notin All
    BY <1>4
  <2> QED BY <1>5, <2>1, FS_AddElement
<1>8. Ids(es) = {x.id : x \in All}
  BY DEF Ids, Range, All
<1> HIDE DEF S
<1>9. PICK s \in Seq(Event) : s = ByTime(S)
  BY <1>6, <1>7, TimedIs
<1>10. /\ Len(s) = n + 1 /\ IdsApart(s) /\ Ids(s) = {x.id : x \in S}
       /\ \A i \in DOMAIN s : s[i] \in S
  BY <1>6, <1>7, <1>9, TimedIs
<1>11. Ids(s) = Ids(es) \cup {e.id}
  BY <1>8, <1>10 DEF S
<1>12. \A i \in DOMAIN s : s[i] = e \/ \E j \in DOMAIN es : s[i] = es[j]
  BY <1>1, <1>2, <1>10 DEF S
<1>13. s = TimedWith(es, e)
  BY <1>9 DEF S, All, TimedWith
<1> QED BY <1>1, <1>9, <1>10, <1>11, <1>12, <1>13

-------------------------------------------------------------------------------
(* Game time: the queue of a trial                                           *)

\* Entries wait under numbers of their own, all of them given out.
GoodQueue(q, next) ==
  /\ q \in Seq(Entries) /\ next \in Nat
  /\ \A i, j \in DOMAIN q : q[i].sequence = q[j].sequence => i = j
  /\ \A i \in DOMAIN q : q[i].sequence < next

LEMMA QueueStarts ==
  ASSUME NEW due \in Seq(Event)
  PROVE  LET q == [i \in DOMAIN due |-> QueueEntry(due[i], due[i].order, i - 1)] IN
         GoodQueue(q, Len(due)) /\ EventsOf(q) = due
<1> DEFINE q == [i \in DOMAIN due |-> QueueEntry(due[i], due[i].order, i - 1)]
<1>1. PICK n \in Nat : n = Len(due) /\ DOMAIN due = 1..n
  OBVIOUS
<1>2. \A i \in 1..n : due[i] \in Event /\ due[i].order \in Nat
  BY <1>1, EventTyped
<1>3. \A i \in 1..n : i - 1 \in Nat /\ i - 1 < n
  OBVIOUS
<1>4. \A i \in 1..n : QueueEntry(due[i], due[i].order, i - 1) \in Entries
  BY <1>2, <1>3 DEF QueueEntry, Entries
<1>5. DOMAIN q = 1..n /\ \A i \in 1..n : q[i].event = due[i] /\ q[i].sequence = i - 1
  BY <1>1 DEF QueueEntry
<1>6. q \in [1..n -> Entries]
  BY <1>1, <1>4
<1> HIDE DEF q
<1>7. q \in Seq(Entries)
  BY <1>6, IsASeq
<1>8. GoodQueue(q, n)
  <2>1. \A i, j \in 1..n : i - 1 = j - 1 => i = j
    OBVIOUS
  <2> QED BY <1>3, <1>5, <1>7, <2>1 DEF GoodQueue
<1>9. EventsOf(q) = due
  <2>1. PICK u \in Seq(Event) : u = EventsOf(q) /\ Len(u) = n /\ \A i \in 1..n : u[i] = q[i].event
    <3>1. Len(q) = n
      BY <1>5, <1>7
    <3> QED BY <1>5, <1>7, <3>1, EventsOfIs
  <2>2. u = due
    BY <1>1, <1>5, <2>1, SeqEqual
  <2> QED BY <2>1, <2>2
<1> QED BY <1>1, <1>8, <1>9 DEF q

LEMMA QueueTail ==
  ASSUME NEW q, NEW next, GoodQueue(q, next), q # <<>>
  PROVE  GoodQueue(Tail(q), next)
<1>1. q \in Seq(Entries) /\ next \in Nat
  BY DEF GoodQueue
<1>2. PICK r \in Seq(Entries) : r = Tail(q)
  BY <1>1, HeadTailProperties
<1>3. PICK n \in Nat : n = Len(r) /\ DOMAIN r = 1..n /\ DOMAIN q = 1..(n + 1)
  <2>1. Len(r) = Len(q) - 1 /\ Len(q) \in Nat /\ Len(r) \in Nat
    BY <1>1, <1>2, HeadTailProperties
  <2> QED BY <1>1, <2>1
<1>4. \A i \in 1..n : r[i] = q[i + 1]
  BY <1>1, <1>2, <1>3, HeadTailProperties
<1>5. \A i \in 1..n : i + 1 \in DOMAIN q
  BY <1>3
<1>6. \A i, j \in 1..n : r[i].sequence = r[j].sequence => i = j
  <2> SUFFICES ASSUME NEW i \in 1..n, NEW j \in 1..n, r[i].sequence = r[j].sequence PROVE i = j
    OBVIOUS
  <2>1. i + 1 = j + 1
    BY <1>4, <1>5 DEF GoodQueue
  <2> QED BY <2>1
<1>7. \A i \in 1..n : r[i].sequence < next
  BY <1>4, <1>5 DEF GoodQueue
<1> QED BY <1>1, <1>2, <1>3, <1>6, <1>7 DEF GoodQueue

\* One more queued event, under the next number.
QueuedWith(q, entry) == ByTurn(Range(q) \cup {entry})

LEMMA QueueGrows ==
  ASSUME NEW q, NEW next, GoodQueue(q, next), IdsApart(EventsOf(q)),
         NEW entry \in Entries, entry.sequence = next, entry.event.id \notin Ids(EventsOf(q)),
         NEW new, new = QueuedWith(q, entry)
  PROVE  /\ GoodQueue(new, next + 1) /\ Len(new) = Len(q) + 1
         /\ IdsApart(EventsOf(new)) /\ Ids(EventsOf(new)) = Ids(EventsOf(q)) \cup {entry.event.id}
<1> DEFINE All == Range(q)
           S == All \cup {entry}
<1>1. q \in Seq(Entries) /\ next \in Nat
  BY DEF GoodQueue
<1>2. PICK n \in Nat : n = Len(q) /\ DOMAIN q = 1..n
  BY <1>1
<1>3. /\ \A i, j \in 1..n : q[i].sequence = q[j].sequence => i = j
      /\ \A i \in 1..n : q[i].sequence < next /\ q[i].sequence # next
  <2>1. \A i \in 1..n : q[i].sequence \in Nat /\ q[i].sequence < next
    <3> TAKE i \in 1..n
    <3>1. q[i] \in Entries
      BY <1>1, <1>2, ElementOfSeq
    <3> QED BY <1>2, <3>1 DEF GoodQueue, Entries
  <2> QED BY <1>1, <1>2, <2>1 DEF GoodQueue
<1>4. All \in SUBSET Entries /\ \A x \in All : \E i \in 1..n : x = q[i]
  BY <1>1, <1>2 DEF Range
<1>5. IsFiniteSet(All) /\ Cardinality(All) = n
  <2>1. q \in [1..n -> All] /\ \A y \in All : \E x \in 1..n : q[x] = y
    BY <1>1, <1>2 DEF Range
  <2>2. \A i, j \in 1..n : q[i] = q[j] => i = j
    BY <1>3
  <2>3. IsFiniteSet(1..n) /\ Cardinality(1..n) = n
    BY FS_Interval
  <2> HIDE DEF All
  <2>4. q \in Injection(1..n, All)
    BY <2>1, <2>2 DEF Injection, IsInjective
  <2>5. q \in Surjection(1..n, All)
    BY <2>1 DEF Surjection
  <2>6. ExistsBijection(1..n, All)
    BY <2>4, <2>5 DEF Bijection, ExistsBijection
  <2> QED BY <2>3, <2>6, FS_Bijection
<1>6. \A x, y \in All : x.sequence = y.sequence \/ x.event.id = y.event.id => x = y
  <2> SUFFICES ASSUME NEW i \in 1..n, NEW j \in 1..n,
                      q[i].sequence = q[j].sequence \/ q[i].event.id = q[j].event.id
               PROVE  q[i] = q[j]
    BY <1>4
  <2>1. EventsOf(q)[i] = q[i].event /\ EventsOf(q)[j] = q[j].event /\ DOMAIN EventsOf(q) = 1..n
    BY <1>1, <1>2, EventsOfIs
  <2>2. q[i].event.id = q[j].event.id => i = j
    BY <2>1 DEF IdsApart
  <2> QED BY <1>3, <2>2
<1>7. Ids(EventsOf(q)) = {x.event.id : x \in All}
  <2>1. DOMAIN EventsOf(q) = 1..n /\ \A i \in 1..n : EventsOf(q)[i] = q[i].event
    BY <1>1, <1>2, EventsOfIs
  <2>2. Ids(EventsOf(q)) = {q[i].event.id : i \in 1..n}
    BY <2>1 DEF Ids
  <2> QED BY <1>2, <2>2 DEF Range
<1>8. \A x \in All : x.sequence < next /\ x.sequence # next /\ x.event.id # entry.event.id
  <2>1. \A x \in All : x.event.id # entry.event.id
    BY <1>7
  <2>2. \A x \in All : x.sequence < next /\ x.sequence # next
    BY <1>3, <1>4
  <2> QED BY <2>1, <2>2
<1> HIDE DEF All
<1>9. S \in SUBSET Entries /\ \A x, y \in S : x.sequence = y.sequence \/ x.event.id = y.event.id => x = y
  BY <1>4, <1>6, <1>8
<1>10. IsFiniteSet(S) /\ Cardinality(S) = n + 1
  <2>1. entry \notin All
    BY <1>8
  <2> QED BY <1>5, <2>1, FS_AddElement
<1>11. \A x \in S : x.sequence < next + 1
  <2>1. ASSUME NEW x \in All PROVE x.sequence < next + 1
    <3>1. x.sequence < next /\ x.sequence \in Nat
      BY <1>4, <1>8 DEF Entries
    <3> QED BY <1>1, <3>1
  <2>2. entry.sequence < next + 1
    BY <1>1
  <2> QED BY <2>1, <2>2
<1>12. {x.event.id : x \in S} = Ids(EventsOf(q)) \cup {entry.event.id}
  BY <1>7
<1> HIDE DEF S
<1>13. PICK r \in Seq(S) : r = new /\ Len(r) = n + 1 /\ IsInjective(r) /\ Range(r) = S
  <2>1. new = ByTurn(S)
    BY DEF S, All, QueuedWith
  <2> QED BY <1>9, <1>10, <2>1, ByTurnIs
<1>14. \A i \in DOMAIN r : r[i] \in S
  BY <1>13 DEF Range
<1>15. r \in Seq(Entries)
  BY <1>9, <1>13, SeqOver
<1>16. \A i, j \in DOMAIN r : r[i].sequence = r[j].sequence \/ r[i].event.id = r[j].event.id => i = j
  <2> SUFFICES ASSUME NEW i \in DOMAIN r, NEW j \in DOMAIN r,
                      r[i].sequence = r[j].sequence \/ r[i].event.id = r[j].event.id
               PROVE  i = j
    OBVIOUS
  <2>1. r[i] = r[j]
    BY <1>9, <1>14
  <2> QED BY <1>13, <2>1 DEF IsInjective
<1>17. GoodQueue(r, next + 1)
  BY <1>1, <1>11, <1>14, <1>15, <1>16 DEF GoodQueue
<1>18. DOMAIN EventsOf(r) = DOMAIN r /\ \A i \in DOMAIN r : EventsOf(r)[i] = r[i].event
  BY <1>15, EventsOfIs
<1>19. IdsApart(EventsOf(r))
  BY <1>16, <1>18 DEF IdsApart
<1>20. Ids(EventsOf(r)) = {x.event.id : x \in S}
  <2>1. Ids(EventsOf(r)) = {r[i].event.id : i \in DOMAIN r}
    BY <1>18 DEF Ids
  <2>2. \A x \in S : \E i \in DOMAIN r : x = r[i]
    BY <1>13 DEF Range
  <2> QED BY <1>14, <2>1, <2>2
<1> QED BY <1>2, <1>12, <1>13, <1>17, <1>19, <1>20 DEF S, All

-------------------------------------------------------------------------------
(* Game time: the way without handlers                                       *)

IsEnd(e) == e.kind = "core.terminal"
NoEnd(es) == \A i \in DOMAIN es : ~ IsEnd(es[i])
Plan(due, end) == [due |-> due, end |-> end]

LEMMA JoinedParts ==
  ASSUME NEW a \in Seq(Event), NEW b \in Seq(Event)
  PROVE  /\ SubSeq(Joined(a, b), 1, Len(a)) = a
         /\ SubSeq(Joined(a, b), Len(a) + 1, Len(Joined(a, b))) = b
<1> PICK c \in Seq(Event) : c = Joined(a, b)
  BY ConcatProperties DEF Joined
<1> PICK m \in Nat, n \in Nat : m = Len(a) /\ n = Len(b)
  OBVIOUS
<1>1. Len(c) = m + n /\ \A i \in 1..(m + n) : c[i] = IF i <= m THEN a[i] ELSE b[i - m]
  BY ConcatProperties DEF Joined
<1>2. PICK p \in Seq(Event) : p = SubSeq(c, 1, m)
  BY <1>1, SubSeqProperties
<1>3. Len(p) = m /\ \A i \in 1..m : p[i] = c[i]
  <2>1. Len(p) = m /\ \A i \in 1..m : p[i] = c[1 + i - 1]
    BY <1>1, <1>2, SubSeqProperties
  <2>2. \A i \in 1..m : 1 + i - 1 = i
    OBVIOUS
  <2> QED BY <2>1, <2>2
<1>4. p = a
  <2>1. \A i \in 1..m : p[i] = a[i]
    BY <1>1, <1>3
  <2> QED BY <1>3, <2>1, SeqEqual
<1>5. PICK q \in Seq(Event) : q = SubSeq(c, m + 1, m + n)
  BY <1>1, SubSeqProperties
<1>6. Len(q) = n /\ \A i \in 1..n : q[i] = c[m + i]
  <2>1. Len(q) = IF m + 1 <= m + n THEN (m + n) - (m + 1) + 1 ELSE 0
    BY <1>1, <1>5, SubSeqProperties
  <2>2. Len(q) = n
    BY <2>1
  <2>3. \A i \in 1..n : q[i] = c[(m + 1) + i - 1]
    BY <1>1, <1>5, <2>2, SubSeqProperties
  <2>4. \A i \in 1..n : (m + 1) + i - 1 = m + i
    OBVIOUS
  <2> QED BY <2>2, <2>3, <2>4
<1>7. q = b
  <2>1. ASSUME NEW i \in 1..n PROVE q[i] = b[i]
    <3>1. m + i \in 1..(m + n) /\ ~ (m + i <= m) /\ (m + i) - m = i
      OBVIOUS
    <3> QED BY <1>1, <1>6, <3>1
  <2> QED BY <1>6, <2>1, SeqEqual
<1> QED BY <1>1, <1>2, <1>4, <1>5, <1>7

LEMMA PrefixIs ==
  ASSUME NEW es \in Seq(Event), NEW k \in 0..Len(es)
  PROVE  /\ SubSeq(es, 1, k) \in Seq(Event) /\ Len(SubSeq(es, 1, k)) = k
         /\ \A i \in 1..k : SubSeq(es, 1, k)[i] = es[i]
<1> PICK n \in Nat : n = Len(es) /\ DOMAIN es = 1..n
  OBVIOUS
<1>1. \A i \in 1..k : i \in 1..n /\ es[i] \in Event
  OBVIOUS
<1>2. SubSeq(es, 1, k) \in Seq(Event)
  BY <1>1, SubSeqProperties
<1>3. Len(SubSeq(es, 1, k)) = k
  <2>1. Len(SubSeq(es, 1, k)) = IF 1 <= k THEN k - 1 + 1 ELSE 0
    BY <1>1, SubSeqProperties
  <2> QED BY <2>1
<1>4. ASSUME NEW i \in 1..k PROVE SubSeq(es, 1, k)[i] = es[i]
  <2>1. i \in 1..(k - 1 + 1) /\ 1 + i - 1 = i
    OBVIOUS
  <2>2. SubSeq(es, 1, k)[i] = es[1 + i - 1]
    BY <1>1, <2>1, SubSeqProperties
  <2> QED BY <2>1, <2>2
<1> QED BY <1>2, <1>3, <1>4

\* What the way without handlers comes to.
Yields(s, stock, terminal, clock, applied, rest) ==
  /\ s.ok = InBounds(stock) /\ s.stock = stock /\ s.terminal = terminal /\ s.clock = clock
  /\ s.applied = applied /\ s.rest = rest

LEMMA StaticWithoutEnd ==
  ASSUME NEW from, NEW due \in Seq(Event), NEW end, NoEnd(due)
  PROVE  Yields(ApplyTimeAdvancePlan(from, Plan(due, end)),
                StockAfter(from.stock, due), ~ NoEnd(due), end, due, <<>>)
<1> PICK n \in Nat : n = Len(due) /\ DOMAIN due = 1..n
  OBVIOUS
<1>1. {i \in DOMAIN due : due[i].kind = "core.terminal"} = {}
  BY DEF NoEnd, IsEnd
<1>2. SubSeq(due, 1, n) = due
  <2>1. PICK p \in Seq(Event) : p = SubSeq(due, 1, n)
    BY SubSeqProperties
  <2>2. Len(p) = n /\ \A i \in 1..n : p[i] = due[1 + i - 1]
    BY <2>1, SubSeqProperties
  <2>3. \A i \in 1..n : 1 + i - 1 = i
    OBVIOUS
  <2> QED BY <2>1, <2>2, <2>3, SeqEqual
<1>3. SubSeq(due, n + 1, n) = <<>>
  BY SubSeqProperties
<1> DEFINE static == ApplyTimeAdvancePlan(from, Plan(due, end))
<1>4. static = [ok |-> InBounds(StockAfter(from.stock, SubSeq(due, 1, Len(due)))),
                stock |-> StockAfter(from.stock, SubSeq(due, 1, Len(due))),
                terminal |-> {i \in DOMAIN due : due[i].kind = "core.terminal"} # {}, clock |-> end,
                applied |-> SubSeq(due, 1, Len(due)), rest |-> SubSeq(due, Len(due) + 1, Len(due))]
  BY <1>1, Zenon DEF ApplyTimeAdvancePlan, Plan
<1> HIDE DEF static
<1>5. /\ static.ok = InBounds(StockAfter(from.stock, SubSeq(due, 1, n)))
      /\ static.terminal = ({i \in DOMAIN due : due[i].kind = "core.terminal"} # {})
  BY Zenon, <1>4
<1>6. static.terminal = (~ NoEnd(due))
  BY Zenon, <1>1, <1>5
<1>7. /\ static.stock = StockAfter(from.stock, SubSeq(due, 1, n)) /\ static.clock = end
      /\ static.applied = SubSeq(due, 1, n) /\ static.rest = SubSeq(due, n + 1, n)
  BY Zenon, <1>4
<1> QED BY Zenon, <1>2, <1>3, <1>5, <1>6, <1>7 DEF static, Yields

LEMMA StaticToEnd ==
  ASSUME NEW from, NEW due \in Seq(Event), NEW end, NEW k \in DOMAIN due, IsEnd(due[k]),
         \A i \in DOMAIN due : IsEnd(due[i]) => k <= i
  PROVE  Yields(ApplyTimeAdvancePlan(from, Plan(due, end)),
                StockAfter(from.stock, SubSeq(due, 1, k)), TRUE, due[k].at, SubSeq(due, 1, k),
                SubSeq(due, k + 1, Len(due)))
<1> DEFINE ends == {i \in DOMAIN due : due[i].kind = "core.terminal"}
           last == CHOOSE i \in ends : \A j \in ends : i <= j
<1>1. k \in ends /\ \A i \in ends : k <= i
  BY DEF IsEnd
<1>2. ends \in SUBSET Nat
  OBVIOUS
<1> HIDE DEF ends
<1>3. last = k
  <2>1. last \in ends /\ \A j \in ends : last <= j
    BY <1>1
  <2> HIDE DEF last
  <2> QED BY <1>1, <1>2, <2>1
<1>4. ends # {}
  BY <1>1
<1> HIDE DEF last
<1> DEFINE static == ApplyTimeAdvancePlan(from, Plan(due, end))
<1>5. static = [ok |-> InBounds(StockAfter(from.stock, SubSeq(due, 1, last))),
                stock |-> StockAfter(from.stock, SubSeq(due, 1, last)),
                terminal |-> ends # {}, clock |-> due[last].at,
                applied |-> SubSeq(due, 1, last), rest |-> SubSeq(due, last + 1, Len(due))]
  BY <1>4 DEF ApplyTimeAdvancePlan, Plan, last, ends
<1> HIDE DEF static
<1>6. /\ static.ok = InBounds(StockAfter(from.stock, SubSeq(due, 1, k)))
      /\ static.terminal = (ends # {})
  BY Zenon, <1>3, <1>5
<1>7. static.terminal = TRUE
  BY Zenon, <1>4, <1>6
<1>8. /\ static.stock = StockAfter(from.stock, SubSeq(due, 1, k))
      /\ static.clock = due[k].at /\ static.applied = SubSeq(due, 1, k)
      /\ static.rest = SubSeq(due, k + 1, Len(due))
  BY <1>3, <1>5
<1> QED BY Zenon, <1>6, <1>7, <1>8 DEF static, Yields

\* An effect that is refused on the way is refused here as well.
LEMMA StaticFails ==
  ASSUME NEW from, from.stock \in Int, NEW due \in Seq(Event), NEW end, NEW k \in DOMAIN due,
         \A i \in 1..k : ~ IsEnd(due[i]), ~ InBounds(StockAfter(from.stock, SubSeq(due, 1, k)))
  PROVE  ~ ApplyTimeAdvancePlan(from, Plan(due, end)).ok
<1> PICK n \in Nat : n = Len(due) /\ DOMAIN due = 1..n
  OBVIOUS
<1>1. ASSUME NEW l \in 1..n, k <= l PROVE ~ InBounds(StockAfter(from.stock, SubSeq(due, 1, l)))
  <2>1. PICK p \in Seq(Event) : p = SubSeq(due, 1, l) /\ Len(p) = l /\ \A i \in 1..l : p[i] = due[i]
    <3>1. l \in 0..Len(due)
      OBVIOUS
    <3> QED BY <3>1, PrefixIs
  <2>3. k \in 0..Len(p) /\ k \in 0..Len(due) /\ \A i \in 1..k : i \in 1..l
    BY <1>1, <2>1
  <2>4. SubSeq(p, 1, k) = SubSeq(due, 1, k)
    <3>1. PICK a \in Seq(Event) : a = SubSeq(p, 1, k) /\ Len(a) = k /\ \A i \in 1..k : a[i] = p[i]
      BY <2>3, PrefixIs
    <3>2. PICK b \in Seq(Event) : b = SubSeq(due, 1, k) /\ Len(b) = k /\ \A i \in 1..k : b[i] = due[i]
      BY <2>3, PrefixIs
    <3>3. a = b
      BY <2>1, <2>3, <3>1, <3>2, SeqEqual
    <3> QED BY <3>1, <3>2, <3>3
  <2> QED BY <2>1, <2>3, <2>4, StockIs
<1>2. CASE NoEnd(due)
  <2>1. ~ InBounds(StockAfter(from.stock, SubSeq(due, 1, n)))
    BY <1>1
  <2>2. ~ InBounds(StockAfter(from.stock, due))
    <3>1. n \in 0..Len(due)
      OBVIOUS
    <3> QED BY <2>1, <3>1, StockIs
  <2>3. ApplyTimeAdvancePlan(from, Plan(due, end)).ok = InBounds(StockAfter(from.stock, due))
    <3>1. Yields(ApplyTimeAdvancePlan(from, Plan(due, end)),
                 StockAfter(from.stock, due), ~ NoEnd(due), end, due, <<>>)
      BY Zenon, <1>2, StaticWithoutEnd
    <3> QED BY Zenon, <3>1 DEF Yields
  <2> QED BY Zenon, <2>2, <2>3
<1>3. CASE ~ NoEnd(due)
  <2> DEFINE S == {i \in Nat : i \in 1..n /\ IsEnd(due[i])}
  <2>1. S \in SUBSET Nat /\ S # {}
    BY <1>3 DEF NoEnd
  <2>2. PICK l \in S : \A i \in S : l <= i
    <3> HIDE DEF S
    <3> QED BY <2>1, Least
  <2>3. l \in DOMAIN due /\ IsEnd(due[l]) /\ \A i \in DOMAIN due : IsEnd(due[i]) => l <= i
    BY <2>2
  <2>4. l \in 1..n /\ k <= l
    BY <2>3
  <2>5. ~ InBounds(StockAfter(from.stock, SubSeq(due, 1, l)))
    BY <1>1, <2>4
  <2>6. ApplyTimeAdvancePlan(from, Plan(due, end)).ok = InBounds(StockAfter(from.stock, SubSeq(due, 1, l)))
    <3> HIDE DEF S
    <3>1. Yields(ApplyTimeAdvancePlan(from, Plan(due, end)),
                 StockAfter(from.stock, SubSeq(due, 1, l)), TRUE, due[l].at, SubSeq(due, 1, l),
                 SubSeq(due, l + 1, Len(due)))
      BY Zenon, <2>3, StaticToEnd
    <3> QED BY Zenon, <3>1 DEF Yields
  <2> QED BY Zenon, <2>5, <2>6
<1> QED BY <1>2, <1>3

-------------------------------------------------------------------------------
(* Game time: the inductive invariant                                        *)

TrialFields == {"at", "code", "from", "end", "due", "queue", "pending", "processed",
                "seen", "total", "next", "stock", "terminal"}
Held(t) == Joined(EventsOf(t.processed), EventsOf(t.queue))

\* The events held and the events pending are all there are, each once.
Separate(held, pending, seen, total) ==
  /\ IdsApart(held) /\ IdsApart(pending) /\ Ids(held) \cap Ids(pending) = {}
  /\ seen = Ids(held) \cup Ids(pending) /\ total = Len(held) + Len(pending)

\* While no handler has put an event into the interval, the plan is what is held.
Tallied(due, held) == Len(due) <= Len(held) /\ (Len(due) = Len(held) => held = due)

GoodTrial(t) ==
  /\ t.processed \in Seq(Entries) /\ GoodQueue(t.queue, t.next)
  /\ t.pending \in Seq(Event) /\ t.due \in Seq(Event) /\ t.end \in Nat
  /\ Separate(Held(t), t.pending, t.seen, t.total) /\ Tallied(t.due, Held(t))
  /\ \A i \in DOMAIN t.pending : t.pending[i].at > t.end
  /\ t.total <= MaxEvents /\ Len(t.processed) <= MaxSteps

\* What the trial has made of the world it began with.
Working(t) ==
  /\ InBounds(t.from.stock) /\ ~ t.from.terminal
  /\ NoEnd(EventsOf(t.processed))
  /\ t.stock = StockAfter(t.from.stock, EventsOf(t.processed)) /\ InBounds(t.stock)

Result(t, w) ==
  LET ended == ~ NoEnd(EventsOf(t.processed)) IN
  /\ w = [clock |-> IF ended THEN Last(EventsOf(t.processed)).at ELSE t.end,
          revision |-> t.from.revision + 1,
          stock |-> StockAfter(t.from.stock, EventsOf(t.processed)), terminal |-> ended]
  /\ InBounds(w.stock) /\ ~ t.from.terminal

NoChildren(t) == t.total = Len(t.due) + Len(t.pending)
Static(t) == ApplyTimeAdvancePlan(t.from, Plan(t.due, t.end))

Agrees(t, w) ==
  NoChildren(t) =>
    /\ Static(t).ok
    /\ <<w.stock, w.terminal, w.clock>> = <<Static(t).stock, Static(t).terminal, Static(t).clock>>
    /\ EventsOf(t.processed) = Static(t).applied /\ EventsOf(t.queue) = Static(t).rest

RefusedToo(t) == NoChildren(t) => ~ Static(t).ok

GoodWorld(w) == w.clock \in Nat /\ InBounds(w.stock)

GoodTrying(t, w) ==
  /\ DOMAIN t = TrialFields /\ GoodWorld(w)
  /\ t.at \in {"running", "handling", "done"} => GoodTrial(t)
  /\ t.at \in {"running", "handling"} => Working(t)
  /\ t.at = "handling" => t.processed # <<>>
  /\ t.at = "done" => Result(t, w) /\ Agrees(t, w)
  /\ t.at = "failed" /\ t.code = "event_effect_failed" => RefusedToo(t)
  /\ t.at = "idle" \/ t.at = "done" \/ w = t.from

SchedulerIInv == GoodTrying(trial, world)

LEMMA BoundedIsInt == ASSUME NEW n, InBounds(n) PROVE n \in Int
BY SchedulerAssumption DEF InBounds

LEMMA SchedulerInvInit == SchedulerInit => SchedulerIInv
<1> SUFFICES ASSUME SchedulerInit PROVE SchedulerIInv
  OBVIOUS
<1>1. PICK w : w = world
  OBVIOUS
<1>2. PICK t : t = trial
  OBVIOUS
<1>3. w.clock \in Nat /\ w.stock = 1
  BY <1>1 DEF SchedulerInit
<1>4. DOMAIN t = TrialFields /\ t.at = "idle"
  BY <1>2 DEF SchedulerInit, TrialFields
<1>5. InBounds(w.stock)
  BY <1>3, SchedulerAssumption DEF InBounds
<1> QED BY <1>1, <1>2, <1>3, <1>4, <1>5 DEF SchedulerIInv, GoodTrying, GoodWorld

LEMMA BeginKeeps ==
  ASSUME SchedulerIInv, NEW duration \in Spans, NEW events \in Lists, BeginAdvance(duration, events)
  PROVE  SchedulerIInv'
<1>1. PICK w : w = world /\ w = world'
  BY DEF BeginAdvance
<1>2. PICK c, d : c = trial /\ d = trial'
  OBVIOUS
<1>3. GoodTrying(c, w)
  BY <1>1, <1>2 DEF SchedulerIInv
<1>4. GoodWorld(w)
  BY <1>3 DEF GoodTrying
<1>5. SUFFICES GoodTrying(d, w)
  BY <1>1, <1>2 DEF SchedulerIInv
<1> DEFINE end == w.clock + duration
           due == DueEvents(events, end)
           pending == PendingEvents(events, end)
           queue == [i \in DOMAIN due |-> QueueEntry(due[i], due[i].order, i - 1)]
<1>6. CASE ~ Plannable(duration, events)
  <2>1. d = [c EXCEPT !.at = "failed", !.code = "refused", !.from = w]
    BY <1>1, <1>2, <1>6 DEF BeginAdvance
  <2>2. DOMAIN d = TrialFields /\ d.at = "failed" /\ d.code = "refused" /\ d.from = w
    BY <1>3, <2>1 DEF GoodTrying, TrialFields
  <2> QED BY <1>4, <2>2 DEF GoodTrying
<1>7. CASE Plannable(duration, events)
  <2>1. /\ DOMAIN d = TrialFields /\ d.at = "running" /\ d.from = w /\ d.end = end /\ d.due = due
        /\ d.queue = queue /\ d.pending = pending /\ d.processed = <<>>
        /\ d.seen = {events[i].id : i \in DOMAIN events} /\ d.total = Len(events)
        /\ d.next = Len(due) /\ d.stock = w.stock
    BY <1>1, <1>2, <1>7 DEF BeginAdvance, TrialFields
  <2>2. /\ ~ w.terminal /\ Len(events) <= MaxEvents /\ IdsApart(events)
    BY <1>1, <1>7 DEF Plannable, IdsApart
  <2>3. events \in Seq(Event) /\ end \in Nat /\ d.seen = Ids(events)
    BY <1>4, <2>1, SchedulerAssumption DEF GoodWorld, Ids
  <2>4. PICK D \in Seq(Event), P \in Seq(Event) :
          /\ D = due /\ P = pending /\ IdsApart(D) /\ IdsApart(P) /\ Ids(D) \cap Ids(P) = {}
          /\ Ids(D) \cup Ids(P) = Ids(events) /\ Len(D) + Len(P) = Len(events)
          /\ \A i \in DOMAIN P : P[i].at > end
    BY <2>2, <2>3, PlanIs
  <2>5. GoodQueue(d.queue, d.next) /\ EventsOf(d.queue) = D
    <3>1. d.queue = [i \in DOMAIN D |-> QueueEntry(D[i], D[i].order, i - 1)] /\ d.next = Len(D)
      BY <2>1, <2>4
    <3> QED BY <3>1, QueueStarts
  <2> HIDE DEF queue, due, pending, end
  <2>6. d.processed \in Seq(Entries) /\ Len(d.processed) = 0 /\ EventsOf(d.processed) = <<>>
    BY <2>1 DEF EventsOf
  <2>7. Held(d) = D
    BY <2>4, <2>5, <2>6, ConcatEmptySeq DEF Held, Joined
  <2>8. GoodTrial(d)
    <3>1. Separate(D, P, d.seen, d.total)
      BY <2>1, <2>3, <2>4 DEF Separate
    <3>2. Tallied(D, D)
      <4>1. Len(D) \in Nat
        OBVIOUS
      <4> QED BY <4>1 DEF Tallied
    <3>3. d.pending = P /\ d.due = D /\ d.end \in Nat /\ \A i \in DOMAIN P : P[i].at > d.end
      BY <2>1, <2>3, <2>4
    <3>4. d.total <= MaxEvents /\ Len(d.processed) <= MaxSteps
      BY <2>1, <2>2, <2>6, SchedulerAssumption
    <3> QED BY <2>4, <2>5, <2>6, <2>7, <3>1, <3>2, <3>3, <3>4 DEF GoodTrial
  <2>9. Working(d)
    <3>1. InBounds(w.stock) /\ w.stock \in Int
      BY <1>4, BoundedIsInt DEF GoodWorld
    <3>2. NoEnd(<<>>)
      BY DEF NoEnd
    <3>3. StockAfter(w.stock, <<>>) = w.stock
      <4>1. <<>> \in Seq(Event)
        OBVIOUS
      <4> QED BY <3>1, <4>1, StockIs
    <3> QED BY <2>1, <2>2, <2>6, <3>1, <3>2, <3>3 DEF Working
  <2> QED BY <1>4, <2>1, <2>8, <2>9 DEF GoodTrying
<1> QED BY <1>6, <1>7

LEMMA FailKeeps ==
  ASSUME SchedulerIInv, Trying, NEW code, Fail(code), code = "event_effect_failed" => RefusedToo(trial)
  PROVE  SchedulerIInv'
<1>1. PICK w : w = world /\ w = world'
  BY DEF Fail
<1>2. PICK c, d : c = trial /\ d = trial'
  OBVIOUS
<1>3. GoodTrying(c, w)
  BY <1>1, <1>2 DEF SchedulerIInv
<1>4. d = [c EXCEPT !.at = "failed", !.code = code]
  BY <1>2 DEF Fail
<1>5. /\ DOMAIN d = TrialFields /\ d.at = "failed" /\ d.code = code /\ d.from = c.from
      /\ d.due = c.due /\ d.pending = c.pending /\ d.total = c.total /\ d.end = c.end
  BY <1>3, <1>4 DEF GoodTrying, TrialFields
<1>6. c.at \in {"running", "handling"}
  BY <1>2 DEF Trying, TrialAt
<1>7. GoodWorld(w) /\ w = d.from
  BY <1>3, <1>5, <1>6 DEF GoodTrying
<1>8. RefusedToo(c) => RefusedToo(d)
  BY <1>5 DEF RefusedToo, NoChildren, Static
<1>9. GoodTrying(d, w)
  BY <1>2, <1>5, <1>7, <1>8 DEF GoodTrying
<1> QED BY <1>1, <1>2, <1>9 DEF SchedulerIInv

-------------------------------------------------------------------------------
(* Game time: an event is processed                                          *)

\* The next event of the queue is processed: nothing else of the trial matters here.
Moves(c, d) ==
  /\ d.processed = Append(c.processed, Head(c.queue)) /\ d.queue = Tail(c.queue)
  /\ d.from = c.from /\ d.end = c.end /\ d.due = c.due /\ d.pending = c.pending
  /\ d.seen = c.seen /\ d.total = c.total /\ d.next = c.next

LEMMA HeldIsPlan ==
  ASSUME NEW t, GoodTrial(t), NoChildren(t)
  PROVE  Held(t) = t.due
<1>1. Separate(Held(t), t.pending, t.seen, t.total) /\ Tallied(t.due, Held(t))
  BY DEF GoodTrial
<1>2. PICK h \in Seq(Event), n \in Seq(Event), due \in Seq(Event) :
        h = Held(t) /\ n = t.pending /\ due = t.due
  <2>1. t.processed \in Seq(Entries) /\ t.queue \in Seq(Entries)
    BY DEF GoodTrial, GoodQueue
  <2>2. Held(t) \in Seq(Event)
    BY <2>1, EventsOfIs, JoinedIds DEF Held
  <2> QED BY <2>2 DEF GoodTrial
<1>3. Len(h) + Len(n) = Len(due) + Len(n)
  BY <1>1, <1>2 DEF Separate, NoChildren
<1>4. Len(h) = Len(due)
  <2>1. PICK i \in Nat, j \in Nat, k \in Nat : i = Len(h) /\ j = Len(n) /\ k = Len(due)
    OBVIOUS
  <2>2. i + j = k + j
    BY <1>3, <2>1
  <2> QED BY <2>1, <2>2
<1> QED BY <1>1, <1>2, <1>4 DEF Tallied

LEMMA MovesHeld ==
  ASSUME NEW c, NEW d, GoodTrial(c), Working(c), c.queue # <<>>, Len(c.processed) < MaxSteps,
         Moves(c, d)
  PROVE  /\ GoodTrial(d) /\ d.processed # <<>> /\ Held(d) = Held(c)
         /\ Head(c.queue).event \in Event
         /\ EventsOf(c.processed) \in Seq(Event)
         /\ EventsOf(d.processed) = Append(EventsOf(c.processed), Head(c.queue).event)
         /\ StockAfter(c.from.stock, EventsOf(d.processed)) =
              BatchApplied(c.stock, Head(c.queue).event.deltas)
<1>1. c.processed \in Seq(Entries) /\ c.queue \in Seq(Entries) /\ GoodQueue(c.queue, c.next)
  BY DEF GoodTrial, GoodQueue
<1>2. PICK x \in Entries : x = Head(c.queue) /\ x.event \in Event
  BY <1>1, EventsOfMoves
<1>3. PICK e \in Event : e = x.event
  BY <1>2
<1>4. PICK p \in Seq(Event), q \in Seq(Event) : p = EventsOf(c.processed) /\ q = EventsOf(c.queue)
  BY <1>1, EventsOfIs
<1>5. /\ q # <<>> /\ Head(q) = e /\ EventsOf(d.queue) = Tail(q)
      /\ EventsOf(d.processed) = Append(p, e) /\ d.processed \in Seq(Entries)
  BY <1>1, <1>2, <1>3, <1>4, EventsOfMoves DEF Moves
<1>6. Held(d) = Held(c)
  BY <1>4, <1>5, JoinedMoves DEF Held
<1>7. GoodQueue(d.queue, d.next)
  BY <1>1, QueueTail DEF Moves
<1>8. Len(d.processed) = Len(c.processed) + 1 /\ Len(d.processed) <= MaxSteps /\ d.processed # <<>>
  <2>1. PICK m \in Nat, a \in Seq(Entries) : a = c.processed /\ m = Len(a)
    BY <1>1
  <2>2. PICK b \in Seq(Entries) : b = Append(a, x)
    BY AppendProperties
  <2>3. Len(b) = m + 1
    BY <2>1, <2>2, AppendProperties
  <2>4. b # <<>>
    BY <2>3
  <2>5. d.processed = b
    BY <1>2, <2>1, <2>2 DEF Moves
  <2>6. m < MaxSteps /\ MaxSteps \in Nat
    BY <2>1, SchedulerAssumption
  <2> QED BY <2>1, <2>3, <2>4, <2>5, <2>6
<1>9. GoodTrial(d)
  BY <1>5, <1>6, <1>7, <1>8 DEF GoodTrial, Moves
<1>10. StockAfter(c.from.stock, Append(p, e)) = BatchApplied(c.stock, e.deltas)
  <2>1. c.from.stock \in Int /\ c.stock = StockAfter(c.from.stock, p)
    BY <1>4, BoundedIsInt DEF Working
  <2> QED BY <2>1, StockIs
<1> QED BY <1>2, <1>3, <1>4, <1>5, <1>6, <1>8, <1>9, <1>10

LEMMA NoEndOf ==
  ASSUME NEW p \in Seq(Event), NoEnd(p), NEW e \in Event
  PROVE  /\ ~ IsEnd(e) => NoEnd(Append(p, e))
         /\ IsEnd(e) => ~ NoEnd(Append(p, e))
         /\ \A i \in DOMAIN Append(p, e) : IsEnd(Append(p, e)[i]) => i = Len(Append(p, e))
         /\ Last(Append(p, e)) = e /\ Len(Append(p, e)) = Len(p) + 1
<1> PICK n \in Nat : n = Len(p) /\ DOMAIN p = 1..n
  OBVIOUS
<1> PICK a \in Seq(Event) : a = Append(p, e)
  BY AppendProperties
<1>1. Len(a) = n + 1 /\ a[n + 1] = e /\ \A i \in 1..n : a[i] = p[i]
  BY AppendProperties
<1>2. DOMAIN a = 1..(n + 1) /\ \A i \in 1..(n + 1) : i \in 1..n \/ i = n + 1
  BY <1>1
<1>3. \A i \in 1..n : ~ IsEnd(a[i])
  BY <1>1 DEF NoEnd
<1>4. ~ IsEnd(e) => NoEnd(a)
  BY <1>1, <1>2, <1>3 DEF NoEnd
<1>5. IsEnd(e) => ~ NoEnd(a)
  <2>1. n + 1 \in 1..(n + 1)
    OBVIOUS
  <2> QED BY <1>1, <1>2, <2>1 DEF NoEnd
<1>6. \A i \in DOMAIN a : IsEnd(a[i]) => i = n + 1
  BY <1>2, <1>3
<1>7. Last(a) = e
  BY <1>1 DEF Last
<1> QED BY <1>1, <1>4, <1>5, <1>6, <1>7

LEMMA ProcessKeeps ==
  ASSUME SchedulerIInv, NEW kind, kind # "core.terminal", Shift(kind), NEW stock, Process(stock),
         stock = BatchApplied(trial.stock, Head(trial.queue).event.deltas), InBounds(stock)
  PROVE  SchedulerIInv'
<1>1. PICK w : w = world /\ w = world'
  BY DEF Process
<1>2. PICK c, d : c = trial /\ d = trial'
  OBVIOUS
<1>3. GoodTrying(c, w)
  BY <1>1, <1>2 DEF SchedulerIInv
<1>4. /\ c.at = "running" /\ c.queue # <<>> /\ Len(c.processed) < MaxSteps
      /\ Head(c.queue).event.kind = kind
  BY <1>2 DEF Shift, TrialAt
<1>5. /\ d = [c EXCEPT !.at = "handling", !.stock = stock,
                       !.queue = Tail(@), !.processed = Append(@, Head(c.queue))]
      /\ stock = BatchApplied(c.stock, Head(c.queue).event.deltas)
  BY <1>2 DEF Process
<1>6. GoodTrial(c) /\ Working(c) /\ GoodWorld(w) /\ w = c.from /\ DOMAIN c = TrialFields
  BY <1>3, <1>4 DEF GoodTrying
<1>7. DOMAIN d = TrialFields /\ d.at = "handling" /\ d.stock = stock /\ Moves(c, d)
  BY <1>5, <1>6 DEF TrialFields, Moves
<1>8. /\ GoodTrial(d) /\ d.processed # <<>> /\ Head(c.queue).event \in Event
      /\ EventsOf(c.processed) \in Seq(Event)
      /\ EventsOf(d.processed) = Append(EventsOf(c.processed), Head(c.queue).event)
      /\ StockAfter(c.from.stock, EventsOf(d.processed)) = stock
  BY <1>4, <1>5, <1>6, <1>7, MovesHeld
<1>9. NoEnd(EventsOf(d.processed))
  <2>1. NoEnd(EventsOf(c.processed)) /\ ~ IsEnd(Head(c.queue).event)
    BY <1>4, <1>6 DEF Working, IsEnd
  <2> QED BY <1>8, <2>1, NoEndOf
<1>10. Working(d) /\ w = d.from
  BY <1>6, <1>7, <1>8, <1>9 DEF Working, Moves
<1>11. GoodTrying(d, w)
  BY <1>6, <1>7, <1>8, <1>10 DEF GoodTrying
<1> QED BY <1>1, <1>2, <1>11 DEF SchedulerIInv

LEMMA MarkerKeeps == ASSUME SchedulerIInv, ProcessMarker PROVE SchedulerIInv'
<1>1. PICK c : c = trial
  OBVIOUS
<1>2. /\ c.at = "running" /\ c.queue # <<>> /\ Len(c.processed) < MaxSteps
      /\ Head(c.queue).event.kind = "core.marker"
  BY <1>1 DEF ProcessMarker, Shift, TrialAt
<1>3. GoodTrial(c) /\ Working(c)
  BY <1>1, <1>2 DEF SchedulerIInv, GoodTrying
<1>4. Head(c.queue).event \in Event
  <2>1. c.queue \in Seq(Entries)
    BY <1>3 DEF GoodTrial, GoodQueue
  <2> QED BY <1>2, <2>1, EventsOfMoves
<1>5. BatchApplied(c.stock, Head(c.queue).event.deltas) = c.stock /\ InBounds(c.stock)
  <2>1. Head(c.queue).event.deltas = <<>>
    BY <1>2, <1>4, EventTyped
  <2>2. c.stock \in Int /\ InBounds(c.stock) /\ <<>> \in Seq(Int)
    BY <1>3, BoundedIsInt DEF Working
  <2> QED BY <2>1, <2>2, BatchIs
<1> QED BY <1>1, <1>5, ProcessKeeps DEF ProcessMarker

LEMMA EffectsKeep == ASSUME SchedulerIInv, ProcessEffects PROVE SchedulerIInv'
<1> DEFINE stock == BatchApplied(trial.stock, Head(trial.queue).event.deltas)
<1>1. CASE InBounds(stock)
  <2>1. Process(stock) /\ Shift("core.effects")
    BY <1>1 DEF ProcessEffects
  <2> QED BY <1>1, <2>1, ProcessKeeps
<1>2. CASE ~ InBounds(stock)
  <2>1. Fail("event_effect_failed")
    BY <1>2 DEF ProcessEffects
  <2>2. PICK c : c = trial
    OBVIOUS
  <2>3. /\ c.at = "running" /\ c.queue # <<>> /\ Len(c.processed) < MaxSteps
        /\ Head(c.queue).event.kind = "core.effects"
    BY <2>2 DEF ProcessEffects, Shift, TrialAt
  <2>4. GoodTrial(c) /\ Working(c) /\ Trying
    BY <2>2, <2>3 DEF SchedulerIInv, GoodTrying, Trying, TrialAt
  <2>5. ~ InBounds(BatchApplied(c.stock, Head(c.queue).event.deltas))
    BY <1>2, <2>2
  <2> HIDE DEF stock
  <2> DEFINE d == [c EXCEPT !.queue = Tail(@), !.processed = Append(@, Head(c.queue))]
  <2>6. Moves(c, d)
    <3>1. DOMAIN c = TrialFields
      BY <2>2 DEF SchedulerIInv, GoodTrying
    <3> QED BY <3>1 DEF Moves, TrialFields
  <2> HIDE DEF d
  <2>7. /\ GoodTrial(d) /\ Held(d) = Held(c) /\ Head(c.queue).event \in Event
        /\ EventsOf(c.processed) \in Seq(Event)
        /\ EventsOf(d.processed) = Append(EventsOf(c.processed), Head(c.queue).event)
        /\ ~ InBounds(StockAfter(c.from.stock, EventsOf(d.processed)))
    BY <2>3, <2>4, <2>5, <2>6, MovesHeld
  <2>8. NoEnd(EventsOf(d.processed))
    <3>1. NoEnd(EventsOf(c.processed)) /\ ~ IsEnd(Head(c.queue).event)
      BY <2>3, <2>4 DEF Working, IsEnd
    <3> QED BY <2>7, <3>1, NoEndOf
  <2>9. ASSUME NoChildren(c) PROVE ~ Static(c).ok
    <3>1. PICK due \in Seq(Event), p \in Seq(Event), q \in Seq(Event) :
            due = c.due /\ p = EventsOf(d.processed) /\ q = EventsOf(d.queue)
      <4>1. d.processed \in Seq(Entries) /\ d.queue \in Seq(Entries) /\ c.due \in Seq(Event)
        BY <2>4, <2>7 DEF GoodTrial, GoodQueue
      <4> QED BY <4>1, EventsOfIs
    <3>2. due = Joined(p, q)
      BY <2>4, <2>7, <2>9, <3>1, HeldIsPlan DEF Held
    <3>3. PICK k \in Nat : k = Len(p) /\ k >= 1 /\ DOMAIN p = 1..k
      <4>1. Len(p) = Len(EventsOf(c.processed)) + 1
        BY <2>7, <3>1, AppendProperties
      <4>2. Len(EventsOf(c.processed)) \in Nat
        BY <2>7
      <4> QED BY <4>1, <4>2
    <3>4. SubSeq(due, 1, k) = p
      BY <3>2, <3>3, JoinedParts
    <3>5. k \in DOMAIN due /\ \A i \in 1..k : due[i] = p[i]
      <4>1. Len(due) = k + Len(q) /\ Len(q) \in Nat
        <5>1. Len(Joined(p, q)) = Len(p) + Len(q)
          BY JoinedIds
        <5> QED BY <3>2, <3>3, <5>1
      <4>2. k \in 0..Len(due) /\ DOMAIN due = 1..Len(due)
        BY <3>3, <4>1
      <4>3. \A i \in 1..k : SubSeq(due, 1, k)[i] = due[i]
        BY <4>2, PrefixIs
      <4>4. k \in 1..Len(due)
        BY <3>3, <4>2
      <4> QED BY <3>4, <4>2, <4>3, <4>4
    <3>6. \A i \in 1..k : ~ IsEnd(due[i])
      BY <2>8, <3>1, <3>3, <3>5 DEF NoEnd
    <3>7. ~ InBounds(StockAfter(c.from.stock, SubSeq(due, 1, k))) /\ c.from.stock \in Int
      BY <2>4, <2>7, <3>1, <3>4, BoundedIsInt DEF Working
    <3>8. ~ ApplyTimeAdvancePlan(c.from, Plan(due, c.end)).ok
      BY <3>5, <3>6, <3>7, StaticFails
    <3> QED BY <3>1, <3>8 DEF Static
  <2>10. RefusedToo(trial)
    BY <2>2, <2>9 DEF RefusedToo
  <2> QED BY <2>1, <2>4, <2>10, FailKeeps
<1> QED BY <1>1, <1>2

-------------------------------------------------------------------------------
(* Game time: the trial becomes the world                                    *)

LEMMA SucceedIs ==
  ASSUME NEW clock, NEW terminal, NEW processed, NEW queue, Succeed(clock, terminal, processed, queue),
         NEW c, c = trial, NEW d, d = trial', NEW w, w = world, NEW u, u = world',
         DOMAIN c = TrialFields
  PROVE  /\ DOMAIN d = TrialFields /\ d.at = "done" /\ d.processed = processed /\ d.queue = queue
         /\ d.from = c.from /\ d.end = c.end /\ d.due = c.due /\ d.pending = c.pending
         /\ d.seen = c.seen /\ d.total = c.total /\ d.next = c.next /\ d.stock = c.stock
         /\ u = [clock |-> clock, revision |-> w.revision + 1, stock |-> c.stock,
                 terminal |-> terminal]
<1>1. d = [c EXCEPT !.at = "done", !.processed = processed, !.queue = queue, !.terminal = terminal]
  BY DEF Succeed
<1>2. u = [clock |-> clock, revision |-> w.revision + 1, stock |-> c.stock, terminal |-> terminal]
  BY DEF Succeed
<1> QED BY <1>1, <1>2 DEF TrialFields

\* What is left to show of a trial that ends well.
EndsWell(c, d, clock, terminal) ==
  LET p == EventsOf(d.processed) IN
  /\ clock \in Nat /\ terminal = (~ NoEnd(p))
  /\ clock = IF terminal THEN Last(p).at ELSE c.end
  /\ c.stock = StockAfter(c.from.stock, p)
  /\ NoChildren(d) => Yields(Static(d), c.stock, terminal, clock, p, EventsOf(d.queue))

LEMMA SucceedKeeps ==
  ASSUME SchedulerIInv, NEW clock, NEW terminal, NEW processed, NEW queue,
         Succeed(clock, terminal, processed, queue), TrialAt("running"),
         NEW c, c = trial, NEW d, d = trial', GoodTrial(d), EndsWell(c, d, clock, terminal)
  PROVE  SchedulerIInv'
<1>1. PICK w, u : w = world /\ u = world'
  OBVIOUS
<1>2. GoodTrying(c, w) /\ c.at = "running"
  BY <1>1 DEF SchedulerIInv, TrialAt
<1>3. DOMAIN c = TrialFields /\ Working(c) /\ w = c.from
  BY <1>2 DEF GoodTrying
<1>4. /\ DOMAIN d = TrialFields /\ d.at = "done" /\ d.processed = processed /\ d.queue = queue
      /\ d.from = c.from /\ d.end = c.end
      /\ u = [clock |-> clock, revision |-> w.revision + 1, stock |-> c.stock,
              terminal |-> terminal]
  BY <1>1, <1>3, SucceedIs
<1>5. u.clock = clock /\ u.stock = c.stock
  BY <1>4
<1>6. u.terminal = terminal
  BY Zenon, <1>4
<1>7. GoodWorld(u)
  BY Zenon, <1>3, <1>5 DEF GoodWorld, Working, EndsWell
<1> DEFINE p == EventsOf(d.processed)
<1>8. Result(d, u)
  <2>1. terminal = (~ NoEnd(p)) /\ c.stock = StockAfter(d.from.stock, p)
    BY Zenon, <1>4 DEF EndsWell
  <2>2. clock = IF terminal THEN Last(p).at ELSE d.end
    BY Zenon, <1>4 DEF EndsWell
  <2>3. u = [clock |-> IF terminal THEN Last(p).at ELSE d.end,
             revision |-> d.from.revision + 1,
             stock |-> StockAfter(d.from.stock, p), terminal |-> terminal]
    BY Zenon, <1>3, <1>4, <2>1, <2>2
  <2>4. InBounds(u.stock) /\ ~ d.from.terminal
    BY Zenon, <1>3, <1>4, <1>5 DEF Working
  <2> QED BY Zenon, <2>1, <2>3, <2>4 DEF Result
<1>9. Agrees(d, u)
  <2> SUFFICES ASSUME NoChildren(d)
               PROVE  /\ Static(d).ok
                      /\ <<u.stock, u.terminal, u.clock>>
                           = <<Static(d).stock, Static(d).terminal, Static(d).clock>>
                      /\ EventsOf(d.processed) = Static(d).applied
                      /\ EventsOf(d.queue) = Static(d).rest
    BY Zenon DEF Agrees
  <2>1. Yields(Static(d), c.stock, terminal, clock, p, EventsOf(d.queue))
    BY Zenon DEF EndsWell
  <2>2. InBounds(c.stock)
    BY <1>3 DEF Working
  <2> QED BY Zenon, <1>5, <1>6, <2>1, <2>2 DEF Yields
<1>10. GoodTrying(d, u)
  BY <1>4, <1>7, <1>8, <1>9 DEF GoodTrying
<1> QED BY <1>1, <1>10 DEF SchedulerIInv

LEMMA FinishKeeps == ASSUME SchedulerIInv, FinishAdvance PROVE SchedulerIInv'
<1>1. PICK w, u : w = world /\ u = world'
  OBVIOUS
<1>2. PICK c, d : c = trial /\ d = trial'
  OBVIOUS
<1>3. PICK terminal, none : terminal = FALSE /\ none = <<>>
  OBVIOUS
<1>4. /\ TrialAt("running") /\ c.at = "running" /\ c.queue = none
      /\ Succeed(c.end, terminal, c.processed, none)
  BY Zenon, <1>2, <1>3 DEF FinishAdvance, TrialAt
<1>5. DOMAIN c = TrialFields /\ GoodTrial(c) /\ Working(c)
  BY <1>2, <1>4 DEF SchedulerIInv, GoodTrying
<1>6. /\ DOMAIN d = TrialFields /\ d.processed = c.processed /\ d.queue = c.queue
      /\ d.from = c.from /\ d.end = c.end /\ d.due = c.due /\ d.pending = c.pending
      /\ d.seen = c.seen /\ d.total = c.total /\ d.next = c.next
  BY <1>1, <1>2, <1>4, <1>5, SucceedIs
<1>7. GoodTrial(d)
  BY <1>5, <1>6 DEF GoodTrial, Held
<1>8. PICK p \in Seq(Event), due \in Seq(Event) :
        p = EventsOf(d.processed) /\ due = c.due /\ NoEnd(p) /\ c.stock = StockAfter(c.from.stock, p)
  <2>1. c.processed \in Seq(Entries) /\ c.due \in Seq(Event)
    BY <1>5 DEF GoodTrial
  <2> QED BY <1>5, <1>6, <2>1, EventsOfIs DEF Working
<1>9. EventsOf(d.queue) = <<>>
  BY <1>3, <1>4, <1>6 DEF EventsOf
<1>10. ASSUME NoChildren(d) PROVE Yields(Static(d), c.stock, ~ NoEnd(p), c.end, p, EventsOf(d.queue))
  <2>1. Held(d) = d.due
    BY <1>7, <1>10, HeldIsPlan
  <2>2. p = due
    <3>1. Held(d) = Joined(p, <<>>)
      BY <1>8, <1>9 DEF Held
    <3>2. Joined(p, <<>>) = p
      BY ConcatEmptySeq DEF Joined
    <3> QED BY <1>6, <1>8, <2>1, <3>1, <3>2
  <2>3. Static(d) = ApplyTimeAdvancePlan(c.from, Plan(p, c.end))
    BY <1>6, <1>8, <2>2 DEF Static
  <2>4. Yields(ApplyTimeAdvancePlan(c.from, Plan(p, c.end)),
               StockAfter(c.from.stock, p), ~ NoEnd(p), c.end, p, <<>>)
    BY Zenon, <1>8, StaticWithoutEnd
  <2> QED BY Zenon, <1>8, <1>9, <2>3, <2>4
<1>11. terminal = (~ NoEnd(p)) /\ c.end = (IF terminal THEN Last(p).at ELSE c.end)
  BY Zenon, <1>3, <1>8
<1>12. EndsWell(c, d, c.end, terminal)
  <2>1. c.end \in Nat
    BY <1>5 DEF GoodTrial
  <2> QED BY Zenon, <1>8, <1>10, <1>11, <2>1 DEF EndsWell
<1>13. c = trial /\ d = trial' /\ Succeed(c.end, terminal, c.processed, none) /\ TrialAt("running")
  BY <1>2, <1>4
<1> QED BY <1>7, <1>12, <1>13, SucceedKeeps

LEMMA InterruptKeeps == ASSUME SchedulerIInv, Interrupt PROVE SchedulerIInv'
<1>1. PICK w, u : w = world /\ u = world'
  OBVIOUS
<1>2. PICK c, d : c = trial /\ d = trial'
  OBVIOUS
<1>3. PICK terminal : terminal = TRUE
  OBVIOUS
<1>4. PICK clock, processed, queue :
        /\ clock = Head(c.queue).event.at
        /\ processed = Append(c.processed, Head(c.queue)) /\ queue = Tail(c.queue)
  OBVIOUS
<1>5. /\ TrialAt("running") /\ c.at = "running" /\ c.queue # <<>> /\ Len(c.processed) < MaxSteps
      /\ Head(c.queue).event.kind = "core.terminal"
  BY <1>2 DEF Interrupt, Shift, TrialAt
<1>6. Succeed(clock, terminal, processed, queue)
  BY Zenon, <1>2, <1>3, <1>4 DEF Interrupt
<1>7. DOMAIN c = TrialFields /\ GoodTrial(c) /\ Working(c)
  BY <1>2, <1>5 DEF SchedulerIInv, GoodTrying
<1>8. /\ d.processed = processed /\ d.queue = queue
      /\ d.from = c.from /\ d.end = c.end /\ d.due = c.due /\ d.pending = c.pending
      /\ d.seen = c.seen /\ d.total = c.total /\ d.next = c.next
  BY <1>1, <1>2, <1>6, <1>7, SucceedIs
<1>9. Moves(c, d)
  BY <1>4, <1>8 DEF Moves
<1>10. /\ GoodTrial(d) /\ Head(c.queue).event \in Event
       /\ EventsOf(c.processed) \in Seq(Event)
       /\ EventsOf(d.processed) = Append(EventsOf(c.processed), Head(c.queue).event)
       /\ StockAfter(c.from.stock, EventsOf(d.processed)) =
            BatchApplied(c.stock, Head(c.queue).event.deltas)
  BY <1>5, <1>7, <1>9, MovesHeld
<1>11. PICK e \in Event, o \in Seq(Event) :
         /\ e = Head(c.queue).event /\ IsEnd(e) /\ e.at \in Nat /\ e.deltas = <<>>
         /\ o = EventsOf(c.processed) /\ NoEnd(o)
  BY <1>5, <1>7, <1>10, EventTyped DEF IsEnd, Working
<1>12. PICK p \in Seq(Event), q \in Seq(Event), due \in Seq(Event) :
         p = EventsOf(d.processed) /\ q = EventsOf(d.queue) /\ due = d.due /\ p = Append(o, e)
  <2>1. d.processed \in Seq(Entries) /\ d.queue \in Seq(Entries) /\ d.due \in Seq(Event)
    BY <1>10 DEF GoodTrial, GoodQueue
  <2> QED BY <1>10, <1>11, <2>1, EventsOfIs
<1>13. /\ ~ NoEnd(p) /\ \A i \in DOMAIN p : IsEnd(p[i]) => i = Len(p)
       /\ Last(p) = e /\ Len(p) = Len(o) + 1
  BY <1>11, <1>12, NoEndOf
<1>14. StockAfter(c.from.stock, p) = c.stock
  <2>1. c.stock \in Int /\ <<>> \in Seq(Int)
    BY <1>7, BoundedIsInt DEF Working
  <2>2. BatchApplied(c.stock, <<>>) = c.stock
    BY <2>1, BatchIs
  <2> QED BY <1>10, <1>11, <1>12, <2>2
<1>15. terminal = (~ NoEnd(p)) /\ clock = (IF terminal THEN Last(p).at ELSE c.end)
  BY Zenon, <1>3, <1>4, <1>11, <1>13
<1>16. ASSUME NoChildren(d) PROVE Yields(Static(d), c.stock, terminal, clock, p, q)
  <2>1. due = Joined(p, q)
    BY <1>10, <1>12, <1>16, HeldIsPlan DEF Held
  <2>2. PICK k \in Nat : k = Len(p) /\ k >= 1 /\ DOMAIN p = 1..k
    <3>1. Len(o) \in Nat
      OBVIOUS
    <3> QED BY <1>13, <3>1
  <2>3. PICK n \in Nat : n = Len(due) /\ k <= n /\ DOMAIN due = 1..n
    <3>1. Len(Joined(p, q)) = Len(p) + Len(q)
      BY JoinedIds
    <3>2. Len(q) \in Nat
      OBVIOUS
    <3> QED BY <2>1, <2>2, <3>1, <3>2
  <2>4. SubSeq(due, 1, k) = p /\ SubSeq(due, k + 1, n) = q
    BY <2>1, <2>2, <2>3, JoinedParts
  <2>5. \A i \in 1..k : due[i] = p[i]
    <3>1. k \in 0..Len(due)
      BY <2>3
    <3> QED BY <2>4, <3>1, PrefixIs
  <2>6. k \in DOMAIN due /\ due[k] = e
    <3>1. p[k] = e
      BY <1>13, <2>2 DEF Last
    <3>2. k \in 1..k /\ k \in 1..n
      BY <2>2, <2>3
    <3> QED BY <2>3, <2>5, <3>1, <3>2
  <2>7. ASSUME NEW i \in DOMAIN due, IsEnd(due[i]) PROVE k <= i
    <3>1. CASE i \in 1..k
      <4>1. i = k
        BY <1>13, <2>2, <2>5, <2>7, <3>1
      <4> QED BY <4>1
    <3>2. CASE i \notin 1..k
      BY <2>2, <2>3, <3>2
    <3> QED BY <3>1, <3>2
  <2>8. Static(d) = ApplyTimeAdvancePlan(c.from, Plan(due, c.end))
    BY <1>8, <1>12 DEF Static
  <2>9. IsEnd(due[k]) /\ \A i \in DOMAIN due : IsEnd(due[i]) => k <= i
    BY <1>11, <2>6, <2>7
  <2>10. Yields(ApplyTimeAdvancePlan(c.from, Plan(due, c.end)),
                StockAfter(c.from.stock, SubSeq(due, 1, k)), TRUE, due[k].at, SubSeq(due, 1, k),
                SubSeq(due, k + 1, Len(due)))
    BY Zenon, <2>6, <2>9, StaticToEnd
  <2>11. Yields(ApplyTimeAdvancePlan(c.from, Plan(due, c.end)), c.stock, terminal, clock, p, q)
    BY Zenon, <1>3, <1>4, <1>11, <1>14, <2>3, <2>4, <2>6, <2>10
  <2> QED BY Zenon, <2>8, <2>11
<1>17. EndsWell(c, d, clock, terminal)
  <2>1. clock \in Nat
    BY <1>4, <1>11
  <2> QED BY Zenon, <1>12, <1>14, <1>15, <1>16, <2>1 DEF EndsWell
<1>18. c = trial /\ d = trial' /\ Succeed(clock, terminal, processed, queue) /\ TrialAt("running")
  BY <1>2, <1>5, <1>6
<1> QED BY <1>10, <1>17, <1>18, SucceedKeeps

-------------------------------------------------------------------------------
(* Game time: a handler adds events                                          *)

Accepted(c, child, entry) ==
  [c EXCEPT !.seen = @ \cup {child.id}, !.total = @ + 1, !.next = @ + 1,
            !.queue = IF IsDue(child, c.end) THEN ByTurn(Range(@) \cup {entry}) ELSE @,
            !.pending = IF IsDue(child, c.end) THEN @ ELSE ByTime(Range(@) \cup {child})]

LEMMA AcceptKeeps ==
  ASSUME NEW c, GoodTrial(c), c.processed # <<>>, DOMAIN c = TrialFields,
         NEW child \in Event, child.id \notin c.seen, c.total < MaxEvents,
         NEW entry, entry = QueueEntry(child, EffectiveOrder(child, Last(c.processed)), c.next),
         NEW d, d = Accepted(c, child, entry)
  PROVE  GoodTrial(d)
<1>1. /\ c.processed \in Seq(Entries) /\ c.queue \in Seq(Entries) /\ c.next \in Nat
      /\ GoodQueue(c.queue, c.next) /\ c.end \in Nat
      /\ c.pending \in Seq(Event) /\ c.due \in Seq(Event)
  BY DEF GoodTrial, GoodQueue
<1>2. /\ d.seen = c.seen \cup {child.id} /\ d.total = c.total + 1 /\ d.next = c.next + 1
      /\ d.processed = c.processed /\ d.due = c.due /\ d.end = c.end
  BY DEF TrialFields, Accepted
<1>3. PICK p \in Seq(Event), q \in Seq(Event), n \in Seq(Event), due \in Seq(Event) :
        p = EventsOf(c.processed) /\ q = EventsOf(c.queue) /\ n = c.pending /\ due = c.due
  BY <1>1, EventsOfIs
<1>4. PICK h \in Seq(Event) :
        /\ h = Joined(p, q) /\ h = Held(c) /\ Len(h) = Len(p) + Len(q)
        /\ Ids(h) = Ids(p) \cup Ids(q)
        /\ IdsApart(h) <=> IdsApart(p) /\ IdsApart(q) /\ Ids(p) \cap Ids(q) = {}
  <2>1. Held(c) = Joined(p, q)
    BY <1>3 DEF Held
  <2>2. /\ Joined(p, q) \in Seq(Event) /\ Len(Joined(p, q)) = Len(p) + Len(q)
        /\ Ids(Joined(p, q)) = Ids(p) \cup Ids(q)
        /\ IdsApart(Joined(p, q)) <=> IdsApart(p) /\ IdsApart(q) /\ Ids(p) \cap Ids(q) = {}
    BY JoinedIds
  <2> QED BY <2>1, <2>2
<1>5. /\ IdsApart(h) /\ IdsApart(n) /\ Ids(h) \cap Ids(n) = {}
      /\ c.seen = Ids(h) \cup Ids(n) /\ c.total = Len(h) + Len(n)
      /\ Len(due) <= Len(h) /\ (Len(due) = Len(h) => h = due)
  BY <1>3, <1>4 DEF GoodTrial, Separate, Tallied
<1>6. PICK x \in Nat, y \in Nat, z \in Nat :
        x = Len(p) /\ y = Len(q) /\ z = Len(n) /\ Len(h) = x + y /\ c.total = (x + y) + z
  BY <1>4, <1>5
<1>7. d.total \in Nat /\ d.total = (x + y) + z + 1 /\ d.total <= MaxEvents /\ Len(d.processed) <= MaxSteps
  <2>1. Len(d.processed) <= MaxSteps
    BY <1>2 DEF GoodTrial
  <2> QED BY <1>2, <1>6, <2>1, SchedulerAssumption
<1>8. child.id \notin Ids(p) /\ child.id \notin Ids(q) /\ child.id \notin Ids(n) /\ child.id \notin Ids(h)
  BY <1>4, <1>5
<1>9. CASE IsDue(child, c.end)
  <2>1. d.queue = ByTurn(Range(c.queue) \cup {entry}) /\ d.pending = n
    BY <1>3, <1>9 DEF TrialFields, Accepted
  <2>2. entry \in Entries /\ entry.sequence = c.next /\ entry.event = child
    <3>1. PICK k \in Nat : k = Len(c.processed) /\ k \in DOMAIN c.processed
      BY <1>1
    <3>2. Last(c.processed) \in Entries
      BY <1>1, <3>1, ElementOfSeq DEF Last
    <3>3. child.order \in Nat /\ Last(c.processed).effectiveOrder \in Nat
      BY <3>2, EventTyped DEF Entries
    <3>4. EffectiveOrder(child, Last(c.processed)) \in Nat
      BY <3>3 DEF EffectiveOrder
    <3> QED BY <1>1, <3>4 DEF QueueEntry, Entries
  <2>3. IdsApart(q)
    BY <1>4, <1>5
  <2>4. /\ GoodQueue(d.queue, d.next) /\ Len(d.queue) = Len(c.queue) + 1
        /\ IdsApart(EventsOf(d.queue)) /\ Ids(EventsOf(d.queue)) = Ids(q) \cup {child.id}
    <3>1. GoodQueue(c.queue, c.next) /\ IdsApart(EventsOf(c.queue)) /\ child.id \notin Ids(EventsOf(c.queue))
      BY <1>1, <1>3, <1>8, <2>3
    <3>2. entry.event.id \notin Ids(EventsOf(c.queue)) /\ entry \in Entries /\ entry.sequence = c.next
      BY <2>2, <3>1
    <3>3. /\ GoodQueue(d.queue, c.next + 1) /\ Len(d.queue) = Len(c.queue) + 1
          /\ IdsApart(EventsOf(d.queue))
          /\ Ids(EventsOf(d.queue)) = Ids(EventsOf(c.queue)) \cup {entry.event.id}
      <4>1. PICK q0, u, m : q0 = c.queue /\ u = d.queue /\ m = c.next
        OBVIOUS
      <4>2. /\ GoodQueue(q0, m) /\ IdsApart(EventsOf(q0)) /\ entry.event.id \notin Ids(EventsOf(q0))
            /\ entry \in Entries /\ entry.sequence = m /\ u = QueuedWith(q0, entry)
        BY <2>1, <3>1, <3>2, <4>1 DEF QueuedWith
      <4>3. /\ GoodQueue(u, m + 1) /\ Len(u) = Len(q0) + 1
            /\ IdsApart(EventsOf(u)) /\ Ids(EventsOf(u)) = Ids(EventsOf(q0)) \cup {entry.event.id}
        BY <4>2, QueueGrows
      <4> QED BY <4>1, <4>3
    <3> QED BY <1>2, <1>3, <2>2, <3>3
  <2>5. PICK r \in Seq(Event) : r = EventsOf(d.queue) /\ Len(r) = y + 1
    <3>1. d.queue \in Seq(Entries)
      BY <2>4 DEF GoodQueue
    <3>2. Len(q) = Len(c.queue)
      BY <1>1, <1>3, EventsOfIs
    <3>3. Len(EventsOf(d.queue)) = Len(d.queue) /\ EventsOf(d.queue) \in Seq(Event)
      BY <3>1, EventsOfIs
    <3> QED BY <1>6, <2>4, <3>2, <3>3
  <2>6. PICK g \in Seq(Event) :
          /\ g = Held(d) /\ Len(g) = Len(p) + Len(r) /\ Ids(g) = Ids(p) \cup Ids(r)
          /\ IdsApart(g) <=> IdsApart(p) /\ IdsApart(r) /\ Ids(p) \cap Ids(r) = {}
    <3>1. Held(d) = Joined(p, r)
      BY <1>2, <1>3, <2>5 DEF Held
    <3>2. /\ Joined(p, r) \in Seq(Event) /\ Len(Joined(p, r)) = Len(p) + Len(r)
          /\ Ids(Joined(p, r)) = Ids(p) \cup Ids(r)
          /\ IdsApart(Joined(p, r)) <=> IdsApart(p) /\ IdsApart(r) /\ Ids(p) \cap Ids(r) = {}
      BY JoinedIds
    <3> QED BY <3>1, <3>2
  <2>7. Len(g) = (x + y) + 1
    BY <1>6, <2>5, <2>6
  <2>8. IdsApart(g) /\ Ids(g) = Ids(h) \cup {child.id} /\ Ids(g) \cap Ids(n) = {}
    BY <1>4, <1>5, <1>8, <2>4, <2>5, <2>6
  <2>9. Separate(g, n, d.seen, d.total)
    <3>1. d.total = Len(g) + Len(n)
      BY <1>6, <1>7, <2>7
    <3>2. d.seen = Ids(g) \cup Ids(n)
      BY <1>2, <1>5, <2>8
    <3> QED BY <1>5, <2>8, <3>1, <3>2 DEF Separate
  <2>10. Tallied(due, g)
    <3>1. Len(due) \in Nat /\ Len(due) <= x + y
      BY <1>5, <1>6
    <3> QED BY <2>7, <3>1 DEF Tallied
  <2>11. \A i \in DOMAIN d.pending : d.pending[i].at > d.end
    BY <1>2, <1>3, <2>1 DEF GoodTrial
  <2> QED BY <1>1, <1>2, <1>3, <1>7, <2>1, <2>4, <2>6, <2>9, <2>10, <2>11 DEF GoodTrial
<1>10. CASE ~ IsDue(child, c.end)
  <2>1. d.queue = c.queue /\ d.pending = ByTime(Range(n) \cup {child})
    BY <1>3, <1>10 DEF TrialFields, Accepted
  <2>2. Held(d) = h
    BY <1>2, <1>4, <2>1 DEF Held
  <2>3. /\ d.pending \in Seq(Event) /\ Len(d.pending) = Len(n) + 1 /\ IdsApart(d.pending)
        /\ Ids(d.pending) = Ids(n) \cup {child.id}
        /\ \A i \in DOMAIN d.pending :
             d.pending[i] = child \/ \E j \in DOMAIN n : d.pending[i] = n[j]
    <3>1. PICK u : u = d.pending
      OBVIOUS
    <3>2. IdsApart(n) /\ child.id \notin Ids(n) /\ u = TimedWith(n, child)
      BY <1>5, <1>8, <2>1, <3>1 DEF TimedWith
    <3>3. /\ u \in Seq(Event) /\ Len(u) = Len(n) + 1 /\ IdsApart(u) /\ Ids(u) = Ids(n) \cup {child.id}
          /\ \A i \in DOMAIN u : u[i] = child \/ \E j \in DOMAIN n : u[i] = n[j]
      BY <3>2, PendingGrows
    <3> QED BY <3>1, <3>3
  <2>4. Separate(h, d.pending, d.seen, d.total)
    <3>1. d.total = Len(h) + Len(d.pending)
      BY <1>6, <1>7, <2>3
    <3>2. d.seen = Ids(h) \cup Ids(d.pending) /\ Ids(h) \cap Ids(d.pending) = {}
      BY <1>2, <1>5, <1>8, <2>3
    <3> QED BY <1>5, <2>3, <3>1, <3>2 DEF Separate
  <2>5. Tallied(due, h)
    BY <1>5 DEF Tallied
  <2>6. \A i \in DOMAIN d.pending : d.pending[i].at > d.end
    <3>1. child.at > c.end
      BY <1>1, <1>10, EventTyped DEF IsDue
    <3>2. \A j \in DOMAIN n : n[j].at > c.end
      BY <1>3 DEF GoodTrial
    <3> QED BY <1>2, <2>3, <3>1, <3>2
  <2>7. GoodQueue(d.queue, d.next)
    <3>1. PICK k \in Nat : k = c.next
      BY <1>1
    <3>2. \A i \in DOMAIN c.queue : c.queue[i].sequence \in Nat /\ c.queue[i].sequence < k
      <4> TAKE i \in DOMAIN c.queue
      <4>1. c.queue[i] \in Entries
        BY <1>1, ElementOfSeq
      <4> QED BY <3>1, <4>1, <1>1 DEF GoodQueue, Entries
    <3>3. \A i \in DOMAIN c.queue : c.queue[i].sequence < k + 1
      BY <3>2
    <3> QED BY <1>1, <1>2, <2>1, <3>1, <3>3 DEF GoodQueue
  <2> QED BY <1>1, <1>2, <1>3, <1>7, <2>2, <2>3, <2>4, <2>5, <2>6, <2>7 DEF GoodTrial
<1> QED BY <1>9, <1>10

LEMMA GenerateKeeps == ASSUME SchedulerIInv, NEW child \in Children, Generate(child) PROVE SchedulerIInv'
<1> DEFINE refused == \/ child.id \in trial.seen \/ child.at < Last(trial.processed).event.at
                      \/ trial.total >= MaxEvents
<1>1. CASE refused
  <2>1. Fail("generated_event_refused") /\ Trying
    BY <1>1 DEF Generate, Trying
  <2> QED BY <2>1, FailKeeps
<1>2. CASE ~ refused
  <2>1. PICK w : w = world /\ w = world'
    BY <1>2 DEF Generate
  <2>2. PICK c, d, entry : /\ c = trial /\ d = trial'
                           /\ entry = QueueEntry(child, EffectiveOrder(child, Last(c.processed)), c.next)
    OBVIOUS
  <2>3. GoodTrying(c, w) /\ c.at = "handling"
    BY <2>1, <2>2 DEF SchedulerIInv, Generate, TrialAt
  <2>4. /\ DOMAIN c = TrialFields /\ GoodTrial(c) /\ Working(c) /\ c.processed # <<>>
        /\ GoodWorld(w) /\ w = c.from
    BY <2>3 DEF GoodTrying
  <2>5. d = Accepted(c, child, entry)
    BY <1>2, <2>2 DEF Generate, Accept, Accepted
  <2>6. child \in Event /\ child.id \notin c.seen
    BY <1>2, <2>2, SchedulerAssumption
  <2>7. c.total < MaxEvents
    <3>1. c.total \in Nat
      <4>1. Held(c) \in Seq(Event) /\ c.pending \in Seq(Event) /\ c.total = Len(Held(c)) + Len(c.pending)
        <5>1. c.processed \in Seq(Entries) /\ c.queue \in Seq(Entries)
          BY <2>4 DEF GoodTrial, GoodQueue
        <5> QED BY <2>4, <5>1, EventsOfIs, JoinedIds DEF GoodTrial, Separate, Held
      <4> QED BY <4>1
    <3> QED BY <1>2, <2>2, <3>1, SchedulerAssumption
  <2>8. GoodTrial(d)
    BY <2>2, <2>4, <2>5, <2>6, <2>7, AcceptKeeps
  <2>9. /\ DOMAIN d = TrialFields /\ d.at = "handling" /\ d.from = c.from /\ d.processed = c.processed
        /\ d.stock = c.stock
    BY <2>3, <2>4, <2>5 DEF TrialFields, Accepted
  <2>10. Working(d)
    BY <2>4, <2>9 DEF Working
  <2>11. GoodTrying(d, w)
    BY <2>4, <2>8, <2>9, <2>10 DEF GoodTrying
  <2> QED BY <2>1, <2>2, <2>11 DEF SchedulerIInv
<1> QED BY <1>1, <1>2

LEMMA ReturnKeeps == ASSUME SchedulerIInv, HandlerReturns PROVE SchedulerIInv'
<1>1. PICK w : w = world /\ w = world'
  BY DEF HandlerReturns
<1>2. PICK c, d : c = trial /\ d = trial'
  OBVIOUS
<1>3. GoodTrying(c, w) /\ c.at = "handling"
  BY <1>1, <1>2 DEF SchedulerIInv, HandlerReturns, TrialAt
<1>4. DOMAIN c = TrialFields /\ GoodTrial(c) /\ Working(c) /\ GoodWorld(w) /\ w = c.from
  BY <1>3 DEF GoodTrying
<1>5. d = [c EXCEPT !.at = "running"]
  BY <1>2 DEF HandlerReturns
<1>6. /\ DOMAIN d = TrialFields /\ d.at = "running"
      /\ d.processed = c.processed /\ d.queue = c.queue
      /\ d.from = c.from /\ d.end = c.end /\ d.due = c.due /\ d.pending = c.pending
      /\ d.seen = c.seen /\ d.total = c.total /\ d.next = c.next /\ d.stock = c.stock
  BY <1>4, <1>5 DEF TrialFields
<1>7. GoodTrial(d)
  BY <1>4, <1>6 DEF GoodTrial, Held
<1>8. Working(d)
  BY <1>4, <1>6 DEF Working
<1>9. GoodTrying(d, w)
  BY <1>4, <1>6, <1>7, <1>8 DEF GoodTrying
<1> QED BY <1>1, <1>2, <1>9 DEF SchedulerIInv

LEMMA SchedulerInvStep == SchedulerIInv /\ [SchedulerNext]_schedulerVars => SchedulerIInv'
<1> SUFFICES ASSUME SchedulerIInv, [SchedulerNext]_schedulerVars PROVE SchedulerIInv'
  OBVIOUS
<1>1. ASSUME NEW duration \in Spans, NEW events \in Lists, BeginAdvance(duration, events)
      PROVE  SchedulerIInv'
  BY <1>1, BeginKeeps
<1>2. CASE FinishAdvance
  BY <1>2, FinishKeeps
<1>3. CASE StepLimit
  <2>1. Trying /\ Fail("step_limit_exceeded")
    BY <1>3 DEF StepLimit, Trying
  <2> QED BY <2>1, FailKeeps
<1>4. CASE ProcessMarker
  BY <1>4, MarkerKeeps
<1>5. CASE ProcessEffects
  BY <1>5, EffectsKeep
<1>6. CASE Interrupt
  BY <1>6, InterruptKeeps
<1>7. ASSUME NEW child \in Children, Generate(child) PROVE SchedulerIInv'
  BY <1>7, GenerateKeeps
<1>8. CASE HandlerReturns
  BY <1>8, ReturnKeeps
<1>9. CASE HandlerThrows
  <2>1. Trying /\ Fail("handler_failed")
    BY <1>9 DEF HandlerThrows, Trying
  <2> QED BY <2>1, FailKeeps
<1>10. CASE UNCHANGED schedulerVars
  BY <1>10 DEF schedulerVars, SchedulerIInv
<1> QED BY <1>1, <1>2, <1>3, <1>4, <1>5, <1>6, <1>7, <1>8, <1>9, <1>10 DEF SchedulerNext

LEMMA SchedulerInvariance == SchedulerSpec => []SchedulerIInv
<1>1. SchedulerInit => SchedulerIInv
  BY SchedulerInvInit
<1>2. SchedulerIInv /\ [SchedulerNext]_schedulerVars => SchedulerIInv'
  BY SchedulerInvStep
<1> QED BY <1>1, <1>2, PTL DEF SchedulerSpec

LEMMA ConservedHolds == SchedulerIInv => EventsConserved
<1> SUFFICES ASSUME SchedulerIInv PROVE EventsConserved
  OBVIOUS
<1>1. PICK c, w : c = trial /\ w = world
  OBVIOUS
<1>2. GoodTrying(c, w)
  BY <1>1 DEF SchedulerIInv
<1>3. ProcessedEvents = EventsOf(c.processed) /\ QueuedEvents = EventsOf(c.queue)
  BY <1>1 DEF ProcessedEvents, QueuedEvents, EventsOf
<1> DEFINE all == ProcessedEvents \o QueuedEvents \o trial.pending
           ended == \E i \in DOMAIN trial.processed : ProcessedEvents[i].kind = "core.terminal"
<1>4. ASSUME Tried
      PROVE  /\ {all[i].id : i \in DOMAIN all} = trial.seen
             /\ Len(all) = trial.total
             /\ \A i, j \in DOMAIN all : all[i].id = all[j].id => i = j
             /\ \A i \in DOMAIN trial.pending : trial.pending[i].at > trial.end
             /\ trial.total <= MaxEvents /\ Len(trial.processed) <= MaxSteps
  <2>1. GoodTrial(c)
    BY <1>1, <1>2, <1>4 DEF Tried, Trying, TrialAt, GoodTrying
  <2>2. PICK p \in Seq(Event), q \in Seq(Event), n \in Seq(Event) :
          p = EventsOf(c.processed) /\ q = EventsOf(c.queue) /\ n = c.pending
    <3>1. c.processed \in Seq(Entries) /\ c.queue \in Seq(Entries) /\ c.pending \in Seq(Event)
      BY <2>1 DEF GoodTrial, GoodQueue
    <3> QED BY <3>1, EventsOfIs
  <2>3. PICK h \in Seq(Event) : h = Joined(p, q)
    BY JoinedIds
  <2>4. PICK a \in Seq(Event) :
          /\ a = Joined(h, n) /\ Len(a) = Len(h) + Len(n) /\ Ids(a) = Ids(h) \cup Ids(n)
          /\ IdsApart(a) <=> IdsApart(h) /\ IdsApart(n) /\ Ids(h) \cap Ids(n) = {}
    BY JoinedIds
  <2>5. Separate(h, n, c.seen, c.total)
    BY <2>1, <2>2, <2>3 DEF GoodTrial, Held
  <2>6. Ids(a) = c.seen /\ Len(a) = c.total /\ IdsApart(a)
    BY <2>4, <2>5 DEF Separate
  <2>7. all = a
    BY <1>1, <1>3, <2>2, <2>3, <2>4 DEF Joined
  <2> HIDE DEF all
  <2>8. {all[i].id : i \in DOMAIN all} = c.seen
    BY <2>6, <2>7 DEF Ids
  <2>9. \A i, j \in DOMAIN all : all[i].id = all[j].id => i = j
    BY <2>6, <2>7 DEF IdsApart
  <2> QED BY <1>1, <2>1, <2>6, <2>7, <2>8, <2>9 DEF GoodTrial
<1>5. ASSUME TrialAt("done")
      PROVE  /\ world =
                  [clock |-> IF ended THEN Last(ProcessedEvents).at ELSE trial.end,
                   revision |-> trial.from.revision + 1,
                   stock |-> StockAfter(trial.from.stock, ProcessedEvents),
                   terminal |-> ended]
             /\ InBounds(world.stock) /\ ~ trial.from.terminal
  <2>1. Result(c, w) /\ GoodTrial(c)
    BY <1>1, <1>2, <1>5 DEF TrialAt, GoodTrying
  <2>2. ended = (~ NoEnd(EventsOf(c.processed)))
    <3>1. c.processed \in Seq(Entries)
      BY <2>1 DEF GoodTrial
    <3>2. DOMAIN EventsOf(c.processed) = DOMAIN c.processed
      BY <3>1, EventsOfIs
    <3> QED BY <1>1, <1>3, <3>2 DEF NoEnd, IsEnd
  <2> HIDE DEF ended
  <2> QED BY Zenon, <1>1, <1>3, <2>1, <2>2 DEF Result
<1>6. TrialAt("idle") \/ TrialAt("done") \/ world = trial.from
  BY <1>1, <1>2 DEF TrialAt, GoodTrying
<1> QED BY <1>4, <1>5, <1>6 DEF EventsConserved

LEMMA AgreementHolds == SchedulerIInv => AgreesWithStaticPlan
<1> SUFFICES ASSUME SchedulerIInv PROVE AgreesWithStaticPlan
  OBVIOUS
<1>1. PICK c, w : c = trial /\ w = world
  OBVIOUS
<1>2. GoodTrying(c, w)
  BY <1>1 DEF SchedulerIInv
<1>3. ProcessedEvents = EventsOf(c.processed) /\ QueuedEvents = EventsOf(c.queue)
  BY <1>1 DEF ProcessedEvents, QueuedEvents, EventsOf
<1>4. Static(c) = ApplyTimeAdvancePlan(trial.from, [due |-> trial.due, end |-> trial.end])
  BY <1>1 DEF Static, Plan
<1>5. NoChildren(c) <=> trial.total = Len(trial.due) + Len(trial.pending)
  BY <1>1 DEF NoChildren
<1>6. TrialAt("done") => Agrees(c, w)
  BY <1>1, <1>2 DEF TrialAt, GoodTrying
<1>7. TrialAt("failed") /\ trial.code = "event_effect_failed" => RefusedToo(c)
  BY <1>1, <1>2 DEF TrialAt, GoodTrying
<1> QED BY Zenon, <1>1, <1>3, <1>4, <1>5, <1>6, <1>7 DEF AgreesWithStaticPlan, Agrees, RefusedToo

\* What processTimeAdvancePlan holds: no event planned or accepted is lost, run twice or
\* invented, the budgets hold, and the world is what the processed events make of it.
THEOREM EventsAreConserved == SchedulerSpec => []EventsConserved
<1>1. SchedulerIInv => EventsConserved
  BY ConservedHolds
<1> QED BY <1>1, SchedulerInvariance, PTL

\* Without children of handlers, processTimeAdvancePlan and applyTimeAdvancePlan make the
\* same of every plan: the same world and rest, and the same refusal of an effect.
THEOREM StaticPlanIsFollowed == SchedulerSpec => []AgreesWithStaticPlan
<1>1. SchedulerIInv => AgreesWithStaticPlan
  BY AgreementHolds
<1> QED BY <1>1, SchedulerInvariance, PTL
=============================================================================
