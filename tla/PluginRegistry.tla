--------------------------- MODULE PluginRegistry ---------------------------
(***************************************************************************)
(* What plugins a server runs (packages/plugins).  buildPluginRegistry     *)
(* reads a list of manifests, whatever its order, refuses what does not    *)
(* fit together and sorts the rest by dependency; the backends are then    *)
(* registered against the manifests, and only what a manifest declares is  *)
(* taken.  A server builds both when it starts; a restart may list the     *)
(* same plugins in another order.                                          *)
(*                                                                         *)
(* A version range is the set of versions in it.  Ids are sorted in two    *)
(* ways: by code unit where sort() is called bare, by the process's locale *)
(* where insertSorted compares.                                            *)
(***************************************************************************)
EXTENDS Integers, Sequences, SequencesExt, FiniteSets, Arrangements

CONSTANTS
  ManifestLists,   \* what a server may be given at its start: lists of manifests
  BackendLists,    \* and the lists of backend registrations
  Namespace,       \* plugin id |-> the public ids that begin with it and a dot
  CodeUnits,       \* plugin ids by code unit
  Locale           \* plugin ids in the order of the locale

Plugins == Range(CodeUnits)

\* engine: the API is in its range; acts: its actions and events.
IsManifest(x) ==
  /\ x.plugin \in Plugins /\ x.version \in Nat /\ x.engine \in BOOLEAN
  /\ DOMAIN x.needs \subseteq Plugins /\ \A q \in DOMAIN x.needs : x.needs[q] \subseteq Nat
  /\ x.owns \in Seq(UNION Range(Namespace)) /\ x.acts \subseteq Range(x.owns)

ASSUME RegistryAssumption ==
  /\ CodeUnits \in Seq(Plugins) /\ IsInjective(CodeUnits)
  /\ Locale \in Seq(Plugins) /\ Range(Locale) = Plugins /\ IsInjective(Locale)
  /\ DOMAIN Namespace = Plugins
  /\ \A list \in ManifestLists :
       list \in Seq(Range(list)) /\ \A x \in Range(list) : IsManifest(x)

VARIABLES
  registry,    \* the registry being built, or built
  backends,    \* action id |-> plugin: what the registered backends resolve
  built        \* what earlier and present builds made of their manifests

registryVars == <<registry, backends, built>>

None == "none"
Unbuilt == [stage |-> "none", code |-> None, left |-> <<>>, byId |-> [p \in {} |-> {}],
            ready |-> <<>>, indegree |-> [p \in {} |-> 0], order |-> <<>>]

RegistryInit == registry = Unbuilt /\ backends = [a \in {} |-> None] /\ built = {}

InStage(stage) == registry.stage = stage
RefuseRegistry(code) == registry' = [registry EXCEPT !.stage = "refused", !.code = code]
Installed == DOMAIN registry.byId
Needs(p) == DOMAIN registry.byId[p].needs

\* The server starts; once it has run, with the plugins it ran with.
BuildPluginRegistry(list) ==
  /\ registry.stage \in {"none", "built", "refused"}
  /\ \A before \in built : Range(list) = before.of
  /\ registry' = [Unbuilt EXCEPT !.stage = "reading", !.left = list]
  /\ backends' = [a \in {} |-> None]
  /\ UNCHANGED built

ValidatePluginManifest(x) ==
  /\ x.plugin \notin DOMAIN x.needs
  /\ IsInjective(x.owns) /\ Range(x.owns) \subseteq Namespace[x.plugin]

ReadManifest ==
  /\ InStage("reading") /\ registry.left # <<>>
  /\ LET x == Head(registry.left) IN
     \/ ~ ValidatePluginManifest(x) /\ RefuseRegistry("INVALID_MANIFEST")
     \/ /\ ValidatePluginManifest(x) /\ x.plugin \in Installed
        /\ RefuseRegistry("DUPLICATE_PLUGIN_ID")
     \/ /\ ValidatePluginManifest(x) /\ x.plugin \notin Installed /\ ~ x.engine
        /\ RefuseRegistry("ENGINE_API_INCOMPATIBLE")
     \/ /\ ValidatePluginManifest(x) /\ x.plugin \notin Installed /\ x.engine
        /\ registry' = [registry EXCEPT !.left = Tail(@),
             !.byId = [p \in Installed \cup {x.plugin} |-> IF p = x.plugin THEN x ELSE @[p]]]
  /\ UNCHANGED <<backends, built>>

DependenciesMet ==
  \A p \in Installed : \A q \in Needs(p) :
    q \in Installed /\ registry.byId[q].version \in registry.byId[p].needs[q]

NoIdHasTwoOwners ==
  \A p, q \in Installed : p # q =>
    Range(registry.byId[p].owns) \cap Range(registry.byId[q].owns) = {}

PlaceIn(order, id) == CHOOSE i \in DOMAIN order : order[i] = id

\* A bare sort().
ByCodeUnit(ids) == Arranged(ids, LAMBDA p, q : PlaceIn(CodeUnits, p) < PlaceIn(CodeUnits, q))

\* The two refusals by dependency are one here: which comes first depends on the list.
CheckRegistry ==
  /\ InStage("reading") /\ registry.left = <<>>
  /\ \/ ~ DependenciesMet /\ RefuseRegistry("MISSING_DEPENDENCY")
     \/ DependenciesMet /\ ~ NoIdHasTwoOwners /\ RefuseRegistry("GLOBAL_ID_COLLISION")
     \/ /\ DependenciesMet /\ NoIdHasTwoOwners
        /\ registry' = [registry EXCEPT !.stage = "sorting",
             !.indegree = [p \in Installed |-> Cardinality(Needs(p))],
             !.ready = ByCodeUnit({p \in Installed : Needs(p) = {}})]
  /\ UNCHANGED <<backends, built>>

InsertSorted(ids, id) ==
  LET index == CHOOSE i \in 1..Len(ids) + 1 :
        /\ \A j \in 1..i - 1 : PlaceIn(Locale, ids[j]) < PlaceIn(Locale, id)
        /\ i <= Len(ids) => PlaceIn(Locale, ids[i]) >= PlaceIn(Locale, id)
  IN  InsertAt(ids, index, id)

\* A bug: a plugin is ready when one of its dependencies is in place.
TakeReadyEarly ==
  /\ InStage("sorting") /\ registry.ready # <<>>
  /\ LET p == Head(registry.ready)
         freed == ByCodeUnit({q \in Installed : p \in Needs(q)})
     IN registry' = [registry EXCEPT !.order = Append(@, p),
          !.ready = FoldLeft(InsertSorted, Tail(@), freed)]
  /\ UNCHANGED <<backends, built>>

\* One turn of topologicalOrder's loop.
TakeReady ==
  /\ InStage("sorting") /\ registry.ready # <<>>
  /\ LET p == Head(registry.ready)
         next == [q \in Installed |-> registry.indegree[q] - (IF p \in Needs(q) THEN 1 ELSE 0)]
         freed == ByCodeUnit({q \in Installed : p \in Needs(q) /\ next[q] = 0})
     IN registry' = [registry EXCEPT !.order = Append(@, p), !.indegree = next,
          !.ready = FoldLeft(InsertSorted, Tail(@), freed)]
  /\ UNCHANGED <<backends, built>>

FinishRegistry ==
  /\ InStage("sorting") /\ registry.ready = <<>>
  /\ \/ Len(registry.order) # Cardinality(Installed) /\ RefuseRegistry("DEPENDENCY_CYCLE")
        /\ UNCHANGED built
     \/ /\ Len(registry.order) = Cardinality(Installed)
        /\ registry' = [registry EXCEPT !.stage = "built"]
        /\ built' = built \cup {[of |-> Range(registry.byId), order |-> registry.order]}
  /\ UNCHANGED backends

\* buildPluginExecutionRegistry: a registration per plugin at most, each of an installed
\* plugin, and of its declared actions, each once.
Registrable(list) ==
  /\ Len(list) <= Cardinality(Installed)
  /\ \A i, j \in DOMAIN list : list[i].plugin = list[j].plugin => i = j
  /\ \A i \in DOMAIN list :
       /\ list[i].plugin \in Installed
       /\ Range(list[i].actions) \subseteq registry.byId[list[i].plugin].acts
       /\ IsInjective(list[i].actions)

Resolves(list, a) == {i \in DOMAIN list : a \in Range(list[i].actions)}

BuildPluginExecutionRegistry(list) ==
  /\ InStage("built") /\ backends = [a \in {} |-> None]
  /\ Registrable(list)
  /\ backends' = [a \in UNION {Range(list[i].actions) : i \in DOMAIN list} |->
                    list[CHOOSE i \in Resolves(list, a) : TRUE].plugin]
  /\ UNCHANGED <<registry, built>>

RegistryNext ==
  \/ \E list \in ManifestLists : BuildPluginRegistry(list)
  \/ ReadManifest \/ CheckRegistry \/ TakeReady \/ FinishRegistry
  \/ \E list \in BackendLists : BuildPluginExecutionRegistry(list)

RegistrySpec == RegistryInit /\ [][RegistryNext]_registryVars
-----------------------------------------------------------------------------
(***************************************************************************)
(* Properties                                                              *)
(***************************************************************************)

\* A registry is of its set of manifests, not of the list it came in: every plugin is in
\* the order once and after what it needs, two builds of one set have one order, and only
\* a set that truly has a cycle is refused for one.
RegistryIsOfItsSet ==
  /\ InStage("built") =>
       /\ IsInjective(registry.order) /\ Range(registry.order) = Installed
       /\ \A i \in DOMAIN registry.order :
            Needs(registry.order[i]) \subseteq Range(SubSeq(registry.order, 1, i - 1))
  /\ \A one, other \in built : one.of = other.of => one = other
  /\ registry.code = "DEPENDENCY_CYCLE" =>
       \E ring \in SUBSET Installed \ {{}} : \A p \in ring : Needs(p) \cap ring # {}
=============================================================================
