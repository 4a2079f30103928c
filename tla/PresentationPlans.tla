-------------------------- MODULE PresentationPlans --------------------------
(***************************************************************************)
(* presentationPlanConvergesToTargetFrameV2: whether a plan, played from a *)
(* frame, ends at the target frame.  It is computed by applying the plan,  *)
(* a parallel node through the differences its branches make to the state  *)
(* they start from.  The player plays the branches together; the machine   *)
(* below plays one command at a time in every order it may come to.        *)
(*                                                                         *)
(* A plan is a tree: a function from the paths of its nodes, which are the *)
(* positions of the children taken from the root on, to the nodes.  A node *)
(* is a command, or a sequence or a parallel with a number of children.    *)
(*                                                                         *)
(* A visual state is a function of properties: the background, the line of *)
(* dialogue, the music, of each actor whether it is visible, its slot and  *)
(* its expression, of each overlay whether it is open, and how often each  *)
(* item is shown.                                                          *)
(***************************************************************************)
EXTENDS Integers, Sequences, FiniteSets, SequencesExt

CONSTANTS
  Actors, Overlays, Items,
  Lines,           \* the lines of dialogue of a target frame
  FirstStates,     \* visual states of frames
  PlanTrees,       \* plans
  MaxTreeNodes, MaxTreeDepth, MaxChildren

VARIABLES
  tree,            \* the plan
  fromState,       \* the state of the frame it starts from
  target,          \* the state of the frame it was accepted for
  playedState,     \* what is on the stage
  playedPaths           \* the paths of the commands that have been played

planVars == <<tree, fromState, target, playedState, playedPaths>>

Property(kind, of) == <<kind, of>>
Properties == {"visible", "slot", "expression"} \X Actors \cup {"overlay"} \X Overlays
                \cup {"item"} \X Items \cup {"background", "dialogue", "music"} \X {"scene"}
IsCount(p) == p[1] = "item"

Wait == [type |-> "wait"]
IsLeaf(node) == node.type \notin {"sequence", "parallel"}
Leaves(plan) == {q \in DOMAIN plan : IsLeaf(plan[q])}
Child(q, i) == Append(q, i)

\* The nodes of a tree are the root and the children of its sequences and parallels.
IsPlan(plan) ==
  /\ DOMAIN plan \subseteq Seq(Nat \ {0}) /\ IsFiniteSet(DOMAIN plan) /\ <<>> \in DOMAIN plan
  /\ \A q \in DOMAIN plan :
       /\ ~IsLeaf(plan[q]) => /\ plan[q].children \in Nat
                              /\ \A i \in 1 .. plan[q].children : Child(q, i) \in DOMAIN plan
       /\ q # <<>> => /\ Front(q) \in DOMAIN plan /\ ~IsLeaf(plan[Front(q)])
                      /\ Last(q) \in 1 .. plan[Front(q)].children

ASSUME PlanAssumption ==
  /\ MaxTreeNodes \in Nat /\ MaxTreeDepth \in Nat /\ MaxChildren \in Nat
  /\ \A plan \in PlanTrees : IsPlan(plan)
  /\ \A state \in FirstStates :
       /\ state = [p \in Properties |-> state[p]]
       /\ \A p \in Properties : IsCount(p) => state[p] \in Nat

(***************************************************************************)
(* A command.  Writes is what it sets; an item is counted.                 *)
(***************************************************************************)
Sets(kind, of, value) == [p \in {Property(kind, of)} |-> value]
Writes(cmd) ==
  CASE cmd.type = "background.set" -> Sets("background", "scene", cmd.asset)
    [] cmd.type = "actor.show" ->
         [p \in {Property("visible", cmd.actor), Property("slot", cmd.actor)} |->
            IF p[1] = "visible" THEN TRUE ELSE cmd.slot]
    [] cmd.type = "actor.hide" -> Sets("visible", cmd.actor, FALSE)
    [] cmd.type = "actor.move" -> Sets("slot", cmd.actor, cmd.slot)
    [] cmd.type = "actor.expression" -> Sets("expression", cmd.actor, cmd.expression)
    [] cmd.type = "dialogue.show" -> Sets("dialogue", "scene", cmd.line)
    [] cmd.type = "overlay.open" -> Sets("overlay", cmd.overlay, TRUE)
    [] cmd.type = "overlay.close" -> Sets("overlay", cmd.overlay, FALSE)
    [] cmd.type = "audio.play" -> Sets("music", "scene", cmd.asset)
    [] cmd.type = "audio.stop" -> Sets("music", "scene", "none")
    [] OTHER -> <<>>

Shown(cmd) == IF cmd.type = "item.show" THEN {Property("item", cmd.item)} ELSE {}
Perform(state, cmd) ==
  [p \in DOMAIN state |->
     IF p \in Shown(cmd) THEN state[p] + 1
     ELSE IF p \in DOMAIN Writes(cmd) THEN Writes(cmd)[p] ELSE state[p]]

\* A command names an actor of the frames, which is moved or changes its face only
\* while it is visible; a line is said and an overlay opened only for a target frame
\* that has it.
OfAnActor == {"actor.show", "actor.hide", "actor.move", "actor.expression"}
Permitted(state, cmd, frame) ==
  /\ cmd.type \in OfAnActor => cmd.actor \in Actors
  /\ cmd.type = "dialogue.show" => cmd.line \in Lines
  /\ cmd.type \in {"actor.move", "actor.expression"} => state[Property("visible", cmd.actor)]
  /\ cmd.type = "overlay.open" => frame[Property("overlay", cmd.overlay)]

(***************************************************************************)
(* applyParallel and diffVisualState: the branches' differences are        *)
(* merged, items by the sums of what the branches add.  A state that       *)
(* cannot be reached is NoState.                                           *)
(***************************************************************************)
NoState == <<>>
Differs(base, next) == {p \in Properties : base[p] # next[p]}
Conflict(base, branches) ==
  \E i, j \in DOMAIN branches : \E p \in Differs(base, branches[i]) \cap Differs(base, branches[j]) :
    ~IsCount(p) /\ branches[i][p] # branches[j][p]

Deltas(base, branches, p) ==
  LET sum[n \in 0 .. Len(branches)] ==
        IF n = 0 THEN 0 ELSE sum[n - 1] + (branches[n][p] - base[p])
  IN sum[Len(branches)]

\* A bug: of the items that two branches add, those of one are kept.
MergeLosesItems(base, branches) ==
  [p \in Properties |->
     LET by == {i \in DOMAIN branches : p \in Differs(base, branches[i])} IN
     IF by = {} THEN base[p] ELSE branches[CHOOSE i \in by : TRUE][p]]

Merge(base, branches) ==
  [p \in Properties |->
     LET by == {i \in DOMAIN branches : p \in Differs(base, branches[i])} IN
     IF IsCount(p) THEN base[p] + Deltas(base, branches, p)
     ELSE IF by = {} THEN base[p] ELSE branches[CHOOSE i \in by : TRUE][p]]

(***************************************************************************)
(* applyNode, of every node of a plan: the state it finds and the state it *)
(* leaves.  Reached is the one of them at a point, from those before it.   *)
(***************************************************************************)
Points(plan) == (DOMAIN plan) \X {"before", "after"}
FoundBy(plan, from, at, q) ==
  IF q = <<>> THEN from
  ELSE IF plan[Front(q)].type = "sequence" /\ Last(q) > 1
       THEN at[<<Child(Front(q), Last(q) - 1), "after">>]
       ELSE at[<<Front(q), "before">>]

Branches(plan, at, q) == [i \in 1 .. plan[q].children |-> at[<<Child(q, i), "after">>]]
Joins(base, branches) ==
  IF NoState \in Range(branches) \/ Conflict(base, branches) THEN NoState
  ELSE Merge(base, branches)

LeftBy(plan, frame, at, q) ==
  LET node == plan[q]
      state == at[<<q, "before">>]
  IN IF state = NoState THEN NoState
     ELSE IF IsLeaf(node)
       THEN IF Permitted(state, node, frame) THEN Perform(state, node) ELSE NoState
     ELSE IF node.type = "parallel" THEN Joins(state, Branches(plan, at, q))
     ELSE IF node.children = 0 THEN state ELSE at[<<Child(q, node.children), "after">>]

Reached(plan, from, frame, at, x) ==
  IF x[2] = "before" THEN FoundBy(plan, from, at, x[1]) ELSE LeftBy(plan, frame, at, x[1])

Course(plan, from, frame) ==
  LET at[x \in Points(plan)] == Reached(plan, from, frame, at, x) IN at
Apply(from, plan, frame) == Course(plan, from, frame)[<<<<>>, "after">>]

\* What a hidden actor would look like is not compared.
Matches(state, frame) ==
  \A p \in Properties :
    \/ state[p] = frame[p]
    \/ p[1] \in {"slot", "expression"} /\ ~state[Property("visible", p[2])]
         /\ ~frame[Property("visible", p[2])]

Converges(from, plan, frame) ==
  LET end == Apply(from, plan, frame) IN end # NoState /\ Matches(end, frame)

(***************************************************************************)
(* measurePresentationTree                                                 *)
(***************************************************************************)
WideEnough(node) == ~IsLeaf(node) => node.children \in 1 .. MaxChildren
Measured(plan) ==
  /\ \A q \in DOMAIN plan : WideEnough(plan[q]) /\ Len(q) + 1 <= MaxTreeDepth
  /\ Cardinality(DOMAIN plan) <= MaxTreeNodes

(***************************************************************************)
(* Playing.  Of two commands, the one whose way parts from the other's at  *)
(* an earlier child of a sequence comes first; a command takes its effect  *)
(* when it comes.                                                          *)
(***************************************************************************)
PartAt(r, q, k) == SubSeq(r, 1, k - 1) = SubSeq(q, 1, k - 1) /\ r[k] < q[k]
Precedes(plan, r, q) ==
  \E k \in (DOMAIN r) \cap (DOMAIN q) :
    PartAt(r, q, k) /\ plan[SubSeq(r, 1, k - 1)].type = "sequence"

\* A plan is accepted for the state it ends in, and for the frame of another
\* moment where that is what it leads to.
PlansInit ==
  /\ tree \in PlanTrees /\ Measured(tree)
  /\ fromState \in FirstStates
  /\ target \in FirstStates \cup ({Apply(fromState, tree, frame) : frame \in FirstStates} \ {NoState})
  /\ Converges(fromState, tree, target)
  /\ playedState = fromState /\ playedPaths = {}

PlayCommand ==
  \E q \in Leaves(tree) \ playedPaths :
    /\ \A r \in Leaves(tree) : Precedes(tree, r, q) => r \in playedPaths
    /\ playedState' = Perform(playedState, tree[q])
    /\ playedPaths' = playedPaths \cup {q}
    /\ UNCHANGED <<tree, fromState, target>>

PlansSpec == PlansInit /\ [][PlayCommand]_planVars

(***************************************************************************)
(* Properties.                                                             *)
(***************************************************************************)
LeavesUnder(plan, q) == {l \in Leaves(plan) : IsPrefix(q, l)}
Touches(plan, q) == UNION {DOMAIN Writes(plan[l]) : l \in LeavesUnder(plan, q)}

\* The rule of the documents: branches write disjoint properties, or a property
\* to the same final value.
ObeysRule(from, plan, frame) ==
  LET at == Course(plan, from, frame) IN
  \A q \in DOMAIN plan : plan[q].type = "parallel" =>
    \A i, j \in 1 .. plan[q].children :
      \A p \in Touches(plan, Child(q, i)) \cap Touches(plan, Child(q, j)) :
        at[<<Child(q, i), "after">>][p] = at[<<Child(q, j), "after">>][p]

\* A plan that was accepted and whose parallel branches obey the rule ends at
\* the frame it was accepted for, in whatever order its commands come.
RuledPlansConverge ==
  playedPaths = Leaves(tree) /\ ObeysRule(fromState, tree, target) => Matches(playedState, target)

\* ADR 0022, and the comment of applyParallel: every plan that was accepted
\* does, conflicting writes being rejected instead of acquiring an order.
AcceptedPlansConverge == playedPaths = Leaves(tree) => Matches(playedState, target)
=============================================================================
