------------------------ MODULE MCPresentationPlans ------------------------
(***************************************************************************)
(* Every pair of a small catalogue of commands, in sequence or in parallel, *)
(* and every such pair with one of the other kind in it, from a frame with *)
(* an actor in it and an overlay that is open or closed.                   *)
(***************************************************************************)
EXTENDS PresentationPlans, TLC

Catalogue ==
  {[type |-> "actor.hide", actor |-> "a"], [type |-> "actor.show", actor |-> "a", slot |-> "left"],
   [type |-> "actor.move", actor |-> "a", slot |-> "right"],
   [type |-> "actor.expression", actor |-> "a", expression |-> "r1"],
   [type |-> "item.show", item |-> "i"], [type |-> "dialogue.show", line |-> "l1"],
   [type |-> "audio.stop"], [type |-> "overlay.open", overlay |-> "o"]}
Alone == {<<>> :> cmd : cmd \in Catalogue}
Branching(kind, parts) ==
  [q \in {<<>>} \cup UNION {{<<i>> \o s : s \in DOMAIN parts[i]} : i \in DOMAIN parts} |->
     IF q = <<>> THEN [type |-> kind, children |-> Len(parts)] ELSE parts[Head(q)][Tail(q)]]
Pairs(kind, plans) == {Branching(kind, <<l, r>>) : l, r \in plans}
SmallPlans ==
  Pairs("parallel", Alone \cup Pairs("sequence", Alone))
    \cup Pairs("sequence", Alone \cup Pairs("parallel", Alone))
FirstFrames ==
  {[p \in Properties |-> CASE p[1] = "visible" -> TRUE [] p[1] = "slot" -> "left"
                           [] p[1] = "expression" -> "r0" [] p[1] = "overlay" -> open
                           [] p[1] = "item" -> 0 [] p[1] = "music" -> "m" [] OTHER -> "none"] :
     open \in BOOLEAN}
=============================================================================
