----------------------------- MODULE MCControl -----------------------------
(***************************************************************************)
(* The control server: proposals over the draft store, and the accounts    *)
(* and roles that guard its routes.  They share no state; the initial      *)
(* state says which of them moves.                                         *)
(*                                                                         *)
(* Two proposals with the same base, and one person editing; two users, of *)
(* one project, with two sessions.                                         *)
(***************************************************************************)
EXTENDS AuthoringProposals, ControlAccess, TLC

CONSTANTS place, person, letter, w1, w2, k1, k2

MCBlocks == {place, person, letter}
MCIdOf == (place :> "place") @@ (person :> "person") @@ (letter :> "letter")
MCNeeds == (place :> {}) @@ (person :> {"place"}) @@ (letter :> {})
MCContents == {<<place>>}
Add(b) == [kind |-> "block.add", block |-> b]
Remove(id) == [kind |-> "block.remove", id |-> id]
MCChangeSets == {<<Add(person)>>, <<Add(letter)>>, <<Remove("letter")>>}
Proposed(changes, missing) ==
  [quest |-> "quest", base |-> 0, baseContent |-> <<place>>, changes |-> changes,
   missing |-> missing]
\* One that applies, one that another person's edit can coincide with, and one
\* that names a missing capability.
MCProposals == {Proposed(<<Add(person)>>, FALSE), Proposed(<<Add(letter)>>, FALSE),
                Proposed(<<Remove("letter")>>, TRUE)}

VARIABLE part

\* Workers are the users and proposal keys the sessions of the other part.
Symmetry == Permutations(Workers) \cup Permutations(ProposalKeys) \cup Permutations(AccessCalls)

ControlVars == <<part, proposalVars, accessVars>>

ControlInit == part \in {"proposals", "access"} /\ ProposalInit /\ AccessInit

ControlNext ==
  /\ \/ part = "proposals" /\ ProposalNext /\ UNCHANGED accessVars
     \/ part = "access" /\ AccessNext /\ UNCHANGED proposalVars
  /\ UNCHANGED part

ControlSpec == ControlInit /\ [][ControlNext]_ControlVars
=============================================================================
