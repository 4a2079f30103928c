---------------------------- MODULE MCDraftStore ----------------------------
(***************************************************************************)
(* The drafts of a quest, and the copies made of quests.  The initial      *)
(* state says which of them moves.                                         *)
(*                                                                         *)
(* DraftStore on a place, and a person in two versions: one is there, the  *)
(* other refers to nothing.  QuestCopies on one quest that an author       *)
(* changes while two calls, under two keys, copy it to one destination,    *)
(* that the author may take for himself.                                   *)
(***************************************************************************)
EXTENDS DraftStore, QuestCopies, TLC

CONSTANTS place, person, hermit, w1, w2, k1, k2

MCBlocks == {place, person, hermit}
MCIdOf == (place :> "place") @@ (person :> "person") @@ (hermit :> "person")
MCNeeds == (place :> {}) @@ (person :> {"place"}) @@ (hermit :> {})
MCContents == {<<person, place>>, <<person>>}
Add(b) == [kind |-> "block.add", block |-> b]
Replace(b) == [kind |-> "block.replace", block |-> b]
Remove(id) == [kind |-> "block.remove", id |-> id]
\* An edit that applies alone, one that needs the person there, and one whose
\* first change depends on who refers to the place and whose last may fail.
MCChangeSets == {<<Add(person)>>, <<Replace(hermit)>>,
                 <<Remove("place"), Remove("person")>>, <<Remove("person")>>}

Saved(kind, id, to) == [id |-> <<id>>, kind |-> kind, to |-> to]
Hall == Saved("core.location", "hall", NoBlock)
Yard == Saved("core.location", "yard", NoBlock)
Guide == Saved("core.character", "guide", <<"hall">>)
\* A quest with a reference, and one whose entry is not its first block.
MCVersions == {[title |-> "first", entry |-> <<"hall">>, blocks |-> <<Hall, Guide>>],
               [title |-> "second", entry |-> <<"yard">>, blocks |-> <<Hall, Yard>>]}

VARIABLE part

\* The copiers are the workers, and their keys those of the restores.
Symmetry == Permutations(Workers) \cup Permutations(RestoreKeys)

DraftsVars == <<part, vars, copyVars>>

\* The quest to be copied begins as its first version.
DraftsInit ==
  /\ part \in {"drafts", "copies"}
  /\ Init /\ CopiesInit
  /\ \A q \in Originals : SnapshotOf(q, 0).title = "first"

DraftsNext ==
  /\ \/ part = "drafts" /\ Next /\ UNCHANGED copyVars
     \/ part = "copies" /\ CopiesNext /\ UNCHANGED vars
  /\ UNCHANGED part

DraftsSpec == DraftsInit /\ [][DraftsNext]_DraftsVars
=============================================================================
