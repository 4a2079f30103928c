------------------------------- MODULE DraftLog -------------------------------
(***************************************************************************)
(* What the durable store promises of a project's drafts, without calls,   *)
(* expected revisions or request hashes: a quest is a log of contents that *)
(* grows by one at a time, every content is made from the one before it at *)
(* the moment it is stored, a restore key adds one content ever, and a     *)
(* playtest is a copy of a content of the log.                             *)
(***************************************************************************)
EXTENDS Integers, Sequences

CONSTANTS
  Quests, Contents, ChangeSets, RestoreKeys,
  Compiles(_),         \* whether a content may be stored
  TrialContent(_, _),  \* a content with a change set applied to it
  Refused              \* what that is when a change does not apply

VARIABLES
  log,     \* the contents of each quest, the newest last
  made,    \* the place of the content each restore key added, or 0
  frozen   \* the contents that playtests play

logVars == <<log, made, frozen>>

Init ==
  /\ log = [q \in Quests |-> <<>>]
  /\ made = [q \in Quests |-> [k \in RestoreKeys |-> 0]]
  /\ frozen = <<>>

Add(q, content) == log' = [log EXCEPT ![q] = Append(@, content)]

Create(q, content) ==
  /\ log[q] = <<>>
  /\ Compiles(content)
  /\ Add(q, content)
  /\ UNCHANGED <<made, frozen>>

Edit(q, changes) ==
  LET content == TrialContent(log[q][Len(log[q])], changes) IN
  /\ log[q] # <<>>
  /\ content # Refused /\ Compiles(content)
  /\ Add(q, content)
  /\ UNCHANGED <<made, frozen>>

Restore(q, source, key) ==
  /\ made[q][key] = 0
  /\ Add(q, log[q][source])
  /\ made' = [made EXCEPT ![q][key] = Len(log[q]) + 1]
  /\ UNCHANGED frozen

Freeze(q, place) ==
  /\ frozen' = Append(frozen, [quest |-> q, place |-> place, content |-> log[q][place]])
  /\ UNCHANGED <<log, made>>

Next ==
  \/ \E q \in Quests :
       /\ log'[q] # log[q]
       /\ \/ \E content \in Contents : Create(q, content)
          \/ \E changes \in ChangeSets : Edit(q, changes)
          \/ \E source \in 1..Len(log[q]), key \in RestoreKeys : Restore(q, source, key)
  \/ /\ frozen' # frozen
     /\ \E q \in Quests : \E place \in 1..Len(log[q]) : Freeze(q, place)

Spec == Init /\ [][Next]_logVars
===============================================================================
