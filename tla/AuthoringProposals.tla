-------------------------- MODULE AuthoringProposals --------------------------
(***************************************************************************)
(* Applying an authoring proposal to a draft (packages/control,            *)
(* authoring-proposal.ts): executeApply reserves the idempotency key,      *)
(* edits the draft through ControlStore.applyDraftChanges, and completes   *)
(* the reservation with the application record.  The three are separate    *)
(* transactions, so a crash may fall between any two of them, and another  *)
(* call with the same key may be anywhere.                                 *)
(*                                                                         *)
(* A worker of DraftStore runs an apply: what executeApply knows is in     *)
(* applies[w], and the store call it awaits is calls[w].  People edit the  *)
(* same drafts through the same store.                                     *)
(***************************************************************************)
EXTENDS DraftStore

CONSTANTS
  Proposals,   \* proposals that pass validateProposalShape
  ProposalKeys \* idempotency keys of applies

\* base is the proposal's base revision and baseContent what it hashes to;
\* missing says that the proposal names missing capabilities.
ASSUME ProposalAssumption ==
  Proposals \subseteq [quest : Quests, base : 0..MaxRevision,
                       baseContent : Contents \cup Seq(Blocks),
                       changes : ChangeSets, missing : BOOLEAN]

VARIABLES
  reservations,  \* per key: the proposal it is reserved for and the application
  applies        \* per worker: where executeApply is, and its last answer

proposalVars == <<drafts, restores, validations, playtests, calls, reservations, applies>>

Free == [status |-> "free"]
Pending(p) == [status |-> "pending", proposal |-> p]
Completed(p) == [status |-> "completed", proposal |-> p]

\* What the proposal makes of its base: the deterministic preview.
ExpectedContent(p) == TrialContent(p.baseContent, p.changes)
ExpectedRevision(p) == p.base + 1

AtBase(p) == /\ CurrentRevision(p.quest) = p.base
             /\ ContentOf(p.quest, p.base) = p.baseContent

\* A bug: whatever moved the draft to the expected revision is taken for this proposal.
AtExpectedRevisionOnly(p) == CurrentRevision(p.quest) = ExpectedRevision(p)

AtExpected(p) == /\ CurrentRevision(p.quest) = ExpectedRevision(p)
                 /\ ContentOf(p.quest, ExpectedRevision(p)) = ExpectedContent(p)

NotApplying == [at |-> "idle", answer |-> "none"]
Applying(w) == applies[w].at # "idle"

Finish(w, kind) == applies' = [applies EXCEPT ![w] = [at |-> "idle", answer |-> kind]]
GoTo(w, place) == applies' = [applies EXCEPT ![w].at = place]

-----------------------------------------------------------------------------
\* The reservation is read first: a key held by another proposal is reused, a
\* completed one replays its application.
BeginProposal(w, p, key) ==
  LET r == reservations[key] IN
  /\ Idle(w) /\ ~ Applying(w)
  /\ CASE r.status # "free" /\ r.proposal # p -> Finish(w, "idempotency_key_reused")
       [] r = Completed(p) -> Finish(w, "replay")
       [] r.status = "free" \/ r = Pending(p) ->
            applies' = [applies EXCEPT ![w] =
              [at |-> "previewing", proposal |-> p, key |-> key,
               held |-> (r = Pending(p)), stale |-> FALSE]]
  /\ UNCHANGED vars /\ UNCHANGED reservations

\* previewAuthoringProposal: the base must be the stored one, and the changes
\* are tried on a shadow store.
PreviewProposal(w) ==
  LET p == applies[w].proposal IN
  /\ applies[w].at = "previewing"
  /\ CASE ~ Exists(p.quest) -> Finish(w, "quest_not_found")
       [] Exists(p.quest) /\ ~ HasRevision(p.quest, p.base) -> Finish(w, "revision_not_found")
       [] Exists(p.quest) /\ HasRevision(p.quest, p.base) ->
            CASE ContentOf(p.quest, p.base) # p.baseContent -> Finish(w, "base_snapshot_mismatch")
              [] ContentOf(p.quest, p.base) = p.baseContent ->
                   IF \/ Exhausted(p.base) \/ ExpectedContent(p) = Refused
                      \/ ~ Compiles(ExpectedContent(p))
                   THEN Finish(w, "invalid_proposal")
                   ELSE IF p.missing THEN Finish(w, "missing_capability")
                   ELSE applies' = [applies EXCEPT ![w].at = "deciding",
                                                   ![w].stale = ~ AtBase(p)]
  /\ UNCHANGED vars /\ UNCHANGED reservations

\* A reservation found at the start is a call that did not finish.  If the
\* draft is what it would have made, only the record was missing.
Recover(w) ==
  LET p == applies[w].proposal IN
  /\ applies[w].at = "deciding" /\ applies[w].held
  /\ CASE AtExpected(p) ->
            /\ reservations' = [reservations EXCEPT ![applies[w].key] = Completed(p)]
            /\ Finish(w, "replay")
       [] ~ AtExpected(p) /\ ~ AtBase(p) ->
            Finish(w, "revision_conflict") /\ UNCHANGED reservations
       [] ~ AtExpected(p) /\ AtBase(p) ->
            GoTo(w, "applying") /\ UNCHANGED reservations
  /\ UNCHANGED vars

\* INSERT OR IGNORE: whoever reserved the key first keeps it.
Reserve(w) ==
  LET p == applies[w].proposal
      r == reservations[applies[w].key]
  IN
  /\ applies[w].at = "deciding" /\ ~ applies[w].held
  /\ CASE applies[w].stale ->
            Finish(w, "revision_conflict") /\ UNCHANGED reservations
       [] ~ applies[w].stale /\ r.status = "free" ->
            /\ reservations' = [reservations EXCEPT ![applies[w].key] = Pending(p)]
            /\ GoTo(w, "applying")
       [] ~ applies[w].stale /\ r.status # "free" ->
            /\ IF r.proposal = p THEN GoTo(w, "applying")
               ELSE Finish(w, "idempotency_key_reused")
            /\ UNCHANGED reservations
  /\ UNCHANGED vars

\* The store call: its two halves, and then the record of what it did.
CallStore(w) ==
  LET p == applies[w].proposal IN
  /\ applies[w].at = "applying"
  /\ BeginApply(w, p.quest, p.base, p.changes)
  /\ GoTo(w, "awaiting")
  /\ UNCHANGED reservations

Complete(w) ==
  LET p == applies[w].proposal IN
  /\ applies[w].at = "awaiting" /\ Idle(w)
  /\ IF calls[w].answer = "updated"
     THEN /\ reservations' = [reservations EXCEPT ![applies[w].key] = Completed(p)]
          /\ Finish(w, "applied")
     ELSE /\ Finish(w, calls[w].answer)
          /\ UNCHANGED reservations
  /\ UNCHANGED vars

\* A process that stops keeps the draft and the reservations as they are.
CrashApply(w) ==
  /\ Adapter = "sqlite" /\ Applying(w)
  /\ Finish(w, "lost")
  /\ IF Idle(w) THEN UNCHANGED calls ELSE Reply(w, "lost")
  /\ UNCHANGED tables /\ UNCHANGED reservations

-----------------------------------------------------------------------------
ProposalInit ==
  /\ Init
  /\ reservations = [k \in ProposalKeys |-> Free]
  /\ applies = [w \in Workers |-> NotApplying]

\* People create and edit quests with workers of their own.  (A restore moves
\* the draft as an edit does; DraftStore has them.)
PersonStep(w) ==
  /\ ~ Applying(w)
  /\ \/ \E q \in Quests, content \in Contents : BeginCreate(w, q, content)
     \/ \E q \in Quests, base \in Revisions, changes \in ChangeSets :
          BeginApply(w, q, base, changes)
     \/ Crash(w)
  /\ UNCHANGED <<reservations, applies>>

\* A suspended store call resumes, for a person or for an apply.
StoreStep(w) ==
  /\ EndCreate(w) \/ EndApply(w)
  /\ UNCHANGED <<reservations, applies>>

ProposalNext ==
  \E w \in Workers :
    \/ PersonStep(w)
    \/ StoreStep(w)
    \/ \E p \in Proposals, key \in ProposalKeys : BeginProposal(w, p, key)
    \/ PreviewProposal(w)
    \/ Recover(w)
    \/ Reserve(w)
    \/ CallStore(w)
    \/ Complete(w)
    \/ CrashApply(w)

ProposalSpec == ProposalInit /\ [][ProposalNext]_proposalVars

-----------------------------------------------------------------------------

\* The snapshots a proposal's change set made on its base.
MadeBy(p) == {i \in DOMAIN drafts[p.quest] :
                drafts[p.quest][i].cause = ApplyRequest(p.quest, p.base, p.changes)}

\* An application record is true for ever: its revision exists and holds what
\* the proposal makes of its base.  (executeApply throws "corrupt completed
\* authoring proposal result" when it finds otherwise.)  And a proposal lands at
\* most once, whatever keys it is sent with, however often it is retried and
\* wherever a process stops ("duplicate model output cannot re-apply an already
\* applied proposal").
ApplicationsTrue ==
  /\ \A k \in ProposalKeys :
       reservations[k].status = "completed" =>
         LET p == reservations[k].proposal IN
         /\ HasRevision(p.quest, ExpectedRevision(p))
         /\ ContentOf(p.quest, ExpectedRevision(p)) = ExpectedContent(p)
         /\ ContentOf(p.quest, p.base) = p.baseContent
  /\ \A p \in Proposals : Cardinality(MadeBy(p)) <= 1
=============================================================================
