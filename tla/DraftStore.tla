------------------------------ MODULE DraftStore ------------------------------
(***************************************************************************)
(* The authoring drafts of one project (packages/control, ControlStore):   *)
(* quests with an append-only history of snapshots, edits and restores     *)
(* under an expected-current check, validations, and playtests frozen from *)
(* one validated snapshot.                                                 *)
(*                                                                         *)
(* createQuest, applyDraftChanges, restoreDraft and validateDraft suspend  *)
(* while the quest compiler runs (await buildSnapshot / compileSnapshot),  *)
(* so each is a Begin action, which is the code before the await, and an   *)
(* End action, which is the code after it.  What other calls do in between *)
(* is what this module is about.  A call is identified by the worker that  *)
(* runs it; a crash loses the calls in flight and none of the tables.      *)
(*                                                                         *)
(* Adapter chooses between the two stores where they differ: "memory" is   *)
(* MemoryControlStore, "sqlite" is SQLiteControlStore, whose code after    *)
(* the await is one BEGIN IMMEDIATE transaction.                           *)
(***************************************************************************)
EXTENDS Integers, Sequences, FiniteSets

CONSTANTS
  Quests,       \* quest ids of the project
  BlockIds,     \* block ids
  Blocks,       \* blocks: two with one id are versions of the same block
  IdOf,         \* the id of each block
  Needs,        \* the ids each block refers to
  Contents,     \* initialBlocks a createQuest may bring
  ChangeSets,   \* change sets an editor may send
  RestoreKeys,  \* idempotency keys of restores
  Workers,      \* calls that can be in flight at once
  Adapter,      \* "memory" or "sqlite"
  MaxRevision,  \* Number.MAX_SAFE_INTEGER: the last draft revision
  MaxRecords,   \* how many validations and playtests a run makes
  Refused       \* a change that does not apply

\* A title is text: quest.title.set changes nothing the properties tell apart.
Change == [kind : {"block.add", "block.replace"}, block : Blocks]
            \cup [kind : {"block.remove"}, id : BlockIds]

ASSUME ConstantAssumption ==
  /\ IdOf \in [Blocks -> BlockIds]
  /\ Needs \in [Blocks -> SUBSET BlockIds]
  /\ Contents \subseteq Seq(Blocks)
  /\ ChangeSets \subseteq Seq(Change)
  /\ Refused \notin Seq(Blocks)
  /\ Adapter \in {"memory", "sqlite"}
  /\ MaxRevision \in Nat /\ MaxRecords \in Nat

VARIABLES
  drafts,       \* per quest, its snapshots: revision r at position r + 1
  restores,     \* restore idempotency, per quest and key
  validations,  \* the validation records, in the order of their ids
  playtests,    \* the frozen playtests, in the order of their ids
  calls         \* what each worker is doing, and the last answer it gave

vars == <<drafts, restores, validations, playtests, calls>>

Exists(q) == drafts[q] # <<>>
CurrentRevision(q) == Len(drafts[q]) - 1
HasRevision(q, r) == r \in 0..CurrentRevision(q)
ContentOf(q, r) == drafts[q][r + 1].content

-----------------------------------------------------------------------------
(* The trial edit and the compiler.                                        *)

Ids(content) == {IdOf[content[i]] : i \in DOMAIN content}

\* compileQuest and the reference check: a draft has a block, and refers only
\* to blocks it has.
Compiles(content) ==
  /\ content # <<>>
  /\ \A i \in DOMAIN content : Needs[content[i]] \subseteq Ids(content)

AddBlock(content, b) ==
  IF IdOf[b] \in Ids(content) THEN Refused ELSE Append(content, b)

ReplaceBlock(content, b) ==
  IF IdOf[b] \notin Ids(content) THEN Refused
  ELSE [i \in DOMAIN content |-> IF IdOf[content[i]] = IdOf[b] THEN b ELSE content[i]]

\* Removing a block others refer to is refused.
RemoveBlock(content, id) ==
  LET others == SelectSeq(content, LAMBDA c : IdOf[c] # id) IN
  IF \/ id \notin Ids(content)
     \/ \E i \in DOMAIN others : id \in Needs[others[i]]
  THEN Refused ELSE others

\* One change on the trial copy.
TrialChange(content, change) ==
  CASE content = Refused -> Refused
    [] content # Refused /\ change.kind = "block.add" -> AddBlock(content, change.block)
    [] content # Refused /\ change.kind = "block.replace" -> ReplaceBlock(content, change.block)
    [] content # Refused /\ change.kind = "block.remove" -> RemoveBlock(content, change.id)

\* All changes of a set, in order, or none.
TrialContent(content, changes) ==
  LET trial[i \in 0..Len(changes)] ==
        IF i = 0 THEN content ELSE TrialChange(trial[i - 1], changes[i])
  IN  trial[Len(changes)]

-----------------------------------------------------------------------------
(* Requests, and the worker that serves one.                               *)

CreateRequest(q, content) == [op |-> "create", quest |-> q, content |-> content]
ApplyRequest(q, base, changes) ==
  [op |-> "apply", quest |-> q, base |-> base, changes |-> changes]
RestoreRequest(q, base, source, key) ==
  [op |-> "restore", quest |-> q, base |-> base, source |-> source, key |-> key]
ValidateRequest(q, r) == [op |-> "validate", quest |-> q, revision |-> r]

\* The request hash of a restore is derived by the server from these three.
RequestHash(request) == <<request.quest, request.source, request.base>>

NoRequest == [op |-> "none"]
Idle(w) == calls[w].at = "idle"

Suspend(w, request, content) ==
  calls' = [calls EXCEPT ![w] =
    [at |-> "compiling", request |-> request, content |-> content, answer |-> "none"]]

\* The answer of a call, by its kind.
Reply(w, kind) ==
  calls' = [calls EXCEPT ![w] =
    [at |-> "idle", request |-> NoRequest, content |-> <<>>, answer |-> kind]]

tables == <<drafts, restores, validations, playtests>>

-----------------------------------------------------------------------------
(* createQuest                                                             *)

BeginCreate(w, q, content) ==
  LET request == CreateRequest(q, content) IN
  /\ Idle(w)
  /\ CASE Adapter = "memory" /\ Exists(q) -> Reply(w, "quest_exists")
       [] ~ (Adapter = "memory" /\ Exists(q)) ->
            IF Compiles(content) THEN Suspend(w, request, content)
            ELSE Reply(w, "invalid_quest")
  /\ UNCHANGED tables

\* A bug: INSERT OR REPLACE; whether the quest exists is not looked at again.
EndCreateOver(w) ==
  LET request == calls[w].request IN
  /\ calls[w].at = "compiling" /\ request.op = "create"
  /\ drafts' = [drafts EXCEPT ![request.quest] =
                   <<[content |-> calls[w].content, cause |-> request]>>]
  /\ Reply(w, "created")
  /\ UNCHANGED <<restores, validations, playtests>>

\* The SQLite transaction looks again whether the quest exists; the memory
\* store sets the quest whatever happened while it was suspended.  (Calls in
\* flight on a quest replaced so would go on with the object they hold; the
\* run of the memory store ends at the replacement.)
EndCreate(w) ==
  LET request == calls[w].request
      q == request.quest
  IN
  /\ calls[w].at = "compiling" /\ request.op = "create"
  /\ IF Adapter = "sqlite" /\ Exists(q)
     THEN /\ Reply(w, "quest_exists")
          /\ UNCHANGED drafts
     ELSE /\ drafts' = [drafts EXCEPT ![q] =
                          <<[content |-> calls[w].content, cause |-> request]>>]
          /\ Reply(w, "created")
  /\ UNCHANGED <<restores, validations, playtests>>

-----------------------------------------------------------------------------
(* applyDraftChanges                                                       *)

\* Number.MAX_SAFE_INTEGER: no revision can follow this one.
Exhausted(revision) == revision = MaxRevision

BeginApply(w, q, base, changes) ==
  LET request == ApplyRequest(q, base, changes)
      content == TrialContent(ContentOf(q, base), changes)
  IN
  /\ Idle(w)
  /\ UNCHANGED tables
  /\ CASE ~ Exists(q) -> Reply(w, "quest_not_found")
       [] Exists(q) /\ base # CurrentRevision(q) ->
            Reply(w, "revision_conflict")
       [] Exists(q) /\ base = CurrentRevision(q) ->
            IF Exhausted(base) \/ content = Refused
            THEN Reply(w, "invalid_change_set")
            ELSE IF Compiles(content) THEN Suspend(w, request, content)
                 ELSE Reply(w, "invalid_change_set")

\* A bug: a candidate built on an older revision is put on top of a newer one.
EndApplyOnAnyRevision(w) ==
  LET request == calls[w].request
      q == request.quest
  IN
  /\ calls[w].at = "compiling" /\ request.op = "apply"
  /\ drafts' = [drafts EXCEPT ![q] =
       Append(@, [content |-> calls[w].content, cause |-> request])]
  /\ Reply(w, "updated")
  /\ UNCHANGED <<restores, validations, playtests>>

EndApply(w) ==
  LET request == calls[w].request
      q == request.quest
  IN
  /\ calls[w].at = "compiling" /\ request.op = "apply"
  /\ IF CurrentRevision(q) # request.base
     THEN /\ Reply(w, "revision_conflict")
          /\ UNCHANGED drafts
     ELSE /\ drafts' = [drafts EXCEPT ![q] =
               Append(@, [content |-> calls[w].content, cause |-> request])]
          /\ Reply(w, "updated")
  /\ UNCHANGED <<restores, validations, playtests>>

-----------------------------------------------------------------------------
(* restoreDraft                                                            *)

NotRestored == [hash |-> <<>>, revision |-> -1]
Restored(q, key) == restores[q][key] # NotRestored

\* What a key that has already restored something answers.
ReplyFromRecord(w, request) ==
  LET record == restores[request.quest][request.key] IN
  IF record.hash = RequestHash(request)
  THEN Reply(w, "replay")
  ELSE Reply(w, "idempotency_key_reused")

BeginRestore(w, q, base, source, key) ==
  LET request == RestoreRequest(q, base, source, key) IN
  /\ Idle(w)
  /\ UNCHANGED tables
  /\ CASE ~ Exists(q) -> Reply(w, "quest_not_found")
       [] Exists(q) /\ Restored(q, key) -> ReplyFromRecord(w, request)
       [] Exists(q) /\ ~ Restored(q, key) /\ ~ HasRevision(q, source) ->
            Reply(w, "source_revision_not_found")
       [] Exists(q) /\ ~ Restored(q, key) /\ HasRevision(q, source) ->
            CASE Adapter = "memory" /\ base # CurrentRevision(q) ->
                   Reply(w, "revision_conflict")
              [] ~ (Adapter = "memory" /\ base # CurrentRevision(q)) ->
                   IF Exhausted(base) THEN Reply(w, "invalid_request")
                   ELSE Suspend(w, request, ContentOf(q, source))

\* A bug: the idempotency record is left to a later transaction.
WriteRestoreUnrecorded(w, request) ==
  /\ drafts' = [drafts EXCEPT ![request.quest] =
       Append(@, [content |-> calls[w].content, cause |-> request])]
  /\ Reply(w, "restored") /\ UNCHANGED restores

\* The snapshot and its idempotency record are written together.
WriteRestore(w, request) ==
  LET q == request.quest
      revision == request.base + 1
  IN
  /\ drafts' = [drafts EXCEPT ![q] =
       Append(@, [content |-> calls[w].content, cause |-> request])]
  /\ restores' = [restores EXCEPT ![q][request.key] =
       [hash |-> RequestHash(request), revision |-> revision]]
  /\ Reply(w, "restored")

EndRestore(w) ==
  LET request == calls[w].request
      q == request.quest
  IN
  /\ calls[w].at = "compiling" /\ request.op = "restore"
  /\ CASE Restored(q, request.key) ->
            ReplyFromRecord(w, request) /\ UNCHANGED <<drafts, restores>>
       [] ~ Restored(q, request.key) /\ CurrentRevision(q) # request.base ->
            /\ Reply(w, "revision_conflict")
            /\ UNCHANGED <<drafts, restores>>
       [] ~ Restored(q, request.key) /\ CurrentRevision(q) = request.base ->
            WriteRestore(w, request)
  /\ UNCHANGED <<validations, playtests>>

-----------------------------------------------------------------------------
(* validateDraft and createPlaytest                                        *)

BeginValidate(w, q, r) ==
  LET request == ValidateRequest(q, r) IN
  /\ Idle(w)
  /\ UNCHANGED tables
  /\ CASE ~ Exists(q) -> Reply(w, "quest_not_found")
       [] Exists(q) /\ ~ HasRevision(q, r) -> Reply(w, "revision_not_found")
       [] Exists(q) /\ HasRevision(q, r) -> Suspend(w, request, ContentOf(q, r))

\* A stored snapshot compiled when it was stored, so it compiles: the record
\* is "valid".
EndValidate(w) ==
  LET request == calls[w].request IN
  /\ calls[w].at = "compiling" /\ request.op = "validate"
  /\ Len(validations) < MaxRecords
  /\ validations' = Append(validations,
       [quest |-> request.quest, revision |-> request.revision,
        content |-> calls[w].content])
  /\ Reply(w, "validated")
  /\ UNCHANGED <<drafts, restores, playtests>>

\* The validation must be of this quest, this revision and this content.
Validates(v, q, r) ==
  validations[v] = [quest |-> q, revision |-> r, content |-> ContentOf(q, r)]

CreatePlaytest(w, q, r, v) ==
  LET request == ValidateRequest(q, r) IN
  /\ Idle(w)
  /\ Exists(q) /\ HasRevision(q, r)
  /\ Len(playtests) < MaxRecords
  /\ IF Validates(v, q, r)
     THEN /\ playtests' = Append(playtests,
               [quest |-> q, revision |-> r, content |-> ContentOf(q, r),
                validation |-> v])
          /\ Reply(w, "playtest")
     ELSE /\ Reply(w, "validation_snapshot_mismatch")
          /\ UNCHANGED playtests
  /\ UNCHANGED <<drafts, restores, validations>>

\* A process that stops loses its calls in flight, and an open transaction
\* with them; the SQLite tables stay.
Crash(w) ==
  /\ Adapter = "sqlite" /\ ~ Idle(w)
  /\ Reply(w, "lost")
  /\ UNCHANGED tables

-----------------------------------------------------------------------------
Init ==
  /\ drafts = [q \in Quests |-> <<>>]
  /\ restores = [q \in Quests |-> [k \in RestoreKeys |-> NotRestored]]
  /\ validations = <<>>
  /\ playtests = <<>>
  /\ calls = [w \in Workers |->
       [at |-> "idle", request |-> NoRequest, content |-> <<>>, answer |-> "none"]]

Revisions == 0..MaxRevision

Next ==
  \E w \in Workers :
    \/ \E q \in Quests, content \in Contents : BeginCreate(w, q, content)
    \/ \E q \in Quests, base \in Revisions, changes \in ChangeSets :
         BeginApply(w, q, base, changes)
    \/ \E q \in Quests, base \in Revisions, source \in Revisions, key \in RestoreKeys :
         BeginRestore(w, q, base, source, key)
    \/ \E q \in Quests, r \in Revisions : BeginValidate(w, q, r)
    \/ EndCreate(w)
    \/ EndApply(w)
    \/ EndRestore(w)
    \/ EndValidate(w)
    \/ \E q \in Quests, r \in Revisions, v \in DOMAIN validations :
         CreatePlaytest(w, q, r, v)
    \/ Crash(w)

Spec == Init /\ [][Next]_vars

-----------------------------------------------------------------------------
(* What must hold.                                                         *)

\* Every snapshot follows from what its author saw: an edit is the change set
\* applied to the revision just before it, a restore is the content of its
\* source, each was made against exactly that base, and the result compiles.
\* (applyDraftChanges, restoreDraft: the check after the await.)
EditsCompose ==
  \A q \in Quests : \A i \in DOMAIN drafts[q] :
    LET s == drafts[q][i] IN
    /\ Compiles(s.content)
    /\ CASE s.cause.op = "create" -> i = 1 /\ s.content = s.cause.content
         [] s.cause.op = "apply" ->
              /\ i > 1 /\ s.cause.base = i - 2
              /\ s.content = TrialContent(drafts[q][i - 1].content, s.cause.changes)
         [] s.cause.op = "restore" ->
              /\ i > 1 /\ s.cause.base = i - 2 /\ s.cause.source <= i - 2
              /\ s.content = ContentOf(q, s.cause.source)

\* A restore key has made at most one revision, and its record names that
\* revision: a retry after a lost answer cannot restore again.
RestoresOnce ==
  \A q \in Quests, k \in RestoreKeys :
    LET made == {i \in DOMAIN drafts[q] :
                   drafts[q][i].cause.op = "restore" /\ drafts[q][i].cause.key = k}
    IN  made = IF Restored(q, k) THEN {restores[q][k].revision + 1} ELSE {}

\* A playtest is the snapshot of its revision, validated as that very content,
\* whatever was edited or restored later.
PlaytestsFrozen ==
  \A p \in DOMAIN playtests :
    LET t == playtests[p] IN
    /\ HasRevision(t.quest, t.revision) /\ t.content = ContentOf(t.quest, t.revision)
    /\ validations[t.validation] =
         [quest |-> t.quest, revision |-> t.revision, content |-> t.content]

\* History is append-only: no step rewinds, rewrites or drops a revision, and
\* no step adds more than one; and so a playtest stays what was validated,
\* whatever is edited or restored later.
AppendOnly ==
  [][/\ \A q \in Quests :
          /\ Len(drafts'[q]) \in {Len(drafts[q]), Len(drafts[q]) + 1}
          /\ SubSeq(drafts'[q], 1, Len(drafts[q])) = drafts[q]
     /\ playtests' # playtests => PlaytestsFrozen']_vars

-----------------------------------------------------------------------------
(* The log of contents that a store stands for.                            *)

LogBar == [q \in Quests |-> [i \in 1..Len(drafts[q]) |-> drafts[q][i].content]]
MadeBar == [q \in Quests |-> [k \in RestoreKeys |-> restores[q][k].revision + 1]]
FrozenBar == [p \in 1..Len(playtests) |->
  [quest |-> playtests[p].quest, place |-> playtests[p].revision + 1,
   content |-> playtests[p].content]]

Log == INSTANCE DraftLog WITH log <- LogBar, made <- MadeBar, frozen <- FrozenBar

\* The durable store implements the log: however calls overlap while the compiler
\* runs, each edit, restore and creation takes effect at one moment, on the newest
\* content of that moment, or not at all, and nothing stored ever changes
\* (SQLiteControlStore: the code after each await is one transaction).
DraftsAreALog == Log!Spec
=============================================================================
