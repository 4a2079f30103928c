---------------------------- MODULE QuestCopies ----------------------------
(***************************************************************************)
(* Copies of quests inside one project: cloneQuest, and the import of an   *)
(* exported package (packages/control, quest-clone.ts, portability-store.ts*)
(* lhquest-package.ts, quest-export.ts), over the SQLite store.            *)
(*                                                                         *)
(* A copy is made under an idempotency key.  Its first call reserves the   *)
(* key, which pins the request and, of a clone, the source revision; then  *)
(* it creates the quest; then it completes the reservation.  Each is a     *)
(* write of its own, with reads awaited in between, so that other calls,   *)
(* other authors and a crash come in anywhere.  A call with a key already  *)
(* reserved goes on from what the row says.                                *)
(***************************************************************************)
EXTENDS Integers, Sequences

CONSTANTS
  Originals,      \* quests an author made before the copies
  Destinations,   \* ids a copy may ask for
  Titles,         \* titles a clone may ask for
  Versions,       \* what an author may save as a revision
  CopyKeys,       \* idempotency keys
  Copiers,        \* calls that can be in flight at once
  LastRevision    \* bound on the revisions of a quest

NoBlock == <<>>   \* of a block that refers to no other

AllQuests == Originals \cup Destinations

\* What is stored as a draft: every block has an id of its own, and refers to a
\* block of the draft if it refers to one.
IsDraft(draft) ==
  \A i \in DOMAIN draft.blocks :
    /\ DOMAIN draft.blocks[i] = {"id", "kind", "to"}
    /\ draft.blocks[i].id # NoBlock
    /\ \A j \in DOMAIN draft.blocks : draft.blocks[j].id = draft.blocks[i].id => j = i
    /\ draft.blocks[i].to # NoBlock =>
         \E j \in DOMAIN draft.blocks : draft.blocks[j].id = draft.blocks[i].to

\* clonedBlockId hashes these four.
ClonedId(source, revision, dest, id) ==
  IF id = NoBlock THEN NoBlock ELSE <<source, revision, dest, id>>

\* No block of a draft of q has the id that a clone of it gives to one.
IdsApart(q, draft) ==
  \A i, j \in DOMAIN draft.blocks : \A r \in 0..LastRevision : \A dest \in Destinations :
    ClonedId(q, r, dest, draft.blocks[i].id) # draft.blocks[j].id

ASSUME CopyAssumption ==
  /\ LastRevision \in Nat
  /\ Originals \cap Destinations = {}
  /\ \A v \in Versions : IsDraft(v) /\ \A q \in AllQuests : IdsApart(q, v)

VARIABLES
  histories,         \* per quest, its snapshots: revision r at position r + 1
  copyReservations,  \* the rows of the idempotency tables, and what each says
  copiers,           \* what each call is doing
  copied             \* auxiliary: the answers that named a copy, or failed

copyVars == <<histories, copyReservations, copiers, copied>>

IsThere(q) == histories[q] # <<>>
SnapshotOf(q, r) == histories[q][r + 1]
Latest(q) == Len(histories[q]) - 1

-----------------------------------------------------------------------------
(* Requests and packages.                                                  *)

\* buildDraftQuestExport: the package of one snapshot, which holds its content.
\* The archive may be damaged on its way.
Package(q, r, intact) == [quest |-> q, revision |-> r, intact |-> intact]
ContentIn(package) == SnapshotOf(package.quest, package.revision)

NoPackage == [intact |-> FALSE]

CloneRequest(source, dest, title, key) ==
  [op |-> "clone", scope |-> source, dest |-> dest, title |-> title,
   package |-> NoPackage, key |-> key]
ImportRequest(package, dest, key) ==
  [op |-> "import", scope |-> "project", dest |-> dest, title |-> "",
   package |-> package, key |-> key]

\* The row of a request, and the hash that recognises the request in it.
Row(request) == <<request.op, request.scope, request.key>>
HashOf(request) ==
  [dest |-> request.dest, title |-> request.title, package |-> request.package]

NoReservation == [hash |-> [dest |-> {}], revision |-> 0, status |-> "none"]
PendingRow(request, revision) ==
  [hash |-> HashOf(request), revision |-> revision, status |-> "pending"]
Held(request) ==
  IF Row(request) \in DOMAIN copyReservations THEN copyReservations[Row(request)] ELSE NoReservation

-----------------------------------------------------------------------------
(* What a copy is built of.                                                *)

\* buildCloneSpec: every id and every reference to one is mapped.  A stored
\* draft refers only to blocks it has, so the map has them all.
CloneOf(content, source, revision, dest, title) ==
  LET new(id) == ClonedId(source, revision, dest, id) IN
  [title |-> title, entry |-> new(content.entry),
   blocks |-> [i \in DOMAIN content.blocks |->
                 [content.blocks[i] EXCEPT !.id = new(@), !.to = new(@)]]]

\* A bug: the clone is built of whatever the source has become meanwhile.
BuiltOfCurrent(request, revision) ==
  IF request.op = "clone"
  THEN CloneOf(SnapshotOf(request.scope, Latest(request.scope)), request.scope, revision,
               request.dest, request.title)
  ELSE ContentIn(request.package)

\* A package is imported as it is.
Built(request, revision) ==
  IF request.op = "clone"
  THEN CloneOf(SnapshotOf(request.scope, revision), request.scope, revision,
               request.dest, request.title)
  ELSE ContentIn(request.package)

-----------------------------------------------------------------------------
(* executeClone and executeImport.                                         *)

AtRest == [at |-> "idle"]
GoesOn(w, at, request, held) ==
  copiers' = [copiers EXCEPT ![w] = [at |-> at, request |-> request, held |-> held]]
Refuses(w) == copiers' = [copiers EXCEPT ![w] = AtRest] /\ UNCHANGED copied
Tells(w, kind, request, held) ==
  /\ copiers' = [copiers EXCEPT ![w] = AtRest]
  /\ copied' = copied \cup {[kind |-> kind, request |-> request,
                             revision |-> held.revision]}
Completes(request) ==
  copyReservations' = [copyReservations EXCEPT ![Row(request)].status = "completed"]

\* The key is looked up; of an import only a reused one is noticed here, for
\* the archive is read before anything else is done.
BeginCopy(w, request) ==
  LET row == Held(request) IN
  /\ copiers[w] = AtRest
  /\ IF row # NoReservation /\ row.hash # HashOf(request)
     THEN Refuses(w)
     ELSE /\ GoesOn(w, IF request.op = "import" THEN "reading"
                     ELSE IF row = NoReservation THEN "looking" ELSE "comparing",
                  request, row)
          /\ UNCHANGED copied
  /\ UNCHANGED <<histories, copyReservations>>

\* parseLhquestDraftPackage: checksums and content hashes disown a damaged one.
ReadArchive(w) ==
  LET call == copiers[w] IN
  /\ call.at = "reading"
  /\ IF call.request.package.intact
     THEN /\ GoesOn(w, IF call.held = NoReservation THEN "checking" ELSE "comparing",
                  call.request, call.held)
          /\ UNCHANGED copied
     ELSE Refuses(w)
  /\ UNCHANGED <<histories, copyReservations>>

\* A clone is of the revision that is current now.
FindSource(w) ==
  LET call == copiers[w] IN
  /\ call.at = "looking"
  /\ IF IsThere(call.request.scope)
     THEN /\ GoesOn(w, "checking", call.request,
                  [NoReservation EXCEPT !.revision = Latest(call.request.scope)])
          /\ UNCHANGED copied
     ELSE Refuses(w)
  /\ UNCHANGED <<histories, copyReservations>>

\* If the id is free the key is reserved; another call may have been first, and
\* then its row decides.
ReserveKey(w) ==
  LET call == copiers[w]
      row == Held(call.request)
      stored == IF row = NoReservation THEN PendingRow(call.request, call.held.revision) ELSE row
  IN
  /\ call.at = "checking"
  /\ IF IsThere(call.request.dest)
     THEN Refuses(w) /\ UNCHANGED copyReservations
     ELSE /\ copyReservations' = [r \in DOMAIN copyReservations \cup {Row(call.request)} |->
                                    IF r = Row(call.request) THEN stored ELSE copyReservations[r]]
          /\ IF stored.hash = HashOf(call.request)
             THEN GoesOn(w, "comparing", call.request, stored) /\ UNCHANGED copied
             ELSE Refuses(w)
  /\ UNCHANGED histories

Matches(call) ==
  /\ IsThere(call.request.dest)
  /\ SnapshotOf(call.request.dest, 0) = Built(call.request, call.held.revision)

\* The quest is found as this copy makes it: the call completes what another,
\* or an earlier try, has made.
AnswersReplay(w, call) ==
  IF Matches(call)
  THEN Completes(call.request) /\ Tells(w, "replay", call.request, call.held)
  ELSE Refuses(w) /\ UNCHANGED copyReservations

\* Revision 0 of the destination is read.  A completed row without its copy is
\* corrupt: the call throws.
CompareFirst(w) ==
  LET call == copiers[w] IN
  /\ call.at = "comparing"
  /\ CASE call.held.status = "completed" /\ ~ Matches(call) ->
            Tells(w, "corrupt", call.request, call.held) /\ UNCHANGED copyReservations
       [] call.held.status # "completed" /\ ~ IsThere(call.request.dest) ->
            GoesOn(w, "creating", call.request, call.held) /\ UNCHANGED <<copyReservations, copied>>
       [] OTHER -> AnswersReplay(w, call)
  /\ UNCHANGED histories

\* createQuest, with its own transaction.
CreateCopy(w) ==
  LET call == copiers[w] IN
  /\ call.at = "creating"
  /\ IF IsThere(call.request.dest)
     THEN GoesOn(w, "raced", call.request, call.held) /\ UNCHANGED histories
     ELSE /\ histories' = [histories EXCEPT ![call.request.dest] =
                             <<Built(call.request, call.held.revision)>>]
          /\ GoesOn(w, "created", call.request, call.held)
  /\ UNCHANGED <<copyReservations, copied>>

CompleteCopy(w) ==
  LET call == copiers[w] IN
  /\ call.at = "created"
  /\ Completes(call.request)
  /\ Tells(w, "made", call.request, call.held)
  /\ UNCHANGED histories

\* Someone else has created the destination meanwhile.
CompareRaced(w) == copiers[w].at = "raced" /\ AnswersReplay(w, copiers[w]) /\ UNCHANGED histories

-----------------------------------------------------------------------------
(* Authors, and the end of the process.                                    *)

\* An author makes a quest of his own, or saves the next revision of one.
AuthorSaves(q, content) ==
  /\ Len(histories[q]) <= LastRevision
  /\ histories' = [histories EXCEPT ![q] = Append(@, content)]
  /\ UNCHANGED <<copyReservations, copiers, copied>>

\* A crash loses the calls and no row.
CrashCopies ==
  /\ \E w \in Copiers : copiers[w] # AtRest
  /\ copiers' = [w \in Copiers |-> AtRest]
  /\ UNCHANGED <<histories, copyReservations, copied>>

AsksClone(w) == \E q \in AllQuests, dest \in Destinations, title \in Titles, key \in CopyKeys :
  q # dest /\ BeginCopy(w, CloneRequest(q, dest, title, key))
AsksImport(w) ==
  \E q \in Originals : \E r \in 0..Latest(q) :
    \E intact \in BOOLEAN, dest \in Destinations, key \in CopyKeys :
      BeginCopy(w, ImportRequest(Package(q, r, intact), dest, key))

CopiesInit ==
  /\ histories \in [AllQuests -> {<<>>} \cup {<<v>> : v \in Versions}]
  /\ \A q \in AllQuests : IsThere(q) <=> q \in Originals
  /\ copyReservations = <<>>
  /\ copiers = [w \in Copiers |-> AtRest]
  /\ copied = {}

CopiesNext ==
  \/ \E w \in Copiers :
       \/ AsksClone(w) \/ AsksImport(w) \/ ReadArchive(w) \/ FindSource(w) \/ ReserveKey(w)
       \/ CompareFirst(w) \/ CreateCopy(w) \/ CompleteCopy(w) \/ CompareRaced(w)
  \/ \E q \in AllQuests, content \in Versions : AuthorSaves(q, content)
  \/ CrashCopies

CopiesSpec == CopiesInit /\ [][CopiesNext]_copyVars

-----------------------------------------------------------------------------
(* What must hold.                                                         *)

\* new is old under other ids: the same blocks in the same order, referring to
\* each other as those of old do, and none of them shared.
IsClone(new, old) ==
  LET n == DOMAIN new.blocks IN
  /\ n = DOMAIN old.blocks
  /\ \A i, j \in n :
       /\ new.blocks[i].kind = old.blocks[i].kind
       /\ new.blocks[i].id # old.blocks[j].id
       /\ (new.blocks[i].id = new.blocks[j].id) <=> (i = j)
       /\ (new.blocks[i].to = new.blocks[j].id) <=> (old.blocks[i].to = old.blocks[j].id)
       /\ (new.entry = new.blocks[j].id) <=> (old.entry = old.blocks[j].id)

IsTheCopy(draft, row) ==
  LET r == copyReservations[row] IN
  IF row[1] = "clone"
  THEN draft.title = r.hash.title /\ IsClone(draft, SnapshotOf(row[2], r.revision))
  ELSE r.hash.package.intact /\ draft = ContentIn(r.hash.package)

\* A key that is completed, and every answer given under it, name one quest:
\* revision 0 of the destination is the copy of the revision the key pinned,
\* whoever edited the source or created quests meanwhile, and whichever of the
\* calls, before or after a crash, came to finish it.  One call at most is told
\* that it made the quest, and none finds its key corrupt.
CopiesComeTrue ==
  /\ \A row \in DOMAIN copyReservations : copyReservations[row].status = "completed" =>
       LET dest == copyReservations[row].hash.dest IN
       IsThere(dest) /\ IsTheCopy(SnapshotOf(dest, 0), row)
  /\ \A answer \in copied :
       LET held == Held(answer.request) IN
       /\ held.status = "completed" /\ held.hash = HashOf(answer.request)
       /\ answer.kind # "corrupt"
       /\ answer.revision = held.revision
  /\ \A a, b \in copied :
       a.kind = "made" /\ b.kind = "made" /\ a.request.dest = b.request.dest => a = b
=============================================================================
