----------------------------- MODULE ReleaseStore -----------------------------
(***************************************************************************)
(* Release publication (packages/control, ControlReleaseStore, and the two *)
(* services of apps/server in front of it): immutable releases built from  *)
(* validated drafts, one current pointer per quest moved by publish and    *)
(* rollback under an expected-current check, the append-only log of those  *)
(* moves, and the idempotency records of the three operations.             *)
(*                                                                         *)
(* Each service call looks at the stored release and at the plugins        *)
(* installed, awaits, and then makes one store call, which is one          *)
(* transaction.  A Begin action is the code before the await and the other *)
(* action of the operation is the store call.  A restart loses the calls   *)
(* in flight, keeps the tables, and may come with other plugins installed. *)
(*                                                                         *)
(* The actor and the time of an event are data no property looks at.       *)
(***************************************************************************)
EXTENDS Integers, Sequences, FiniteSets

CONSTANTS
  Quests,        \* a quest of a project
  Releases,      \* release ids
  Drafts,        \* what a release is built from: revision, validation, dice
  ValidDrafts,   \* those whose validation is valid, theirs, and recompiles
  Keys,          \* idempotency keys
  Workers,       \* calls that can be in flight at once
  MaxEvents,     \* Number.MAX_SAFE_INTEGER: the last event sequence
  None           \* no release, no draft, no record

ASSUME ReleaseAssumption ==
  /\ ValidDrafts \subseteq Drafts
  /\ MaxEvents \in Nat
  /\ None \notin Releases \cup Drafts

VARIABLES
  releases,   \* per quest and release id, the draft it was built from
  current,    \* per quest, the current release
  events,     \* the publication events, in the order of their sequence
  records,    \* idempotency, per operation, quest and key
  plugins,    \* the valid drafts whose plugin requirements are met
  calls       \* what each worker is doing, and the last answer it gave

releaseVars == <<releases, current, events, records, plugins, calls>>

Operations == {"create", "publish", "rollback"}

\* The request as it is hashed: the hash of a build covers what is built, that
\* of a move the target and the release it expects to replace.
BuildRequest(q, r, d, k) ==
  [op |-> "create", quest |-> q, release |-> r, about |-> d, key |-> k]
MoveRequest(op, q, r, expected, k) ==
  [op |-> op, quest |-> q, release |-> r, about |-> expected, key |-> k]
RequestHash(request) == <<request.release, request.about>>

Requests ==
  [op : Operations, quest : Quests, release : Releases,
   about : Drafts \cup Releases \cup {None}, key : Keys]

NoRequest == [op |-> "none"]

\* An idempotency record; event 0 is the null sequence of what moved nothing.
Outcomes == {"created", "published", "rolled_back", "unchanged"}
Record(request, outcome, event) ==
  [hash |-> RequestHash(request), outcome |-> outcome,
   release |-> request.release, event |-> event]

Records ==
  [hash : Releases \X (Drafts \cup Releases \cup {None}), outcome : Outcomes,
   release : Releases, event : 0..MaxEvents]

ASSUME RecordAssumption == None \notin Records

RecordOf(request) == records[request.op][request.quest][request.key]

-----------------------------------------------------------------------------
(* A call: idle, or past the await with its request.                       *)

Free(w) == calls[w].at = "idle"
Calling(w, op) == calls[w].at = "calling" /\ calls[w].request.op = op

Answer(w, kind) ==
  calls' = [calls EXCEPT ![w] = [at |-> "idle", request |-> NoRequest, answer |-> kind]]

\* "refused" is any answer of a call that changed nothing, but for the two of a
\* key already used: what is missing, invalid, taken, or not current.
CallStore(w, request) ==
  calls' = [calls EXCEPT ![w] = [at |-> "calling", request |-> request, answer |-> "none"]]

tables == <<releases, current, events, records>>

\* preflightStoredControlRelease, on a release built from d.
Installed(d) == d \in plugins

-----------------------------------------------------------------------------
(* buildControlRelease                                                     *)

BeginBuild(w, q, r, d, k) ==
  /\ Free(w)
  /\ IF d \in ValidDrafts /\ Installed(d)
     THEN CallStore(w, BuildRequest(q, r, d, k))
     ELSE Answer(w, "refused")
  /\ UNCHANGED <<tables, plugins>>

\* What a key that is already used answers: the operation again, or a refusal.
AnswerFromRecord(w, request) ==
  /\ Answer(w, IF RecordOf(request).hash = RequestHash(request)
               THEN "replay" ELSE "idempotency_key_reused")
  /\ UNCHANGED tables

WriteRecord(request, outcome, event) ==
  records' = [records EXCEPT ![request.op][request.quest][request.key] =
                Record(request, outcome, event)]

CreateRelease(w) ==
  LET request == calls[w].request IN
  /\ Calling(w, "create")
  /\ CASE RecordOf(request) # None -> AnswerFromRecord(w, request)
       [] RecordOf(request) = None /\ releases[request.quest][request.release] # None ->
            Answer(w, "refused") /\ UNCHANGED tables
       [] RecordOf(request) = None /\ releases[request.quest][request.release] = None ->
            /\ releases' = [releases EXCEPT ![request.quest][request.release] = request.about]
            /\ WriteRecord(request, "created", 0)
            /\ Answer(w, "created")
            /\ UNCHANGED <<current, events>>
  /\ UNCHANGED plugins

-----------------------------------------------------------------------------
(* publishControlRelease and rollbackControlRelease                        *)

BeginMove(w, op, q, r, expected, k) ==
  LET d == releases[q][r] IN
  /\ Free(w)
  /\ IF d # None /\ Installed(d)
     THEN CallStore(w, MoveRequest(op, q, r, expected, k))
     ELSE Answer(w, "refused")
  /\ UNCHANGED <<tables, plugins>>

BeginPublish(w, q, r, expected, k) ==
  expected \in Releases \cup {None} /\ BeginMove(w, "publish", q, r, expected, k)

\* A rollback always names the release it expects to replace.
BeginRollback(w, q, r, expected, k) ==
  expected \in Releases /\ BeginMove(w, "rollback", q, r, expected, k)

EverPublished(q, r) ==
  \E i \in DOMAIN events : events[i].quest = q /\ events[i].to = r

Refuse(w) == Answer(w, "refused") /\ UNCHANGED tables

\* The event, the pointer and the record, in one transaction.
MovePointer(w, request, outcome) ==
  LET q == request.quest IN
  /\ events' = Append(events, [quest |-> q, kind |-> request.op,
                               from |-> current[q], to |-> request.release])
  /\ current' = [current EXCEPT ![q] = request.release]
  /\ WriteRecord(request, outcome, Len(events) + 1)
  /\ Answer(w, outcome)
  /\ UNCHANGED releases

\* A bug: publishing the current release once more is one more event.
MoveAnyway(w, request, outcome) ==
  \/ Len(events) = MaxEvents /\ Refuse(w)
  \/ Len(events) # MaxEvents /\ MovePointer(w, request, outcome)

\* The record alone when the target is current already; and with no sequence
\* left for an event the call throws and the transaction leaves nothing.
Move(w, request, outcome) ==
  LET same == current[request.quest] = request.release
      full == Len(events) = MaxEvents
  IN
  \/ /\ same
     /\ WriteRecord(request, "unchanged", 0)
     /\ Answer(w, "unchanged")
     /\ UNCHANGED <<releases, current, events>>
  \/ ~ same /\ full /\ Refuse(w)
  \/ ~ same /\ ~ full /\ MovePointer(w, request, outcome)

\* A bug: the pointer is compared before the key is looked up.
PublishConflictFirst(w) ==
  LET request == calls[w].request
      moved == current[request.quest] # request.about
  IN
  /\ Calling(w, "publish")
  /\ CASE moved -> Refuse(w)
       [] ~ moved /\ RecordOf(request) # None -> AnswerFromRecord(w, request)
       [] ~ moved /\ RecordOf(request) = None -> Move(w, request, "published")
  /\ UNCHANGED plugins

\* A bug: the expected release is not compared in the transaction.
PublishUnconditionally(w) ==
  LET request == calls[w].request IN
  /\ Calling(w, "publish")
  /\ IF RecordOf(request) # None THEN AnswerFromRecord(w, request)
     ELSE Move(w, request, "published")
  /\ UNCHANGED plugins

Publish(w) ==
  LET request == calls[w].request IN
  /\ Calling(w, "publish")
  /\ CASE RecordOf(request) # None -> AnswerFromRecord(w, request)
       [] RecordOf(request) = None /\ current[request.quest] # request.about ->
            Refuse(w)
       [] RecordOf(request) = None /\ current[request.quest] = request.about ->
            Move(w, request, "published")
  /\ UNCHANGED plugins

Rollback(w) ==
  LET request == calls[w].request
      q == request.quest
      may == current[q] = request.about /\ EverPublished(q, request.release)
  IN
  /\ Calling(w, "rollback")
  /\ CASE RecordOf(request) # None -> AnswerFromRecord(w, request)
       [] RecordOf(request) = None /\ ~ may -> Refuse(w)
       [] RecordOf(request) = None /\ may -> Move(w, request, "rolled_back")
  /\ UNCHANGED plugins

-----------------------------------------------------------------------------
\* The process ends and is started again, perhaps with other plugins.
Restart ==
  /\ plugins' \in SUBSET ValidDrafts
  /\ calls' = [w \in Workers |-> [at |-> "idle", request |-> NoRequest, answer |-> "none"]]
  /\ UNCHANGED tables

ReleaseInit ==
  /\ releases = [q \in Quests |-> [r \in Releases |-> None]]
  /\ current = [q \in Quests |-> None]
  /\ events = <<>>
  /\ records = [op \in Operations |-> [q \in Quests |-> [k \in Keys |-> None]]]
  /\ plugins \in SUBSET ValidDrafts
  /\ calls = [w \in Workers |-> [at |-> "idle", request |-> NoRequest, answer |-> "none"]]

ReleaseNext ==
  \/ \E w \in Workers, q \in Quests, r \in Releases, k \in Keys :
       \/ \E d \in Drafts : BeginBuild(w, q, r, d, k)
       \/ \E expected \in Releases \cup {None} : BeginPublish(w, q, r, expected, k)
       \/ \E expected \in Releases : BeginRollback(w, q, r, expected, k)
  \/ \E w \in Workers : CreateRelease(w) \/ Publish(w) \/ Rollback(w)
  \/ Restart

ReleaseSpec == ReleaseInit /\ [][ReleaseNext]_releaseVars

-----------------------------------------------------------------------------
(* Properties                                                              *)

Events ==
  [quest : Quests, kind : {"publish", "rollback"},
   from : Releases \cup {None}, to : Releases]
Answers == {"none", "refused", "replay", "idempotency_key_reused"} \cup Outcomes
Calls ==
  [at : {"idle"}, request : {NoRequest}, answer : Answers]
    \cup [at : {"calling"}, request : Requests, answer : {"none"}]

\* The tables are of their shape, and a call past its await is about a release
\* that was looked at: one to move to is stored, and one to build is valid.
ReleaseTypeOK ==
  /\ releases \in [Quests -> [Releases -> ValidDrafts \cup {None}]]
  /\ current \in [Quests -> Releases \cup {None}]
  /\ events \in Seq(Events) /\ Len(events) \in 0..MaxEvents
  /\ records \in [Operations -> [Quests -> [Keys -> Records \cup {None}]]]
  /\ plugins \in SUBSET ValidDrafts
  /\ calls \in [Workers -> Calls]
  /\ \A w \in Workers : calls[w].at = "calling" =>
       LET request == calls[w].request IN
       IF request.op = "create" THEN request.about \in ValidDrafts
       ELSE releases[request.quest][request.release] # None

\* Where the first n events leave the pointer of a quest.
PointsTo(q, n, r) ==
  \/ r = None /\ \A i \in 1..n : events[i].quest # q
  \/ \E i \in 1..n :
       /\ events[i].quest = q /\ events[i].to = r
       /\ \A j \in (i + 1)..n : events[j].quest # q

\* The log explains the pointer: each move of a quest starts where the one
\* before it ended, moves somewhere else, and the last one ends at the current
\* release; two moves that both expected the same release cannot both be in it.
LogExplainsPointer ==
  /\ \A i \in DOMAIN events :
       LET e == events[i] IN PointsTo(e.quest, i - 1, e.from) /\ e.to # e.from
  /\ \A q \in Quests : PointsTo(q, Len(events), current[q])

\* Every event is the effect of one key: exactly one record names it, the
\* record of a request of that kind, for that quest, that asked for exactly
\* this move; so a retried request never moves the pointer twice.
MovesAreKeyed ==
  \A i \in DOMAIN events :
    LET e == events[i]
        Names(op, q, k) == records[op][q][k] # None /\ records[op][q][k].event = i
    IN
    /\ \E k \in Keys :
         /\ Names(e.kind, e.quest, k)
         /\ records[e.kind][e.quest][k].hash = <<e.to, e.from>>
    /\ \A op1, op2 \in Operations, q1, q2 \in Quests, k1, k2 \in Keys :
         Names(op1, q1, k1) /\ Names(op2, q2, k2) => <<op1, q1, k1>> = <<op2, q2, k2>>

\* A rollback only goes where a publication has been: its target was published
\* by an earlier event of the same quest (ADR 0030, decision 3).
RollbackGoesBack ==
  \A i \in DOMAIN events : events[i].kind = "rollback" =>
    \E j \in 1..(i - 1) :
      /\ events[j].quest = events[i].quest /\ events[j].kind = "publish"
      /\ events[j].to = events[i].to

\* The same request again is recognised: once a key has an answer, a store
\* call with that key and the same request answers replay, wherever the
\* pointer has moved in the meantime; with another request it is refused.
RetryIsReplayed ==
  [][\A w \in Workers :
       LET request == calls[w].request IN
       (calls[w].at = "calling" /\ calls'[w].at = "idle" /\ plugins' = plugins
        /\ calls'[w].answer # "none" /\ RecordOf(request) # None)
       => calls'[w].answer = IF RecordOf(request).hash = RequestHash(request)
                             THEN "replay" ELSE "idempotency_key_reused"]_releaseVars
=============================================================================
