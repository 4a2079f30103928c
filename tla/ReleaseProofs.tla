----------------------------- MODULE ReleaseProofs -----------------------------
(***************************************************************************)
(* Proofs about releases and the sessions pinned to them, for every number *)
(* of quests, releases, keys, sessions and concurrent calls.               *)
(*                                                                         *)
(* A step of the store is first reduced to its effect on the tables; the   *)
(* properties of the log then lean on each other: that a record's key was  *)
(* free is what keeps the events of other keys, that a record never names  *)
(* an event to come is what makes the next sequence number its own.        *)
(*                                                                         *)
(* The control server's side of PublishedSessions is the store, so its     *)
(* theorems hold there too.  That a session keeps its scope rests on who   *)
(* owns a binding: only the request that wrote it may take it back, and    *)
(* only while the session does not exist.                                  *)
(***************************************************************************)
EXTENDS PublishedSessions, SequenceTheorems, TLAPS

-------------------------------------------------------------------------------
(* The effects of a step                                                   *)

Builds(request) ==
  /\ request.op = "create" /\ request.about \in ValidDrafts
  /\ releases[request.quest][request.release] = None
  /\ releases' = [releases EXCEPT ![request.quest][request.release] = request.about]
  /\ WriteRecord(request, "created", 0)
  /\ UNCHANGED <<current, events>>

Confirms(request) ==
  WriteRecord(request, "unchanged", 0) /\ UNCHANGED <<releases, current, events>>

Moved(request) ==
  [quest |-> request.quest, kind |-> request.op,
   from |-> current[request.quest], to |-> request.release]

Moves(request) ==
  LET q == request.quest IN
  /\ request.op \in {"publish", "rollback"}
  /\ current[q] = request.about /\ current[q] # request.release
  /\ request.op = "rollback" => EverPublished(q, request.release)
  /\ Len(events) # MaxEvents
  /\ events' = Append(events, Moved(request))
  /\ current' = [current EXCEPT ![q] = request.release]
  /\ \E outcome \in Outcomes : WriteRecord(request, outcome, Len(events) + 1)
  /\ UNCHANGED releases

Writes(request) ==
  RecordOf(request) = None /\ (Builds(request) \/ Confirms(request) \/ Moves(request))

Effect == UNCHANGED tables \/ \E request \in Requests : Writes(request)

-------------------------------------------------------------------------------
(* Types                                                                   *)

TablesTyped ==
  /\ releases \in [Quests -> [Releases -> ValidDrafts \cup {None}]]
  /\ current \in [Quests -> Releases \cup {None}]
  /\ events \in Seq(Events) /\ Len(events) \in 0..MaxEvents
  /\ records \in [Operations -> [Quests -> [Keys -> Records \cup {None}]]]

LookedAt(request) ==
  IF request.op = "create" THEN request.about \in ValidDrafts
  ELSE releases[request.quest][request.release] # None

CallsTyped ==
  /\ plugins \in SUBSET ValidDrafts
  /\ calls \in [Workers -> Calls]
  /\ \A w \in Workers : calls[w].at = "calling" => LookedAt(calls[w].request)

LEMMA TypeParts == ReleaseTypeOK <=> TablesTyped /\ CallsTyped
  BY DEF ReleaseTypeOK, TablesTyped, CallsTyped, LookedAt

LEMMA CallingRequest ==
  ASSUME CallsTyped, NEW w \in Workers, NEW op, Calling(w, op)
  PROVE  /\ calls[w].request \in Requests /\ calls[w].request.op = op
         /\ LookedAt(calls[w].request)
  BY DEF CallsTyped, Calling, Calls

\* What the store calls come to once their early returns are taken.
LEMMA MoveEffect ==
  ASSUME NEW w \in Workers, NEW request \in Requests, NEW outcome \in Outcomes,
         request.op \in {"publish", "rollback"}, RecordOf(request) = None,
         current[request.quest] = request.about,
         request.op = "rollback" => EverPublished(request.quest, request.release),
         Move(w, request, outcome)
  PROVE  Effect /\ UNCHANGED releases /\ \E kind \in Answers : Answer(w, kind)
<1>1. CASE /\ WriteRecord(request, "unchanged", 0) /\ Answer(w, "unchanged")
           /\ UNCHANGED <<releases, current, events>>
  <2>1. Confirms(request)
    BY <1>1 DEF Confirms
  <2> QED BY <1>1, <2>1 DEF Effect, Writes, Answers, Outcomes
<1>2. CASE Refuse(w)
  BY <1>2 DEF Refuse, Effect, Answers, tables
<1>3. CASE /\ current[request.quest] # request.release /\ Len(events) # MaxEvents
           /\ MovePointer(w, request, outcome)
  <2>1. Moves(request)
    BY <1>3 DEF Moves, Moved, MovePointer
  <2>2. UNCHANGED releases /\ Answer(w, outcome) /\ outcome \in Answers
    BY <1>3 DEF MovePointer, Outcomes, Answers
  <2> QED BY <2>1, <2>2 DEF Effect, Writes
<1> QED BY <1>1, <1>2, <1>3 DEF Move

LEMMA StoreCallEffect ==
  ASSUME CallsTyped, NEW w \in Workers, CreateRelease(w) \/ Publish(w) \/ Rollback(w)
  PROVE  /\ Effect /\ \E kind \in Answers : Answer(w, kind)
         /\ UNCHANGED plugins
<1> DEFINE request == calls[w].request
<1>1. CASE AnswerFromRecord(w, request) /\ UNCHANGED plugins
  BY <1>1 DEF AnswerFromRecord, Effect, Answers
<1>2. CASE Refuse(w) /\ UNCHANGED plugins
  BY <1>2 DEF Refuse, Effect, Answers
<1>3. CASE CreateRelease(w)
  <2>1. request \in Requests /\ request.op = "create" /\ request.about \in ValidDrafts
    BY <1>3, CallingRequest DEF CreateRelease, LookedAt
  <2>2. CASE /\ RecordOf(request) = None /\ releases[request.quest][request.release] = None
             /\ Answer(w, "created")
             /\ releases' = [releases EXCEPT ![request.quest][request.release] = request.about]
             /\ WriteRecord(request, "created", 0) /\ UNCHANGED <<current, events>>
    <3>1. Builds(request)
      BY <2>1, <2>2 DEF Builds
    <3> QED BY <1>3, <2>1, <2>2, <3>1 DEF Effect, Writes, CreateRelease, Answers, Outcomes
  <2> QED BY <1>1, <1>2, <1>3, <2>2 DEF CreateRelease, Refuse
<1>4. CASE Publish(w)
  <2>1. request \in Requests /\ request.op = "publish"
    BY <1>4, CallingRequest DEF Publish
  <2>2. CASE /\ RecordOf(request) = None /\ current[request.quest] = request.about
             /\ Move(w, request, "published")
    BY <1>4, <2>1, <2>2, MoveEffect DEF Publish, Outcomes
  <2> QED BY <1>1, <1>2, <1>4, <2>2 DEF Publish
<1>5. CASE Rollback(w)
  <2>1. request \in Requests /\ request.op = "rollback"
    BY <1>5, CallingRequest DEF Rollback
  <2>2. CASE /\ RecordOf(request) = None /\ current[request.quest] = request.about
             /\ EverPublished(request.quest, request.release)
             /\ Move(w, request, "rolled_back")
    BY <1>5, <2>1, <2>2, MoveEffect DEF Rollback, Outcomes
  <2> QED BY <1>1, <1>2, <1>5, <2>2 DEF Rollback
<1> QED BY <1>3, <1>4, <1>5

-------------------------------------------------------------------------------
(* What the tables are after an effect                                     *)

\* A record is written under its own key, and no other is touched.
LEMMA RecordWritten ==
  ASSUME TablesTyped, NEW request \in Requests, NEW outcome \in Outcomes,
         NEW event \in 0..MaxEvents, WriteRecord(request, outcome, event)
  PROVE  /\ records' \in [Operations -> [Quests -> [Keys -> Records \cup {None}]]]
         /\ RecordOf(request)' = Record(request, outcome, event)
         /\ \A op \in Operations, q \in Quests, k \in Keys :
              <<op, q, k>> # <<request.op, request.quest, request.key>> =>
                records'[op][q][k] = records[op][q][k]
<1>1. /\ request.op \in Operations /\ request.quest \in Quests /\ request.key \in Keys
      /\ request.release \in Releases /\ request.about \in Drafts \cup Releases \cup {None}
  BY DEF Requests
<1>2. Record(request, outcome, event) \in Records
  BY <1>1 DEF Record, Records, RequestHash
<1> HIDE DEF Record
<1> QED BY <1>1, <1>2 DEF TablesTyped, WriteRecord, RecordOf

\* An event is appended to the log, and what was there before is still in its place.
LEMMA EventAppended ==
  ASSUME TablesTyped, NEW request \in Requests, Moves(request)
  PROVE  /\ events' \in Seq(Events) /\ Len(events') = Len(events) + 1
         /\ Len(events) \in Nat /\ Len(events') \in 0..MaxEvents
         /\ DOMAIN events = 1..Len(events) /\ DOMAIN events' = 1..(Len(events) + 1)
         /\ \A i \in 1..Len(events) : events'[i] = events[i]
         /\ events'[Len(events) + 1] = Moved(request)
<1>1. Moved(request) \in Events
  BY DEF Moves, Moved, Events, Requests, TablesTyped
<1>2. events' = Append(events, Moved(request)) /\ Len(events) # MaxEvents
  BY DEF Moves
<1>3. events \in Seq(Events) /\ Len(events) \in 0..MaxEvents
  BY DEF TablesTyped
<1> HIDE DEF Moved
<1> QED BY <1>1, <1>2, <1>3, ReleaseAssumption

\* Releases are immutable: what is stored stays stored as it is.
Immutable ==
  \A q \in Quests, r \in Releases : releases[q][r] # None => releases'[q][r] = releases[q][r]

LEMMA TablesStep ==
  ASSUME TablesTyped, Effect
  PROVE  TablesTyped' /\ Immutable
<1>1. CASE UNCHANGED tables
  BY <1>1 DEF tables, TablesTyped, Immutable
<1>2. ASSUME NEW request \in Requests, Builds(request)
      PROVE  TablesTyped' /\ Immutable
  <2>1. records' \in [Operations -> [Quests -> [Keys -> Records \cup {None}]]]
    BY <1>2, RecordWritten, ReleaseAssumption DEF Builds, Outcomes
  <2>2. /\ releases' \in [Quests -> [Releases -> ValidDrafts \cup {None}]] /\ Immutable
    BY <1>2 DEF Builds, Requests, TablesTyped, Immutable
  <2> QED BY <1>2, <2>1, <2>2 DEF TablesTyped, Builds
<1>3. ASSUME NEW request \in Requests, Confirms(request)
      PROVE  TablesTyped' /\ Immutable
  <2>1. records' \in [Operations -> [Quests -> [Keys -> Records \cup {None}]]]
    BY <1>3, RecordWritten, ReleaseAssumption DEF Confirms, Outcomes
  <2> QED BY <1>3, <2>1 DEF TablesTyped, Confirms, Immutable
<1>4. ASSUME NEW request \in Requests, Moves(request)
      PROVE  TablesTyped' /\ Immutable
  <2>1. /\ events' \in Seq(Events) /\ Len(events') \in 0..MaxEvents
        /\ Len(events) + 1 \in 0..MaxEvents
    BY <1>4, EventAppended
  <2>2. records' \in [Operations -> [Quests -> [Keys -> Records \cup {None}]]]
    BY <1>4, <2>1, RecordWritten DEF Moves
  <2>3. current' \in [Quests -> Releases \cup {None}]
    BY <1>4 DEF Moves, Requests, TablesTyped
  <2> QED BY <1>4, <2>1, <2>2, <2>3 DEF TablesTyped, Moves, Immutable
<1> QED BY <1>1, <1>2, <1>3, <1>4 DEF Effect, Writes

-------------------------------------------------------------------------------
(* What the calls are after a step                                         *)

LEMMA AnswerKeepsCalls ==
  ASSUME TablesTyped, CallsTyped, NEW w \in Workers, NEW kind \in Answers, Answer(w, kind),
         Immutable, UNCHANGED plugins
  PROVE  CallsTyped'
<1>1. calls' \in [Workers -> Calls] /\ calls'[w].at = "idle"
      /\ \A v \in Workers \ {w} : calls'[v] = calls[v]
  BY DEF Answer, CallsTyped, Calls
<1>2. ASSUME NEW v \in Workers, calls'[v].at = "calling"
      PROVE  LookedAt(calls[v].request)'
  <2>1. v # w /\ calls'[v] = calls[v] /\ LookedAt(calls[v].request)
        /\ calls[v].request \in Requests
    BY <1>1, <1>2 DEF CallsTyped, Calls
  <2> QED BY <2>1 DEF LookedAt, Immutable, Requests
<1> QED BY <1>1, <1>2 DEF CallsTyped

LEMMA CallKeepsCalls ==
  ASSUME CallsTyped, NEW w \in Workers, NEW request \in Requests, LookedAt(request),
         CallStore(w, request), UNCHANGED <<releases, plugins>>
  PROVE  CallsTyped'
<1>1. calls' \in [Workers -> Calls] /\ calls'[w].request = request
      /\ \A v \in Workers \ {w} : calls'[v] = calls[v]
  BY DEF CallStore, CallsTyped, Calls
<1>2. ASSUME NEW v \in Workers, calls'[v].at = "calling"
      PROVE  LookedAt(calls[v].request)'
  BY <1>1, <1>2 DEF CallsTyped, LookedAt
<1> QED BY <1>1, <1>2 DEF CallsTyped

LEMMA BeginKeepsCalls ==
  ASSUME TablesTyped, CallsTyped, NEW w \in Workers, NEW q \in Quests, NEW r \in Releases,
         NEW k \in Keys,
         \/ \E d \in Drafts : BeginBuild(w, q, r, d, k)
         \/ \E expected \in Releases \cup {None} : BeginPublish(w, q, r, expected, k)
         \/ \E expected \in Releases : BeginRollback(w, q, r, expected, k)
  PROVE  UNCHANGED tables /\ CallsTyped'
<1>1. UNCHANGED tables /\ UNCHANGED plugins /\ UNCHANGED releases /\ Immutable
  BY DEF BeginBuild, BeginPublish, BeginRollback, BeginMove, tables, Immutable
<1>2. CASE Answer(w, "refused")
  BY <1>1, <1>2, AnswerKeepsCalls DEF Answers
<1>3. ASSUME NEW d \in Drafts, d \in ValidDrafts, CallStore(w, BuildRequest(q, r, d, k))
      PROVE  CallsTyped'
  <2>1. BuildRequest(q, r, d, k) \in Requests /\ LookedAt(BuildRequest(q, r, d, k))
    BY <1>3 DEF BuildRequest, Requests, Operations, LookedAt
  <2> QED BY <1>1, <1>3, <2>1, CallKeepsCalls
<1>4. ASSUME NEW op \in {"publish", "rollback"}, NEW expected \in Releases \cup {None},
             releases[q][r] # None, CallStore(w, MoveRequest(op, q, r, expected, k))
      PROVE  CallsTyped'
  <2>1. /\ MoveRequest(op, q, r, expected, k) \in Requests
        /\ LookedAt(MoveRequest(op, q, r, expected, k))
    BY <1>4 DEF MoveRequest, Requests, Operations, LookedAt
  <2> QED BY <1>1, <1>4, <2>1, CallKeepsCalls
<1>5. CASE \E d \in Drafts : BeginBuild(w, q, r, d, k)
  BY <1>1, <1>2, <1>3, <1>5 DEF BeginBuild
<1>6. CASE \E expected \in Releases \cup {None} : BeginPublish(w, q, r, expected, k)
  BY <1>1, <1>2, <1>4, <1>6 DEF BeginPublish, BeginMove
<1>7. CASE \E expected \in Releases : BeginRollback(w, q, r, expected, k)
  BY <1>1, <1>2, <1>4, <1>7 DEF BeginRollback, BeginMove
<1> QED BY <1>5, <1>6, <1>7

LEMMA StepHasEffect ==
  ASSUME ReleaseTypeOK, [ReleaseNext]_releaseVars
  PROVE  ReleaseTypeOK' /\ Effect
<1>1. TablesTyped /\ CallsTyped
  BY TypeParts
<1>2. CASE UNCHANGED releaseVars
  BY <1>2 DEF releaseVars, tables, Effect, ReleaseTypeOK
<1>3. ASSUME NEW w \in Workers, NEW q \in Quests, NEW r \in Releases, NEW k \in Keys,
             \/ \E d \in Drafts : BeginBuild(w, q, r, d, k)
             \/ \E expected \in Releases \cup {None} : BeginPublish(w, q, r, expected, k)
             \/ \E expected \in Releases : BeginRollback(w, q, r, expected, k)
      PROVE  ReleaseTypeOK' /\ Effect
  <2>1. UNCHANGED tables /\ CallsTyped'
    BY <1>1, <1>3, BeginKeepsCalls
  <2>2. Effect
    BY <2>1 DEF Effect
  <2>3. TablesTyped'
    BY <1>1, <2>2, TablesStep
  <2> QED BY <2>1, <2>2, <2>3, TypeParts DEF ReleaseTypeOK, TablesTyped, CallsTyped, LookedAt
<1>4. ASSUME NEW w \in Workers, CreateRelease(w) \/ Publish(w) \/ Rollback(w)
      PROVE  ReleaseTypeOK' /\ Effect
  <2>1. PICK kind \in Answers : Effect /\ Answer(w, kind) /\ UNCHANGED plugins
    BY <1>1, <1>4, StoreCallEffect
  <2>2. TablesTyped' /\ Immutable
    BY <1>1, <2>1, TablesStep
  <2>3. CallsTyped'
    BY <1>1, <2>1, <2>2, AnswerKeepsCalls
  <2> QED BY <2>1, <2>2, <2>3 DEF ReleaseTypeOK, TablesTyped, CallsTyped, LookedAt
<1>5. CASE Restart
  <2>1. UNCHANGED tables /\ Effect
    BY <1>5 DEF Restart, Effect
  <2>2. TablesTyped'
    BY <1>1, <2>1, TablesStep
  <2>3. CallsTyped'
    BY <1>5 DEF Restart, CallsTyped, Calls, Answers
  <2> QED BY <2>1, <2>2, <2>3 DEF ReleaseTypeOK, TablesTyped, CallsTyped, LookedAt
<1> QED BY <1>2, <1>3, <1>4, <1>5 DEF ReleaseNext

-------------------------------------------------------------------------------
(* The inductive invariant                                                 *)

\* No record names an event that is still to come.
RecordsInLog ==
  \A op \in Operations, q \in Quests, k \in Keys :
    records[op][q][k] # None => records[op][q][k].event \in 0..Len(events)

IInv ==
  /\ ReleaseTypeOK /\ RecordsInLog
  /\ LogExplainsPointer /\ MovesAreKeyed /\ RollbackGoesBack

LEMMA InitEstablishes == ReleaseInit => IInv
<1> SUFFICES ASSUME ReleaseInit PROVE IInv
  OBVIOUS
<1>1. events = <<>> /\ events \in Seq(Events) /\ Len(events) = 0 /\ DOMAIN events = {}
  BY DEF ReleaseInit
<1>2. ReleaseTypeOK
  BY <1>1, ReleaseAssumption DEF ReleaseInit, ReleaseTypeOK, Calls, Answers
<1>3. RecordsInLog
  BY DEF ReleaseInit, RecordsInLog
<1>4. LogExplainsPointer
  BY <1>1 DEF ReleaseInit, LogExplainsPointer, PointsTo
<1>5. MovesAreKeyed /\ RollbackGoesBack
  BY <1>1 DEF MovesAreKeyed, RollbackGoesBack
<1> QED BY <1>2, <1>3, <1>4, <1>5 DEF IInv

LEMMA PointerStep ==
  ASSUME TablesTyped, LogExplainsPointer, NEW request \in Requests, Moves(request)
  PROVE  LogExplainsPointer'
<1> DEFINE n == Len(events)
           e == Moved(request)
<1>1. /\ n \in Nat /\ Len(events') = n + 1
      /\ DOMAIN events = 1..n /\ DOMAIN events' = 1..(n + 1)
      /\ \A i \in 1..n : events'[i] = events[i]
      /\ events'[n + 1] = e
  BY EventAppended
<1>2. /\ e.quest = request.quest /\ e.from = current[request.quest] /\ e.to = request.release
      /\ request.quest \in Quests
  BY DEF Moved, Requests
<1>3. /\ current' = [current EXCEPT ![request.quest] = request.release]
      /\ current[request.quest] # request.release
      /\ current \in [Quests -> Releases \cup {None}]
  BY DEF Moves, TablesTyped
<1> HIDE DEF e
<1>4. ASSUME NEW q, NEW m \in 0..n, NEW r, PointsTo(q, m, r)
      PROVE  PointsTo(q, m, r)'
  <2>1. \A i \in 1..m : events'[i] = events[i]
    BY <1>1
  <2>2. ASSUME NEW i \in 1..m PROVE \A j \in (i + 1)..m : events'[j] = events[j]
    BY <2>1
  <2> HIDE DEF n
  <2>3. CASE r = None /\ \A i \in 1..m : events[i].quest # q
    BY <2>1, <2>3 DEF PointsTo
  <2>4. ASSUME NEW i \in 1..m, events[i].quest = q, events[i].to = r,
               \A j \in (i + 1)..m : events[j].quest # q
        PROVE  PointsTo(q, m, r)'
    BY <2>1, <2>2, <2>4 DEF PointsTo
  <2> QED BY <1>4, <2>3, <2>4 DEF PointsTo
<1>5. ASSUME NEW i \in DOMAIN events'
      PROVE  PointsTo(events[i].quest, i - 1, events[i].from)' /\ events'[i].to # events'[i].from
  <2>1. CASE i \in 1..n
    <3>1. /\ events'[i] = events[i] /\ i - 1 \in 0..n
          /\ PointsTo(events[i].quest, i - 1, events[i].from) /\ events[i].to # events[i].from
      BY <1>1, <2>1 DEF LogExplainsPointer
    <3>2. \E q, r : /\ q = events[i].quest /\ r = events[i].from
                    /\ PointsTo(q, i - 1, r)'
      BY <1>4, <3>1
    <3> QED BY <3>1, <3>2
  <2>2. CASE i = n + 1
    <3>1. PointsTo(e.quest, n, e.from) /\ e.to # e.from
      BY <1>2, <1>3 DEF LogExplainsPointer
    <3>2. i - 1 = n /\ i - 1 \in 0..n
      BY <1>1, <2>2
    <3>3. \E q, r : q = e.quest /\ r = e.from /\ PointsTo(q, i - 1, r)'
      BY <1>4, <3>1, <3>2
    <3> QED BY <1>1, <2>2, <3>1, <3>3
  <2> QED BY <1>1, <2>1, <2>2
<1>6. ASSUME NEW q \in Quests
      PROVE  PointsTo(q, Len(events), current[q])'
  <2>1. CASE q = request.quest
    BY <1>1, <1>2, <1>3, <2>1 DEF PointsTo
  <2>2. CASE q # request.quest
    <3>1. current'[q] = current[q] /\ PointsTo(q, n, current[q])
      BY <1>3, <2>2 DEF LogExplainsPointer
    <3> QED BY <1>1, <1>2, <2>2, <3>1 DEF PointsTo
  <2> QED BY <2>1, <2>2
<1> QED BY <1>5, <1>6 DEF LogExplainsPointer

\* A record that names no event of the log before leaves what the others name.
LEMMA KeyedStep ==
  ASSUME TablesTyped, RecordsInLog, MovesAreKeyed, NEW request \in Requests, Moves(request),
         RecordOf(request) = None, TablesTyped'
  PROVE  MovesAreKeyed' /\ RecordsInLog'
<1> DEFINE n == Len(events)
           e == Moved(request)
<1>1. /\ n \in Nat /\ Len(events') = n + 1 /\ n + 1 \in 0..MaxEvents
      /\ DOMAIN events = 1..n /\ DOMAIN events' = 1..(n + 1)
      /\ \A i \in 1..n : events'[i] = events[i]
      /\ events'[n + 1] = e
  BY EventAppended
<1>2. PICK outcome \in Outcomes : WriteRecord(request, outcome, n + 1)
  BY DEF Moves
<1>3. /\ RecordOf(request)' = Record(request, outcome, n + 1)
      /\ \A op \in Operations, q \in Quests, k \in Keys :
           <<op, q, k>> # <<request.op, request.quest, request.key>> =>
             records'[op][q][k] = records[op][q][k]
  BY <1>1, <1>2, RecordWritten
<1>4. /\ request.op \in {"publish", "rollback"} /\ request.quest \in Quests
      /\ request.key \in Keys /\ current[request.quest] = request.about
  BY DEF Moves, Requests
<1>5. /\ RecordOf(request)' # None /\ RecordOf(request)'.event = n + 1
      /\ RecordOf(request)'.hash = <<e.to, e.from>>
  <2>1. Record(request, outcome, n + 1) \in Records
    BY <1>1, <1>2 DEF Record, Records, RequestHash, Requests
  <2> QED BY <1>3, <1>4, <2>1, RecordAssumption DEF Record, RequestHash, Moved
<1> DEFINE Named(table, op, q, k, i) == table[op][q][k] # None /\ table[op][q][k].event = i
<1> HIDE DEF e
<1>6. ASSUME NEW op \in Operations, NEW q \in Quests, NEW k \in Keys, NEW i \in 1..n
      PROVE  Named(records', op, q, k, i) <=> Named(records, op, q, k, i)
  <2>1. CASE <<op, q, k>> = <<request.op, request.quest, request.key>>
    <3>1. records'[op][q][k] = RecordOf(request)' /\ records[op][q][k] = RecordOf(request)
      BY <2>1 DEF RecordOf
    <3>2. RecordOf(request)'.event # i
      BY <1>1, <1>5
    <3> QED BY <3>1, <3>2
  <2>2. CASE <<op, q, k>> # <<request.op, request.quest, request.key>>
    BY <1>3, <2>2
  <2> QED BY <2>1, <2>2
<1>7. ASSUME NEW op \in Operations, NEW q \in Quests, NEW k \in Keys
      PROVE  Named(records', op, q, k, n + 1) <=>
               <<op, q, k>> = <<request.op, request.quest, request.key>>
  <2>1. CASE <<op, q, k>> = <<request.op, request.quest, request.key>>
    <3>1. records'[op][q][k] = RecordOf(request)'
      BY <2>1 DEF RecordOf
    <3> QED BY <1>5, <2>1, <3>1
  <2>2. CASE <<op, q, k>> # <<request.op, request.quest, request.key>>
    BY <1>1, <1>3, <2>2 DEF RecordsInLog
  <2> QED BY <2>1, <2>2
<1>8. RecordsInLog'
  <2> SUFFICES ASSUME NEW op \in Operations, NEW q \in Quests, NEW k \in Keys,
                      records'[op][q][k] # None
               PROVE  records'[op][q][k].event \in 0..Len(events')
    BY DEF RecordsInLog
  <2>1. CASE <<op, q, k>> = <<request.op, request.quest, request.key>>
    <3>1. records'[op][q][k] = RecordOf(request)'
      BY <2>1 DEF RecordOf
    <3> QED BY <1>1, <1>5, <3>1
  <2>2. CASE <<op, q, k>> # <<request.op, request.quest, request.key>>
    BY <1>1, <1>3, <2>2 DEF RecordsInLog
  <2> QED BY <2>1, <2>2
<1>9. MovesAreKeyed'
  <2> SUFFICES ASSUME NEW i \in DOMAIN events'
               PROVE  /\ \E k \in Keys :
                           /\ Named(records', events'[i].kind, events'[i].quest, k, i)
                           /\ records'[events'[i].kind][events'[i].quest][k].hash =
                                <<events'[i].to, events'[i].from>>
                      /\ \A op1, op2 \in Operations, q1, q2 \in Quests, k1, k2 \in Keys :
                           Named(records', op1, q1, k1, i) /\ Named(records', op2, q2, k2, i)
                           => <<op1, q1, k1>> = <<op2, q2, k2>>
    BY DEF MovesAreKeyed
  <2>1. CASE i \in 1..n
    <3>1. events'[i] = events[i] /\ events[i] \in Events
      BY <1>1, <2>1 DEF TablesTyped
    <3>2. PICK k \in Keys : /\ Named(records, events[i].kind, events[i].quest, k, i)
                            /\ records[events[i].kind][events[i].quest][k].hash =
                                 <<events[i].to, events[i].from>>
      BY <1>1, <2>1 DEF MovesAreKeyed
    <3>3. events[i].kind \in Operations /\ events[i].quest \in Quests
      BY <3>1 DEF Events, Operations
    <3>4. <<events[i].kind, events[i].quest, k>> # <<request.op, request.quest, request.key>>
      BY <3>2 DEF RecordOf
    <3>5. records'[events[i].kind][events[i].quest][k] = records[events[i].kind][events[i].quest][k]
      BY <1>3, <3>3, <3>4
    <3>6. \A op1, op2 \in Operations, q1, q2 \in Quests, k1, k2 \in Keys :
            Named(records', op1, q1, k1, i) /\ Named(records', op2, q2, k2, i)
            => <<op1, q1, k1>> = <<op2, q2, k2>>
      <4>1. \A op1, op2 \in Operations, q1, q2 \in Quests, k1, k2 \in Keys :
              Named(records, op1, q1, k1, i) /\ Named(records, op2, q2, k2, i)
              => <<op1, q1, k1>> = <<op2, q2, k2>>
        BY <1>1, <2>1 DEF MovesAreKeyed
      <4> HIDE DEF Named
      <4> QED BY <1>6, <2>1, <4>1
    <3>7. /\ Named(records', events'[i].kind, events'[i].quest, k, i)
          /\ records'[events'[i].kind][events'[i].quest][k].hash =
               <<events'[i].to, events'[i].from>>
      BY <3>1, <3>2, <3>5
    <3> HIDE DEF Named
    <3> QED BY <3>6, <3>7
  <2>2. CASE i = n + 1
    <3>1. events'[i].kind = request.op /\ events'[i].quest = request.quest /\ events'[i] = e
      BY <1>1, <2>2 DEF e, Moved
    <3>2. request.op \in Operations
      BY <1>4 DEF Operations
    <3>3. Named(records', request.op, request.quest, request.key, n + 1)
      BY <1>4, <1>7, <3>2
    <3>4. records'[request.op][request.quest][request.key].hash = <<e.to, e.from>>
      BY <1>5 DEF RecordOf
    <3>5. \A op1, op2 \in Operations, q1, q2 \in Quests, k1, k2 \in Keys :
            Named(records', op1, q1, k1, n + 1) /\ Named(records', op2, q2, k2, n + 1)
            => <<op1, q1, k1>> = <<op2, q2, k2>>
      <4> HIDE DEF Named
      <4> QED BY <1>7
    <3>6. \E k \in Keys :
            /\ Named(records', request.op, request.quest, k, n + 1)
            /\ records'[request.op][request.quest][k].hash = <<e.to, e.from>>
      BY <1>4, <3>3, <3>4
    <3> HIDE DEF Named
    <3>7. \E k \in Keys :
            /\ Named(records', events'[i].kind, events'[i].quest, k, i)
            /\ records'[events'[i].kind][events'[i].quest][k].hash =
                 <<events'[i].to, events'[i].from>>
      BY <2>2, <3>1, <3>6
    <3> QED BY <2>2, <3>5, <3>7
  <2>3. i \in 1..n \/ i = n + 1
    BY <1>1
  <2> HIDE DEF Named
  <2> QED BY <2>1, <2>2, <2>3
<1> QED BY <1>8, <1>9

\* A record of event 0 names nothing: the log stays explained and keyed.
LEMMA QuietStep ==
  ASSUME TablesTyped, RecordsInLog, MovesAreKeyed, NEW request \in Requests,
         NEW outcome \in Outcomes, RecordOf(request) = None,
         WriteRecord(request, outcome, 0), UNCHANGED events
  PROVE  MovesAreKeyed' /\ RecordsInLog'
<1>1. /\ RecordOf(request)' = Record(request, outcome, 0)
      /\ \A op \in Operations, q \in Quests, k \in Keys :
           <<op, q, k>> # <<request.op, request.quest, request.key>> =>
             records'[op][q][k] = records[op][q][k]
  BY RecordWritten, ReleaseAssumption
<1>2. /\ RecordOf(request)'.event = 0
      /\ Len(events) \in Nat /\ DOMAIN events = 1..Len(events) /\ events' = events
  BY <1>1 DEF Record, TablesTyped
<1>3. RecordsInLog'
  <2> SUFFICES ASSUME NEW op \in Operations, NEW q \in Quests, NEW k \in Keys,
                      records'[op][q][k] # None
               PROVE  records'[op][q][k].event \in 0..Len(events')
    BY DEF RecordsInLog
  <2>1. CASE <<op, q, k>> = <<request.op, request.quest, request.key>>
    BY <1>2, <2>1 DEF RecordOf
  <2>2. CASE <<op, q, k>> # <<request.op, request.quest, request.key>>
    BY <1>1, <1>2, <2>2 DEF RecordsInLog
  <2> QED BY <2>1, <2>2
<1> DEFINE Named(table, op, q, k, i) == table[op][q][k] # None /\ table[op][q][k].event = i
<1>4. ASSUME NEW op \in Operations, NEW q \in Quests, NEW k \in Keys, NEW i \in DOMAIN events
      PROVE  /\ Named(records', op, q, k, i) <=> Named(records, op, q, k, i)
             /\ Named(records, op, q, k, i) => records'[op][q][k] = records[op][q][k]
  <2>1. CASE <<op, q, k>> = <<request.op, request.quest, request.key>>
    <3>1. records'[op][q][k].event = 0 /\ records[op][q][k] = None
      BY <1>2, <2>1 DEF RecordOf
    <3>2. i # 0
      BY <1>2
    <3> QED BY <3>1, <3>2
  <2>2. CASE <<op, q, k>> # <<request.op, request.quest, request.key>>
    BY <1>1, <2>2
  <2> QED BY <2>1, <2>2
<1>5. \A i \in DOMAIN events : events[i].kind \in Operations /\ events[i].quest \in Quests
  <2>1. \A i \in DOMAIN events : events[i] \in Events
    BY <1>2 DEF TablesTyped
  <2> QED BY <2>1 DEF Events, Operations
<1>6. MovesAreKeyed'
  <2> SUFFICES ASSUME NEW i \in DOMAIN events'
               PROVE  /\ \E k \in Keys :
                           /\ Named(records', events'[i].kind, events'[i].quest, k, i)
                           /\ records'[events'[i].kind][events'[i].quest][k].hash =
                                <<events'[i].to, events'[i].from>>
                      /\ \A op1, op2 \in Operations, q1, q2 \in Quests, k1, k2 \in Keys :
                           Named(records', op1, q1, k1, i) /\ Named(records', op2, q2, k2, i)
                           => <<op1, q1, k1>> = <<op2, q2, k2>>
    BY DEF MovesAreKeyed
  <2>3. i \in DOMAIN events /\ events'[i] = events[i]
    BY <1>2
  <2>1. PICK k \in Keys : /\ Named(records, events[i].kind, events[i].quest, k, i)
                          /\ records[events[i].kind][events[i].quest][k].hash =
                               <<events[i].to, events[i].from>>
    BY <2>3 DEF MovesAreKeyed
  <2>2. \A op1, op2 \in Operations, q1, q2 \in Quests, k1, k2 \in Keys :
          Named(records', op1, q1, k1, i) /\ Named(records', op2, q2, k2, i)
          => <<op1, q1, k1>> = <<op2, q2, k2>>
    <3>1. \A op1, op2 \in Operations, q1, q2 \in Quests, k1, k2 \in Keys :
            Named(records, op1, q1, k1, i) /\ Named(records, op2, q2, k2, i)
            => <<op1, q1, k1>> = <<op2, q2, k2>>
      BY <2>3 DEF MovesAreKeyed
    <3> HIDE DEF Named
    <3> QED BY <1>4, <2>3, <3>1
  <2>4. events[i].kind \in Operations /\ events[i].quest \in Quests
    BY <1>5, <2>3
  <2>5. /\ Named(records', events[i].kind, events[i].quest, k, i)
        /\ records'[events[i].kind][events[i].quest][k] =
             records[events[i].kind][events[i].quest][k]
    <3> HIDE DEF Named
    <3> QED BY <1>4, <2>1, <2>3, <2>4
  <2>6. /\ Named(records', events'[i].kind, events'[i].quest, k, i)
        /\ records'[events'[i].kind][events'[i].quest][k].hash = <<events'[i].to, events'[i].from>>
    <3> HIDE DEF Named
    <3> QED BY <2>1, <2>3, <2>5
  <2>7. \A op1, op2 \in Operations, q1, q2 \in Quests, k1, k2 \in Keys :
          Named(records', op1, q1, k1, i) /\ Named(records', op2, q2, k2, i)
          => <<op1, q1, k1>> = <<op2, q2, k2>>
    <3> HIDE DEF Named
    <3> QED BY <1>4, <2>2, <2>3
  <2> HIDE DEF Named
  <2> QED BY <2>6, <2>7
<1> QED BY <1>3, <1>6

\* A rollback's target is in the log: of a publication, or of a rollback that went
\* where a publication had been.
LEMMA RollbackStep ==
  ASSUME TablesTyped, RollbackGoesBack, NEW request \in Requests, Moves(request)
  PROVE  RollbackGoesBack'
<1> DEFINE n == Len(events)
<1>1. /\ n \in Nat /\ DOMAIN events = 1..n /\ DOMAIN events' = 1..(n + 1)
      /\ \A i \in 1..n : events'[i] = events[i]
      /\ events'[n + 1] = Moved(request)
  BY EventAppended
<1>2. SUFFICES ASSUME NEW i \in DOMAIN events', events'[i].kind = "rollback"
               PROVE  \E j \in 1..(i - 1) :
                        /\ events'[j].quest = events'[i].quest /\ events'[j].kind = "publish"
                        /\ events'[j].to = events'[i].to
  BY DEF RollbackGoesBack
<1>3. CASE i \in 1..n
  <2>1. PICK j \in 1..(i - 1) :
          /\ events[j].quest = events[i].quest /\ events[j].kind = "publish"
          /\ events[j].to = events[i].to
    BY <1>1, <1>2, <1>3 DEF RollbackGoesBack
  <2> QED BY <1>1, <1>3, <2>1
<1>4. CASE i = n + 1
  <2>1. PICK m \in 1..n : events[m].quest = request.quest /\ events[m].to = request.release
    BY <1>1, <1>2, <1>4 DEF Moves, Moved, EverPublished
  <2>2. events[m].kind \in {"publish", "rollback"}
    <3>1. events[m] \in Events
      BY <1>1 DEF TablesTyped
    <3> QED BY <3>1 DEF Events
  <2>3. PICK j \in 1..m : /\ events[j].quest = request.quest /\ events[j].kind = "publish"
                          /\ events[j].to = request.release
    <3>1. CASE events[m].kind = "publish"
      <4>1. m \in 1..m
        OBVIOUS
      <4> QED BY <2>1, <3>1, <4>1
    <3>2. CASE events[m].kind = "rollback"
      <4>1. PICK j \in 1..(m - 1) :
              /\ events[j].quest = events[m].quest /\ events[j].kind = "publish"
              /\ events[j].to = events[m].to
        BY <1>1, <3>2 DEF RollbackGoesBack
      <4>2. j \in 1..m
        BY <4>1
      <4> QED BY <2>1, <4>1, <4>2
    <3> QED BY <2>2, <3>1, <3>2
  <2> QED BY <1>1, <1>4, <2>3 DEF Moved
<1> QED BY <1>1, <1>3, <1>4

LEMMA StepKeeps ==
  ASSUME IInv, [ReleaseNext]_releaseVars
  PROVE  IInv'
<1>1. ReleaseTypeOK' /\ Effect /\ TablesTyped /\ TablesTyped'
  BY StepHasEffect DEF IInv, ReleaseTypeOK, TablesTyped
<1>2. CASE UNCHANGED tables
  <2>1. current' = current /\ events' = events /\ records' = records
    BY <1>2 DEF tables
  <2>2. RecordsInLog' /\ RollbackGoesBack'
    BY <2>1 DEF IInv, RecordsInLog, RollbackGoesBack
  <2>3. LogExplainsPointer'
    <3>1. LogExplainsPointer
      BY DEF IInv
    <3> QED BY <2>1, <3>1 DEF LogExplainsPointer, PointsTo
  <2>4. MovesAreKeyed'
    <3>1. MovesAreKeyed
      BY DEF IInv
    <3> QED BY <2>1, <3>1 DEF MovesAreKeyed
  <2> QED BY <1>1, <2>2, <2>3, <2>4 DEF IInv
<1>3. ASSUME NEW request \in Requests, RecordOf(request) = None,
             Builds(request) \/ Confirms(request)
      PROVE  IInv'
  <2>1. UNCHANGED <<current, events>> /\ \E outcome \in Outcomes : WriteRecord(request, outcome, 0)
    BY <1>3 DEF Builds, Confirms, Outcomes
  <2>2. MovesAreKeyed' /\ RecordsInLog'
    BY <1>1, <1>3, <2>1, QuietStep DEF IInv
  <2>3. LogExplainsPointer' /\ RollbackGoesBack'
    BY <2>1 DEF IInv, LogExplainsPointer, PointsTo, RollbackGoesBack
  <2> QED BY <1>1, <2>2, <2>3 DEF IInv
<1>4. ASSUME NEW request \in Requests, RecordOf(request) = None, Moves(request)
      PROVE  IInv'
  BY <1>1, <1>4, PointerStep, KeyedStep, RollbackStep DEF IInv
<1> QED BY <1>1, <1>2, <1>3, <1>4 DEF Effect, Writes

-------------------------------------------------------------------------------
(* The theorems                                                            *)

THEOREM ReleaseInvariant == ReleaseSpec => []IInv
<1>1. IInv /\ [ReleaseNext]_releaseVars => IInv'
  BY StepKeeps
<1> QED BY <1>1, InitEstablishes, PTL DEF ReleaseSpec

\* The log is the history of the pointer: of two publications or rollbacks that
\* expected the same release, one is refused (#appendEvent after the comparison with
\* expectedCurrentReleaseId, in one transaction).
THEOREM PointerHasItsLog == ReleaseSpec => []LogExplainsPointer
<1>1. IInv => LogExplainsPointer
  BY DEF IInv
<1> QED BY <1>1, ReleaseInvariant, PTL

\* One key, one move: no retry publishes or rolls back a second time, and each event
\* is what the request of its key asked for (the idempotency records of publishRelease
\* and rollbackRelease).
THEOREM EventsAreKeyed == ReleaseSpec => []MovesAreKeyed
<1>1. IInv => MovesAreKeyed
  BY DEF IInv
<1> QED BY <1>1, ReleaseInvariant, PTL

\* A rollback never reaches a release that was only stored (rollbackRelease,
\* target_not_previously_published).
THEOREM RollbacksGoBack == ReleaseSpec => []RollbackGoesBack
<1>1. IInv => RollbackGoesBack
  BY DEF IInv
<1> QED BY <1>1, ReleaseInvariant, PTL

\* What a step may answer to a call whose key is already used.
Replays(w) ==
  LET request == calls[w].request IN
  (calls[w].at = "calling" /\ calls'[w].at = "idle" /\ plugins' = plugins
   /\ calls'[w].answer # "none" /\ RecordOf(request) # None)
  => calls'[w].answer = IF RecordOf(request).hash = RequestHash(request)
                        THEN "replay" ELSE "idempotency_key_reused"

LEMMA OthersWait ==
  ASSUME CallsTyped, NEW v \in Workers, NEW w \in Workers, v # w,
         \/ \E kind : Answer(v, kind)
         \/ \E request : CallStore(v, request)
  PROVE  Replays(w)
<1>1. calls'[w] = calls[w]
  BY DEF Answer, CallStore, CallsTyped
<1> QED BY <1>1 DEF Replays

LEMMA StepReplays ==
  ASSUME CallsTyped, NEW w \in Workers, [ReleaseNext]_releaseVars
  PROVE  Replays(w)
<1>1. CASE UNCHANGED releaseVars
  BY <1>1 DEF releaseVars, Replays
<1>2. ASSUME NEW v \in Workers, NEW q \in Quests, NEW r \in Releases, NEW k \in Keys,
             \/ \E d \in Drafts : BeginBuild(v, q, r, d, k)
             \/ \E expected \in Releases \cup {None} : BeginPublish(v, q, r, expected, k)
             \/ \E expected \in Releases : BeginRollback(v, q, r, expected, k)
      PROVE  Replays(w)
  <2>1. /\ Free(v)
        /\ \/ \E kind : Answer(v, kind)
           \/ \E request : CallStore(v, request)
    BY <1>2 DEF BeginBuild, BeginPublish, BeginRollback, BeginMove
  <2>2. CASE v = w
    BY <2>1, <2>2 DEF Free, Replays
  <2> QED BY <2>1, <2>2, OthersWait
<1>3. ASSUME NEW v \in Workers, CreateRelease(v) \/ Publish(v) \/ Rollback(v)
      PROVE  Replays(w)
  <2>1. CASE v # w
    <3>1. \E kind : Answer(v, kind)
      BY <1>3, StoreCallEffect
    <3> QED BY <2>1, <3>1, OthersWait
  <2>2. CASE v = w /\ RecordOf(calls[w].request) = None
    BY <2>2 DEF Replays
  <2>3. CASE v = w /\ RecordOf(calls[w].request) # None
    <3>1. AnswerFromRecord(w, calls[w].request)
      BY <1>3, <2>3 DEF CreateRelease, Publish, Rollback
    <3>2. calls'[w].answer = IF RecordOf(calls[w].request).hash = RequestHash(calls[w].request)
                             THEN "replay" ELSE "idempotency_key_reused"
      BY <3>1 DEF AnswerFromRecord, Answer, CallsTyped
    <3> QED BY <3>2 DEF Replays
  <2> QED BY <2>1, <2>2, <2>3
<1>4. CASE Restart
  BY <1>4 DEF Restart, Replays
<1> QED BY <1>1, <1>2, <1>3, <1>4 DEF ReleaseNext

\* A call whose key has its answer gets that answer again, wherever the pointer has
\* moved in the meantime (#publishReplay before the comparison of the current release).
THEOREM RetriesAreReplayed == ReleaseSpec => RetryIsReplayed
<1>1. IInv /\ [ReleaseNext]_releaseVars => [\A w \in Workers : Replays(w)]_releaseVars
  BY StepReplays DEF IInv, ReleaseTypeOK, CallsTyped, LookedAt
<1>2. ReleaseSpec => [][\A w \in Workers : Replays(w)]_releaseVars
  BY <1>1, ReleaseInvariant, PTL DEF ReleaseSpec
<1> QED BY <1>2 DEF RetryIsReplayed, Replays

-------------------------------------------------------------------------------
(* The releases go on as if there were no sessions                         *)

LEMMA SessionsNextIsRelease ==
  ASSUME [SessionsNext]_<<releaseVars, sessionVars>>
  PROVE  [ReleaseNext]_releaseVars
  BY DEF SessionsNext, ControlStep, PlayerStep, RestartServer, ReleaseNext

\* Sessions are created and played beside publication and never disturb it: every
\* behaviour of both is one of the releases alone.
THEOREM SessionsKeepReleases == SessionsSpec => ReleaseSpec
<1>1. SessionsInit => ReleaseInit
  BY DEF SessionsInit
<1>2. [SessionsNext]_<<releaseVars, sessionVars>> => [ReleaseNext]_releaseVars
  BY SessionsNextIsRelease
<1> QED BY <1>1, <1>2, PTL DEF SessionsSpec, ReleaseSpec

-------------------------------------------------------------------------------
(* The inductive invariant                                                 *)

PlayerRecords ==
  [at : {"idle", "resolving", "binding", "creating", "removing", "playing"},
   pin : [quest : Quests \cup {None}, release : Releases \cup {None},
          draft : ValidDrafts \cup {None}],
   session : SessionIds \cup {None},
   answer : {"none", "refused", "created", "resolved", "release_preflight_failed"}]

SessionsTyped ==
  /\ bindings \in [SessionIds -> Pins \cup {None}]
  /\ sessions \in [SessionIds -> Pins \cup {Template, None}]
  /\ players \in [Players -> PlayerRecords]

Owner(player) == player.at \in {"creating", "removing"}

\* What a request knows, and what it owns, at each of its awaits.
FactsOf(player) ==
  LET pin == player.pin
      s == player.session
  IN
  /\ player.at \in {"resolving", "binding", "creating", "removing"} =>
       pin.quest \in Quests /\ pin.release \in Releases /\ EverPublished(pin.quest, pin.release)
  /\ player.at \in {"binding", "creating", "removing"} =>
       pin \in Pins /\ s \in SessionIds /\ releases[pin.quest][pin.release] = pin.draft
  /\ Owner(player) => bindings[s] = pin /\ (s \notin Seeded => sessions[s] = None)
  /\ player.at = "playing" => s \in SessionIds /\ sessions[s] # None /\ pin = sessions[s]

OneOwner ==
  \A p1, p2 \in Players :
    Owner(players[p1]) /\ Owner(players[p2]) /\ players[p1].session = players[p2].session
    => p1 = p2

SInv ==
  /\ IInv /\ SessionsTyped
  /\ \A p \in Players : FactsOf(players[p])
  /\ OneOwner
  /\ SessionKeepsItsScope /\ StartsOnWhatWasPublished

LEMMA SessionsInitEstablishes == SessionsInit => SInv
<1> SUFFICES ASSUME SessionsInit PROVE SInv
  OBVIOUS
<1>1. IInv
  BY InitEstablishes DEF SessionsInit
<1>2. SessionsTyped
  BY SessionAssumption DEF SessionsInit, SessionsTyped, IdlePlayer, PlayerRecords, Template
<1>3. \A p \in Players : players[p].at = "idle"
  BY DEF SessionsInit, IdlePlayer
<1>4. \A s \in SessionIds \ Seeded : sessions[s] = None
  BY DEF SessionsInit
<1> QED BY <1>1, <1>2, <1>3, <1>4
        DEF SInv, FactsOf, Owner, OneOwner, SessionKeepsItsScope, StartsOnWhatWasPublished

-------------------------------------------------------------------------------
(* Steps of the control server                                             *)

\* What has been published stays published, and what is stored stays as it is.
LEMMA PublishedStays ==
  ASSUME IInv, [ReleaseNext]_releaseVars
  PROVE  /\ Immutable
         /\ \A q, r : EverPublished(q, r) => EverPublished(q, r)'
<1>1. TablesTyped /\ Effect
  BY StepHasEffect DEF IInv, ReleaseTypeOK, TablesTyped
<1>2. Immutable
  BY <1>1, TablesStep
<1>3. CASE events' = events
  BY <1>2, <1>3 DEF EverPublished
<1>4. ASSUME NEW request \in Requests, Moves(request)
      PROVE  \A q, r : EverPublished(q, r) => EverPublished(q, r)'
  BY <1>1, <1>4, EventAppended DEF EverPublished
<1> QED BY <1>1, <1>2, <1>3, <1>4 DEF Effect, Writes, Builds, Confirms, tables

LEMMA ReleaseStep ==
  ASSUME SInv, [ReleaseNext]_releaseVars, UNCHANGED <<bindings, sessions>>,
         SessionsTyped', OneOwner',
         \A p \in Players : players'[p] = players[p] \/ players'[p].at = "idle"
  PROVE  SInv'
<1>1. IInv'
  BY StepKeeps DEF SInv
<1>2. Immutable /\ \A q, r : EverPublished(q, r) => EverPublished(q, r)'
  BY PublishedStays DEF SInv
<1>3. \A pin \in Pins : releases[pin.quest][pin.release] = pin.draft =>
                          releases'[pin.quest][pin.release] = pin.draft
  BY <1>2, ReleaseAssumption DEF Immutable, Pins
<1>4. ASSUME NEW p \in Players
      PROVE  FactsOf(players[p])'
  <2>1. CASE players'[p].at = "idle"
    BY <2>1 DEF FactsOf, Owner
  <2>2. CASE players'[p] = players[p]
    BY <1>2, <1>3, <2>2 DEF SInv, FactsOf, Owner
  <2> QED BY <2>1, <2>2
<1>5. SessionKeepsItsScope'
  <2>1. \A s \in SessionIds \ Seeded : sessions[s] # None => sessions[s] \in Pins
    BY PinAssumption DEF SInv, SessionKeepsItsScope, SessionsTyped
  <2> QED BY <1>3, <2>1 DEF SInv, SessionKeepsItsScope
<1>6. StartsOnWhatWasPublished'
  BY <1>2 DEF SInv, StartsOnWhatWasPublished
<1> QED BY <1>1, <1>4, <1>5, <1>6 DEF SInv

-------------------------------------------------------------------------------
(* Steps of the requests                                                   *)

\* A step that moves one request on and writes nothing: what the request knows then
\* must be true, and it may only own what it owned.
LEMMA QuietStepOfPlayer ==
  ASSUME SInv, NEW p \in Players, NEW player \in PlayerRecords,
         players' = [players EXCEPT ![p] = player],
         FactsOf(player),
         Owner(player) => Owner(players[p]) /\ player.session = players[p].session,
         UNCHANGED <<bindings, sessions>>, UNCHANGED releaseVars
  PROVE  SInv'
<1>1. IInv' /\ releases' = releases /\ events' = events
  BY StepKeeps DEF SInv, releaseVars
<1>2. SessionsTyped' /\ players'[p] = player
      /\ \A o \in Players \ {p} : players'[o] = players[o]
  BY DEF SInv, SessionsTyped
<1>3. ASSUME NEW o \in Players PROVE FactsOf(players[o])'
  <2>1. CASE o = p
    BY <1>1, <1>2, <2>1 DEF FactsOf, Owner, EverPublished
  <2>2. CASE o # p
    BY <1>1, <1>2, <2>2 DEF SInv, FactsOf, Owner, EverPublished
  <2> QED BY <2>1, <2>2
<1>4. OneOwner'
  BY <1>2 DEF SInv, OneOwner, Owner
<1>5. SessionKeepsItsScope' /\ StartsOnWhatWasPublished'
  BY <1>1 DEF SInv, SessionKeepsItsScope, StartsOnWhatWasPublished, EverPublished
<1> QED BY <1>1, <1>2, <1>3, <1>4, <1>5 DEF SInv

LEMMA DoneStep ==
  ASSUME SInv, NEW p \in Players,
         NEW kind \in {"none", "refused", "created", "resolved", "release_preflight_failed"},
         Done(p, kind), UNCHANGED <<bindings, sessions>>, UNCHANGED releaseVars
  PROVE  SInv'
<1> DEFINE player == [at |-> "idle", pin |-> Template, session |-> None, answer |-> kind]
<1>1. player \in PlayerRecords /\ FactsOf(player) /\ ~ Owner(player)
  BY DEF PlayerRecords, Template, FactsOf, Owner
<1>2. players' = [players EXCEPT ![p] = player]
  BY DEF Done
<1> HIDE DEF player
<1> QED BY <1>1, <1>2, QuietStepOfPlayer

LEMMA GoStep ==
  ASSUME SInv, NEW p \in Players, NEW at, NEW pin, NEW s, Go(p, at, pin, s),
         [at |-> at, pin |-> pin, session |-> s, answer |-> "none"] \in PlayerRecords,
         FactsOf([at |-> at, pin |-> pin, session |-> s, answer |-> "none"]),
         at \in {"creating", "removing"} => Owner(players[p]) /\ s = players[p].session,
         UNCHANGED <<bindings, sessions>>, UNCHANGED releaseVars
  PROVE  SInv'
<1> DEFINE player == [at |-> at, pin |-> pin, session |-> s, answer |-> "none"]
<1>1. player \in PlayerRecords /\ FactsOf(player)
      /\ (Owner(player) => Owner(players[p]) /\ player.session = players[p].session)
  BY DEF Owner
<1>2. players' = [players EXCEPT ![p] = player]
  BY DEF Go
<1> HIDE DEF player
<1> QED BY <1>1, <1>2, QuietStepOfPlayer

\* What is current has been published: the log ends there.
LEMMA CurrentIsPublished ==
  ASSUME IInv, NEW q \in Quests, current[q] # None
  PROVE  current[q] \in Releases /\ EverPublished(q, current[q])
<1>1. PointsTo(q, Len(events), current[q]) /\ DOMAIN events = 1..Len(events)
      /\ current[q] \in Releases
  BY DEF IInv, ReleaseTypeOK, LogExplainsPointer
<1> QED BY <1>1 DEF PointsTo, EverPublished

LEMMA ReadPointerStep ==
  ASSUME SInv, NEW p \in Players, NEW q \in Quests, ReadPointer(p, q), UNCHANGED releaseVars
  PROVE  SInv'
<1>1. CASE Done(p, "refused")
  BY <1>1, DoneStep DEF ReadPointer
<1>2. CASE current[q] # None /\ Go(p, "resolving", Pin(q, current[q], None), None)
  <2> DEFINE player == [at |-> "resolving", pin |-> Pin(q, current[q], None),
                        session |-> None, answer |-> "none"]
  <2>1. current[q] \in Releases /\ EverPublished(q, current[q])
    BY <1>2, CurrentIsPublished DEF SInv
  <2>2. player \in PlayerRecords
    BY <2>1 DEF PlayerRecords, Pin
  <2>3. FactsOf(player)
    BY <2>1 DEF FactsOf, Pin, Owner
  <2> QED BY <1>2, <2>2, <2>3, GoStep DEF ReadPointer
<1> QED BY <1>1, <1>2 DEF ReadPointer

LEMMA LoadReleaseStep ==
  ASSUME SInv, NEW p \in Players, NEW s \in SessionIds, LoadRelease(p, s), UNCHANGED releaseVars
  PROVE  SInv'
<1> DEFINE pin == players[p].pin
           d == releases[pin.quest][pin.release]
<1>1. CASE Done(p, "refused")
  BY <1>1, DoneStep DEF LoadRelease
<1>2. CASE d # None /\ Go(p, "binding", Pin(pin.quest, pin.release, d), s)
  <2> DEFINE player == [at |-> "binding", pin |-> Pin(pin.quest, pin.release, d),
                        session |-> s, answer |-> "none"]
  <2>1. pin.quest \in Quests /\ pin.release \in Releases /\ EverPublished(pin.quest, pin.release)
    BY DEF LoadRelease, Waiting, SInv, FactsOf
  <2>2. d \in ValidDrafts
    <3>1. releases \in [Quests -> [Releases -> ValidDrafts \cup {None}]]
      BY DEF SInv, IInv, ReleaseTypeOK
    <3>2. releases[pin.quest] \in [Releases -> ValidDrafts \cup {None}]
      BY <2>1, <3>1
    <3>3. d \in ValidDrafts \cup {None}
      BY <2>1, <3>2
    <3> QED BY <1>2, <3>3
  <2> HIDE DEF pin, d
  <2>3. player \in PlayerRecords
    BY <2>1, <2>2 DEF PlayerRecords, Pin
  <2>4. Pin(pin.quest, pin.release, d) \in Pins
    BY <2>1, <2>2 DEF Pins, Pin
  <2>5. FactsOf(player)
    BY <2>1, <2>4 DEF FactsOf, Pin, Owner, d
  <2> QED BY <1>2, <2>3, <2>5, GoStep DEF LoadRelease, d, pin
<1> QED BY <1>1, <1>2 DEF LoadRelease

LEMMA CreateThrowsStep ==
  ASSUME SInv, NEW p \in Players, CreateThrows(p) \/ CreateThrowsAuthored(p),
         UNCHANGED releaseVars
  PROVE  SInv'
<1>1. CASE CreateThrowsAuthored(p)
  BY <1>1, DoneStep DEF CreateThrowsAuthored
<1>2. CASE CreateThrows(p)
  <2> DEFINE player == [at |-> "removing", pin |-> players[p].pin,
                        session |-> players[p].session, answer |-> "none"]
  <2>1. player \in PlayerRecords
    BY DEF SInv, SessionsTyped, PlayerRecords
  <2>2. FactsOf(player) /\ Owner(players[p])
    BY <1>2 DEF CreateThrows, Waiting, SInv, FactsOf, Owner
  <2> QED BY <1>2, <2>1, <2>2, GoStep DEF CreateThrows
<1> QED BY <1>1, <1>2

LEMMA LoadSessionStep ==
  ASSUME SInv, NEW p \in Players, NEW s \in SessionIds, LoadSession(p, s), UNCHANGED releaseVars
  PROVE  SInv'
<1>1. CASE Done(p, "refused")
  BY <1>1, DoneStep DEF LoadSession
<1>2. CASE sessions[s] # None /\ Go(p, "playing", sessions[s], s)
  <2> DEFINE player == [at |-> "playing", pin |-> sessions[s], session |-> s, answer |-> "none"]
  <2>1. player \in PlayerRecords
    BY <1>2 DEF SInv, SessionsTyped, PlayerRecords, Pins, Template
  <2>2. FactsOf(player)
    BY <1>2 DEF FactsOf, Owner
  <2> QED BY <1>2, <2>1, <2>2, GoStep DEF LoadSession
<1> QED BY <1>1, <1>2 DEF LoadSession

LEMMA ResolvePinnedStep ==
  ASSUME SInv, NEW p \in Players, ResolvePinned(p), UNCHANGED releaseVars
  PROVE  SInv'
<1>1. CASE Done(p, "refused") \/ Done(p, "release_preflight_failed")
  BY <1>1, DoneStep DEF ResolvePinned
<1>2. CASE \E pin : pin = players[p].pin /\ PlayOn(p, pin)
  <2> DEFINE player == [at |-> "idle", pin |-> players[p].pin, session |-> None,
                        answer |-> "resolved"]
  <2>1. player \in PlayerRecords
    BY DEF SInv, SessionsTyped, PlayerRecords
  <2>2. FactsOf(player) /\ ~ Owner(player)
    BY DEF FactsOf, Owner
  <2>3. players' = [players EXCEPT ![p] = player]
    BY <1>2 DEF PlayOn
  <2> HIDE DEF player
  <2> QED BY <2>1, <2>2, <2>3, QuietStepOfPlayer DEF ResolvePinned
<1> QED BY <1>1, <1>2 DEF ResolvePinned

\* An id without a binding belongs to nobody, and no published session has it.
LEMMA Unbound ==
  ASSUME SInv, NEW s \in SessionIds, bindings[s] = None
  PROVE  /\ \A o \in Players : Owner(players[o]) => players[o].session # s
         /\ s \notin Seeded => sessions[s] = None
<1>1. \A o \in Players : Owner(players[o]) =>
        players[o].pin \in Pins /\ bindings[players[o].session] = players[o].pin
  BY DEF SInv, FactsOf, Owner
<1> QED BY <1>1, PinAssumption DEF SInv, SessionKeepsItsScope

LEMMA BindStep ==
  ASSUME SInv, NEW p \in Players, Bind(p), UNCHANGED releaseVars
  PROVE  SInv'
<1> DEFINE pin == players[p].pin
           s == players[p].session
           player == [at |-> "creating", pin |-> pin, session |-> s, answer |-> "none"]
<1>1. CASE Done(p, "refused") /\ UNCHANGED bindings
  BY <1>1, DoneStep DEF Bind
<1>2. CASE /\ bindings[s] = None /\ bindings' = [bindings EXCEPT ![s] = pin]
           /\ Go(p, "creating", pin, s)
  <2>1. /\ IInv' /\ releases' = releases /\ events' = events /\ sessions' = sessions
    BY StepKeeps DEF SInv, releaseVars, Bind
  <2>2. /\ pin \in Pins /\ s \in SessionIds /\ players[p].at = "binding"
    BY DEF Bind, Waiting, SInv, FactsOf
  <2>3. player \in PlayerRecords
    BY DEF SInv, SessionsTyped, PlayerRecords
  <2>4. /\ players' = [players EXCEPT ![p] = player]
        /\ players' \in [Players -> PlayerRecords] /\ players'[p] = player
        /\ \A o \in Players \ {p} : players'[o] = players[o]
    BY <1>2, <2>3 DEF Go, SInv, SessionsTyped
  <2>5. /\ bindings' \in [SessionIds -> Pins \cup {None}] /\ bindings'[s] = pin
        /\ \A t \in SessionIds \ {s} : bindings'[t] = bindings[t]
    BY <1>2, <2>2 DEF SInv, SessionsTyped
  <2>6. /\ \A o \in Players : Owner(players[o]) => players[o].session # s
        /\ s \notin Seeded => sessions[s] = None
    BY <1>2, <2>2, Unbound
  <2>7. SessionsTyped'
    BY <2>1, <2>4, <2>5 DEF SInv, SessionsTyped
  <2>8. ASSUME NEW o \in Players PROVE FactsOf(players[o])'
    <3>1. CASE o = p
      <4>1. FactsOf(players[p])
        BY DEF SInv
      <4> QED BY <2>1, <2>2, <2>4, <2>5, <2>6, <3>1, <4>1 DEF FactsOf, Owner, EverPublished
    <3>2. CASE o # p
      <4>1. FactsOf(players[o]) /\ players'[o] = players[o]
        BY <2>4, <3>2 DEF SInv
      <4> QED BY <2>1, <2>5, <2>6, <4>1 DEF FactsOf, Owner, EverPublished
    <3> QED BY <3>1, <3>2
  <2>9. OneOwner'
    BY <2>4, <2>6 DEF SInv, OneOwner, Owner
  <2>10. SessionKeepsItsScope' /\ StartsOnWhatWasPublished'
    BY <2>1, <2>5, <2>6 DEF SInv, SessionKeepsItsScope, StartsOnWhatWasPublished, EverPublished
  <2> QED BY <2>1, <2>7, <2>8, <2>9, <2>10 DEF SInv
<1> QED BY <1>1, <1>2 DEF Bind

LEMMA CreateSessionStep ==
  ASSUME SInv, NEW p \in Players, CreateSession(p), UNCHANGED releaseVars
  PROVE  SInv'
<1> DEFINE pin == players[p].pin
           s == players[p].session
           player == [at |-> "idle", pin |-> Template, session |-> None, answer |-> "created"]
<1>1. CASE /\ sessions[s] # None /\ Go(p, "removing", pin, s) /\ UNCHANGED sessions
  <2> DEFINE next == [at |-> "removing", pin |-> pin, session |-> s, answer |-> "none"]
  <2>1. next \in PlayerRecords
    BY DEF SInv, SessionsTyped, PlayerRecords
  <2>2. FactsOf(next) /\ Owner(players[p])
    BY DEF CreateSession, Waiting, SInv, FactsOf, Owner
  <2> QED BY <1>1, <2>1, <2>2, GoStep DEF CreateSession
<1>2. CASE /\ sessions[s] = None /\ sessions' = [sessions EXCEPT ![s] = pin]
           /\ Done(p, "created")
  <2>1. /\ IInv' /\ releases' = releases /\ events' = events /\ bindings' = bindings
    BY StepKeeps DEF SInv, releaseVars, CreateSession
  <2>2. /\ pin \in Pins /\ s \in SessionIds /\ Owner(players[p])
        /\ EverPublished(pin.quest, pin.release)
        /\ bindings[s] = pin /\ releases[pin.quest][pin.release] = pin.draft
    BY DEF CreateSession, Waiting, SInv, FactsOf, Owner
  <2>3. player \in PlayerRecords /\ FactsOf(player)' /\ ~ Owner(player)
    BY DEF PlayerRecords, Template, FactsOf, Owner
  <2>4. /\ players' = [players EXCEPT ![p] = player]
        /\ players' \in [Players -> PlayerRecords] /\ players'[p] = player
        /\ \A o \in Players \ {p} : players'[o] = players[o]
    BY <1>2, <2>3 DEF Done, SInv, SessionsTyped
  <2>5. /\ sessions' \in [SessionIds -> Pins \cup {Template, None}] /\ sessions'[s] = pin
        /\ \A t \in SessionIds \ {s} : sessions'[t] = sessions[t]
    BY <1>2, <2>2 DEF SInv, SessionsTyped
  <2>6. \A o \in Players \ {p} : Owner(players[o]) => players[o].session # s
    BY <2>2 DEF SInv, OneOwner
  <2>7. SessionsTyped'
    BY <2>1, <2>4, <2>5 DEF SInv, SessionsTyped
  <2>8. ASSUME NEW o \in Players PROVE FactsOf(players[o])'
    <3>1. CASE o = p
      BY <2>3, <2>4, <3>1 DEF FactsOf, Owner
    <3>2. CASE o # p
      <4>1. FactsOf(players[o]) /\ players'[o] = players[o]
        BY <2>4, <3>2 DEF SInv
      <4>2. players[o].at = "playing" => players[o].session # s
        BY <1>2, <4>1 DEF FactsOf
      <4> QED BY <2>1, <2>5, <2>6, <3>2, <4>1, <4>2 DEF FactsOf, Owner, EverPublished
    <3> QED BY <3>1, <3>2
  <2>9. OneOwner'
    BY <2>3, <2>4 DEF SInv, OneOwner
  <2>10. SessionKeepsItsScope' /\ StartsOnWhatWasPublished'
    BY <2>1, <2>2, <2>5 DEF SInv, SessionKeepsItsScope, StartsOnWhatWasPublished, EverPublished
  <2> QED BY <2>1, <2>7, <2>8, <2>9, <2>10 DEF SInv
<1> QED BY <1>1, <1>2 DEF CreateSession

LEMMA RemoveBindingStep ==
  ASSUME SInv, NEW p \in Players, RemoveBinding(p), UNCHANGED releaseVars
  PROVE  SInv'
<1> DEFINE s == players[p].session
           player == [at |-> "idle", pin |-> Template, session |-> None, answer |-> "refused"]
<1>1. /\ IInv' /\ releases' = releases /\ events' = events /\ sessions' = sessions
  BY StepKeeps DEF SInv, releaseVars, RemoveBinding
<1>2. s \in SessionIds /\ Owner(players[p]) /\ (s \notin Seeded => sessions[s] = None)
  BY DEF RemoveBinding, Waiting, SInv, FactsOf, Owner
<1>3. player \in PlayerRecords /\ ~ Owner(player)
  BY DEF PlayerRecords, Template, Owner
<1>4. /\ players' = [players EXCEPT ![p] = player]
      /\ players' \in [Players -> PlayerRecords] /\ players'[p] = player
      /\ \A o \in Players \ {p} : players'[o] = players[o]
  BY <1>3 DEF RemoveBinding, Done, SInv, SessionsTyped
<1>5. /\ bindings' \in [SessionIds -> Pins \cup {None}]
      /\ \A t \in SessionIds \ {s} : bindings'[t] = bindings[t]
  BY <1>2 DEF RemoveBinding, SInv, SessionsTyped
<1>6. \A o \in Players \ {p} : Owner(players[o]) => players[o].session # s
  BY <1>2 DEF SInv, OneOwner
<1>7. SessionsTyped'
  BY <1>1, <1>4, <1>5 DEF SInv, SessionsTyped
<1>8. ASSUME NEW o \in Players PROVE FactsOf(players[o])'
  <2>1. CASE o = p
    BY <1>4, <2>1 DEF FactsOf, Owner
  <2>2. CASE o # p
    <3>1. FactsOf(players[o]) /\ players'[o] = players[o]
      BY <1>4, <2>2 DEF SInv
    <3> QED BY <1>1, <1>5, <1>6, <2>2, <3>1 DEF FactsOf, Owner, EverPublished
  <2> QED BY <2>1, <2>2
<1>9. OneOwner'
  BY <1>3, <1>4 DEF SInv, OneOwner
<1>10. SessionKeepsItsScope' /\ StartsOnWhatWasPublished'
  BY <1>1, <1>2, <1>5 DEF SInv, SessionKeepsItsScope, StartsOnWhatWasPublished, EverPublished
<1> QED BY <1>1, <1>7, <1>8, <1>9, <1>10 DEF SInv

LEMMA SessionsStepKeeps ==
  ASSUME SInv, [SessionsNext]_<<releaseVars, sessionVars>>
  PROVE  SInv'
<1>1. [ReleaseNext]_releaseVars
  BY SessionsNextIsRelease
<1>2. CASE UNCHANGED sessionVars
  BY <1>1, <1>2, ReleaseStep DEF sessionVars, SInv, SessionsTyped, OneOwner
<1>3. ASSUME NEW p \in Players, PlayerStep(p)
      PROVE  SInv'
  BY <1>3, ReadPointerStep, LoadReleaseStep, LoadSessionStep, BindStep, CreateSessionStep,
     CreateThrowsStep, RemoveBindingStep, ResolvePinnedStep DEF PlayerStep
<1>4. CASE RestartServer
  <2>1. /\ players' = [o \in Players |-> IdlePlayer] /\ IdlePlayer \in PlayerRecords
        /\ IdlePlayer.at = "idle"
    BY <1>4 DEF RestartServer, IdlePlayer, PlayerRecords, Template
  <2>2. UNCHANGED <<bindings, sessions>>
    BY <1>4 DEF RestartServer
  <2>3. SessionsTyped' /\ OneOwner'
    BY <2>1, <2>2 DEF SInv, SessionsTyped, OneOwner, Owner
  <2>4. \A o \in Players : players'[o].at = "idle"
    BY <2>1
  <2> QED BY <1>1, <2>2, <2>3, <2>4, ReleaseStep
<1> QED BY <1>2, <1>3, <1>4 DEF SessionsNext, ControlStep

-------------------------------------------------------------------------------
(* The theorems                                                            *)

THEOREM SessionsInvariant == SessionsSpec => []SInv
<1>1. SInv /\ [SessionsNext]_<<releaseVars, sessionVars>> => SInv'
  BY SessionsStepKeeps
<1> QED BY <1>1, SessionsInitEstablishes, PTL DEF SessionsSpec

\* No session and no binding is ever pinned to anything but a release built from a
\* valid draft (the binding's columns and the session's pinned identity).
THEOREM SessionsAreTyped == SessionsSpec => []SessionsTypeOK
<1>1. SInv => SessionsTypeOK
  BY DEF SInv, IInv, SessionsTyped, SessionsTypeOK, PlayerRecords
<1> QED BY <1>1, SessionsInvariant, PTL

\* Whatever the log promises of releases alone it promises beside sessions
\* (publishRelease and rollbackRelease under the runtime's load).
THEOREM LogHoldsBesideSessions ==
  SessionsSpec => /\ [](LogExplainsPointer /\ MovesAreKeyed /\ RollbackGoesBack)
                  /\ RetryIsReplayed
BY SessionsKeepReleases, PointerHasItsLog, EventsAreKeyed, RollbacksGoBack, RetriesAreReplayed, PTL

\* "A created published session is never missing its scope", whatever fails between
\* the binding and the session, and however many requests draw the same id
\* (createGuestSession of both servers).
THEOREM ScopeIsKept == SessionsSpec => []SessionKeepsItsScope
<1>1. SInv => SessionKeepsItsScope
  BY DEF SInv
<1> QED BY <1>1, SessionsInvariant, PTL

\* A session starts on what has been published, although the pointer is read long
\* before the session is written (resolveCurrentPublishedRelease).
THEOREM StartsArePublished == SessionsSpec => []StartsOnWhatWasPublished
<1>1. SInv => StartsOnWhatWasPublished
  BY DEF SInv
<1> QED BY <1>1, SessionsInvariant, PTL

\* What a step may make of an action under way on a published session.
PlaysOn(p) ==
  LET s == players[p].session IN
  (players[p].at = "playing" /\ players'[p].at = "idle"
   /\ players'[p].answer # "none" /\ s \notin Seeded)
  => IF Installed(sessions[s].draft)
     THEN players'[p].answer = "resolved" /\ players'[p].pin = sessions[s]
     ELSE players'[p].answer = "release_preflight_failed"

LEMMA ResolvedAsPinned ==
  ASSUME SInv, NEW p \in Players, ResolvePinned(p)
  PROVE  PlaysOn(p)
<1> DEFINE s == players[p].session
           pin == players[p].pin
           d == releases[bindings[s].quest][bindings[s].release]
<1> SUFFICES ASSUME s \notin Seeded
             PROVE  IF Installed(sessions[s].draft)
                    THEN players'[p].answer = "resolved" /\ players'[p].pin = sessions[s]
                    ELSE players'[p].answer = "release_preflight_failed"
  BY DEF PlaysOn
<1>1. s \in SessionIds /\ sessions[s] # None /\ pin = sessions[s]
  BY DEF ResolvePinned, Waiting, SInv, FactsOf
<1>2. bindings[s] = sessions[s] /\ d = sessions[s].draft
  BY <1>1 DEF SInv, SessionKeepsItsScope
<1>3. /\ ~ Installed(d) => Done(p, "release_preflight_failed")
      /\ Installed(d) => PlayOn(p, sessions[s])
  BY <1>1, <1>2 DEF ResolvePinned
<1> QED BY <1>2, <1>3 DEF Done, PlayOn, SInv, SessionsTyped

LEMMA StepPlaysOn ==
  ASSUME SInv, NEW p \in Players, [SessionsNext]_<<releaseVars, sessionVars>>
  PROVE  PlaysOn(p)
<1>1. CASE UNCHANGED sessionVars
  BY <1>1 DEF sessionVars, PlaysOn
<1>2. CASE RestartServer
  BY <1>2 DEF RestartServer, IdlePlayer, PlaysOn
<1>3. ASSUME NEW o \in Players, PlayerStep(o)
      PROVE  PlaysOn(p)
  <2>1. CASE o # p
    <3>1. players'[p] = players[p]
      BY <1>3, <2>1 DEF PlayerStep, ReadPointer, LoadRelease, LoadSession, Bind, CreateSession,
         CreateThrows, CreateThrowsAuthored, RemoveBinding, ResolvePinned, Go, Done, PlayOn,
         SInv, SessionsTyped
    <3> QED BY <3>1 DEF PlaysOn
  <2>2. CASE o = p /\ ResolvePinned(p)
    BY <2>2, ResolvedAsPinned
  <2>3. CASE o = p /\ players[p].at # "playing"
    BY <2>3 DEF PlaysOn
  <2> QED BY <1>3, <2>1, <2>2, <2>3 DEF PlayerStep, ReadPointer, LoadRelease, LoadSession, Bind,
       CreateSession, CreateThrows, CreateThrowsAuthored, RemoveBinding, Waiting
<1> QED BY <1>1, <1>2, <1>3 DEF SessionsNext, ControlStep

\* An action of a published session runs on the release the session was created on,
\* or fails the preflight because a plugin is gone; wherever the pointer has moved
\* (resolvePinnedPublishedRelease).
THEOREM PlayedAsCreated == SessionsSpec => PlaysItsOwnRelease
<1>1. SInv /\ [SessionsNext]_<<releaseVars, sessionVars>>
      => [\A p \in Players : PlaysOn(p)]_<<releaseVars, sessionVars>>
  BY StepPlaysOn
<1>2. SessionsSpec => [][\A p \in Players : PlaysOn(p)]_<<releaseVars, sessionVars>>
  BY <1>1, SessionsInvariant, PTL DEF SessionsSpec
<1> QED BY <1>2 DEF PlaysItsOwnRelease, PlaysOn
===============================================================================
