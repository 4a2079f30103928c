---------------------------- MODULE RuntimeStorage ----------------------------
(***************************************************************************)
(* The operation state machine behind the RuntimeStorage interface of      *)
(* packages/runtime: sessions with a revision, one operation per           *)
(* idempotency key, a service-time lease and a fencing token per claim,    *)
(* and the turn records a session accumulates.                             *)
(*                                                                         *)
(* Each method is an outcome operator, which is the method's sequence of   *)
(* early returns, and an action, which is what the method writes.  A       *)
(* method reads the service clock once, when it is entered.  The SQLite    *)
(* adapter then waits for the write lock, so the reading it decides with   *)
(* may be up to MaxLag old when its transaction runs; the in-process       *)
(* adapter never waits, and is the case MaxLag = 0.                        *)
(*                                                                         *)
(* An operation id is the pair of its session and its idempotency key:     *)
(* operations are UNIQUE (session_id, idempotency_key) and ids come from a *)
(* counter kept with them, so the two identify each other.                 *)
(***************************************************************************)
EXTENDS Integers, Sequences, FiniteSets

CONSTANTS
  Sessions,      \* session ids
  Keys,          \* idempotency keys
  Hashes,        \* canonical (lower case) request hashes
  Worlds,        \* world states, up to their revision
  InitialWorld,  \* the world a session starts with
  TurnIds,       \* turn ids
  Responses,     \* public responses that pass isPublicResponse
  NoKey,         \* activeOperationId = null
  NoTurn,        \* turnId = null
  NoResponse,    \* publicResponse = null; as an input, a response that is rejected
  MaxSafe,       \* Number.MAX_SAFE_INTEGER
  MaxLease,      \* MAX_LEASE_DURATION_MS
  MaxLag         \* how old a clock reading may be when it is used

ASSUME ConstantAssumption ==
  /\ MaxSafe \in Nat /\ MaxLease \in Nat \ {0} /\ MaxLag \in Nat
  /\ InitialWorld \in Worlds /\ Hashes # {}
  /\ NoKey \notin Keys
  /\ NoTurn \notin TurnIds
  /\ NoResponse \notin Responses

VARIABLES
  now,        \* the service clock (ServiceClock.nowMs), not the game clock
  session,    \* the sessions table
  operation,  \* the operations table, per session and idempotency key
  turns       \* the turns of each session, in the order they were written

vars == <<now, session, operation, turns>>

SafeNat == 0..MaxSafe
NoLease == -1
Outcomes == {"completed", "finished_without_turn"}

\* A turn, without its session (the index of turns) and its state hash.
TurnRecord == [turnId : TurnIds, operationId : Keys, beforeRevision : SafeNat,
               afterRevision : SafeNat]

SessionRecord == [created : BOOLEAN, revision : SafeNat, state : Worlds,
                  activeOperationId : Keys \cup {NoKey}, fencingCounter : SafeNat]

OperationRecord ==
  [status : {"absent", "processing"} \cup Outcomes, requestHash : Hashes,
   expectedRevision : SafeNat, leaseExpiresAtMs : SafeNat \cup {NoLease},
   fencingToken : SafeNat, turnId : TurnIds \cup {NoTurn},
   publicResponse : Responses \cup {NoResponse}]

TypeOK ==
  /\ now \in SafeNat
  /\ session \in [Sessions -> SessionRecord]
  /\ operation \in [Sessions -> [Keys -> OperationRecord]]
  /\ turns \in [Sessions -> Seq(TurnRecord)]

NoSession == [created |-> FALSE, revision |-> 0, state |-> InitialWorld,
              activeOperationId |-> NoKey, fencingCounter |-> 0]

NoOperation(h) ==
  [status |-> "absent", requestHash |-> h, expectedRevision |-> 0,
   leaseExpiresAtMs |-> NoLease, fencingToken |-> 0, turnId |-> NoTurn,
   publicResponse |-> NoResponse]

Init ==
  /\ now = 0
  /\ session = [s \in Sessions |-> NoSession]
  /\ operation = [s \in Sessions |-> [k \in Keys |-> NoOperation(CHOOSE h \in Hashes : TRUE)]]
  /\ turns = [s \in Sessions |-> <<>>]

-------------------------------------------------------------------------------
(* The clock and the sessions.                                             *)

Readings == {t \in SafeNat : t <= now /\ now <= t + MaxLag}

Tick ==
  /\ now < MaxSafe
  /\ now' = now + 1
  /\ UNCHANGED <<session, operation, turns>>

CreateOutcome(s) == IF session[s].created THEN "session_exists" ELSE "created"

CreateGuestSession(s) ==
  /\ session' = IF CreateOutcome(s) = "created"
                THEN [session EXCEPT ![s].created = TRUE] ELSE session
  /\ UNCHANGED <<now, operation, turns>>

-------------------------------------------------------------------------------
(* claimOperation: replay, refuse, take over an expired lease, or start.   *)

Active(s) == session[s].activeOperationId
LeaseEnd(t, dur) == t + dur
Leased(op, t) == op.leaseExpiresAtMs # NoLease /\ t < op.leaseExpiresAtMs
CanFence(s) == session[s].fencingCounter # MaxSafe

ReacquireOutcome(s, k, rev) ==
  IF session[s].revision # rev THEN "revision_conflict"
  ELSE IF Active(s) # NoKey /\ Active(s) # k THEN "action_in_progress"
  ELSE IF ~CanFence(s) THEN "invalid_request"
  ELSE "reacquired"

\* A bug: a decided operation is claimed again instead of being replayed.
ExistingOutcomeNoReplay(s, k, h, rev, t) ==
  LET op == operation[s][k] IN
  IF op.requestHash # h \/ op.expectedRevision # rev THEN "idempotency_key_reused"
  ELSE IF Leased(op, t) THEN "processing"
  ELSE ReacquireOutcome(s, k, rev)

ExistingOutcome(s, k, h, rev, t) ==
  LET op == operation[s][k] IN
  IF op.requestHash # h \/ op.expectedRevision # rev THEN "idempotency_key_reused"
  ELSE IF op.status # "processing" THEN "replay"
  ELSE IF Leased(op, t) THEN "processing"
  ELSE ReacquireOutcome(s, k, rev)

\* A bug: a new key does not look at the operation under way.
FirstOutcomeIgnoresActive(s, rev) ==
  IF session[s].revision # rev THEN "revision_conflict"
  ELSE IF ~CanFence(s) THEN "invalid_request"
  ELSE "acquired"

FirstOutcome(s, rev) ==
  IF session[s].revision # rev THEN "revision_conflict"
  ELSE IF Active(s) # NoKey THEN "action_in_progress"
  ELSE IF ~CanFence(s) THEN "invalid_request"
  ELSE "acquired"

ClaimOutcome(s, k, h, rev, t, dur) ==
  IF dur \notin 1..MaxLease \/ LeaseEnd(t, dur) > MaxSafe THEN "invalid_request"
  ELSE IF ~session[s].created THEN "session_not_found"
  ELSE IF operation[s][k].status # "absent" THEN ExistingOutcome(s, k, h, rev, t)
  ELSE FirstOutcome(s, rev)

Granted == {"acquired", "reacquired"}

\* What a granted claim leaves in the operations table.
ClaimedRecord(s, k, h, rev, t, dur) ==
  [operation[s][k] EXCEPT
     !.status = "processing", !.requestHash = h, !.expectedRevision = rev,
     !.leaseExpiresAtMs = LeaseEnd(t, dur),
     !.fencingToken = session[s].fencingCounter + 1]

GrantClaim(s, k, h, rev, t, dur) ==
  /\ session' = [session EXCEPT ![s].activeOperationId = k,
                                ![s].fencingCounter = @ + 1]
  /\ operation' = [operation EXCEPT ![s][k] = ClaimedRecord(s, k, h, rev, t, dur)]
  /\ UNCHANGED <<now, turns>>

ClaimOperation(s, k, h, rev, t, dur) ==
  IF ClaimOutcome(s, k, h, rev, t, dur) \in Granted
  THEN GrantClaim(s, k, h, rev, t, dur)
  ELSE UNCHANGED vars

-------------------------------------------------------------------------------
(* renewLease, commitTurn, finishWithoutTurn: for the lease holder only.   *)

HolderOutcome(s, k, token, t) ==
  IF Active(s) # k THEN "operation_not_active"
  ELSE IF operation[s][k].fencingToken # token THEN "stale_fencing_token"
  ELSE IF ~Leased(operation[s][k], t) THEN "lease_expired"
  ELSE "holder"

OperationOutcome(s, k) ==
  IF ~session[s].created THEN "session_not_found"
  ELSE IF operation[s][k].status = "absent" THEN "operation_not_found"
  ELSE IF operation[s][k].status # "processing" THEN "operation_not_processing"
  ELSE "operation"

RenewOutcome(s, k, token, t, dur) ==
  IF dur \notin 1..MaxLease \/ LeaseEnd(t, dur) > MaxSafe THEN "invalid_request"
  ELSE IF OperationOutcome(s, k) # "operation" THEN OperationOutcome(s, k)
  ELSE IF HolderOutcome(s, k, token, t) # "holder" THEN HolderOutcome(s, k, token, t)
  ELSE "renewed"

RenewLease(s, k, token, t, dur) ==
  /\ operation' = IF RenewOutcome(s, k, token, t, dur) = "renewed"
                  THEN [operation EXCEPT ![s][k].leaseExpiresAtMs = LeaseEnd(t, dur)]
                  ELSE operation
  /\ UNCHANGED <<now, session, turns>>

\* A bug: a completion is not held to the revision the operation was claimed at.
CompletionOutcomeAnyRevision(s, k, rev, token, t) ==
  IF OperationOutcome(s, k) # "operation" THEN OperationOutcome(s, k)
  ELSE HolderOutcome(s, k, token, t)

CompletionOutcome(s, k, rev, token, t) ==
  IF OperationOutcome(s, k) # "operation" THEN OperationOutcome(s, k)
  ELSE IF session[s].revision # rev \/ operation[s][k].expectedRevision # rev
       THEN "revision_conflict"
  ELSE HolderOutcome(s, k, token, t)

\* A turn id is the primary key of one table for all sessions.
TurnExists(id) == \E s \in Sessions : \E i \in DOMAIN turns[s] : turns[s][i].turnId = id

IsValidTurnRecord(turn, k, rev) ==
  /\ turn.operationId = k
  /\ turn.beforeRevision = rev
  /\ turn.afterRevision = rev + 1

\* candidate is [revision, state]; turn is a TurnRecord.
CommitOutcome(s, k, rev, token, candidate, turn, response, t) ==
  LET held == CompletionOutcome(s, k, rev, token, t) IN
  IF held # "holder" THEN held
  ELSE IF rev = MaxSafe \/ candidate.revision # rev + 1 THEN "invalid_candidate_state"
  ELSE IF ~IsValidTurnRecord(turn, k, rev) \/ TurnExists(turn.turnId)
       THEN "invalid_turn_record"
  ELSE IF response = NoResponse THEN "invalid_public_response"
  ELSE "committed"

CompletedRecord(s, k, status, turnId, response) ==
  [operation[s][k] EXCEPT !.status = status, !.leaseExpiresAtMs = NoLease,
                          !.turnId = turnId, !.publicResponse = response]

\* A bug: the new revision is saved without the new world.
PublishTurnKeepsWorld(s, k, candidate, turn, response) ==
  /\ session' = [session EXCEPT ![s].revision = candidate.revision,
                                ![s].activeOperationId = NoKey]
  /\ operation' = [operation EXCEPT
       ![s][k] = CompletedRecord(s, k, "completed", turn.turnId, response)]
  /\ turns' = [turns EXCEPT ![s] = Append(@, turn)]
  /\ UNCHANGED now

PublishTurn(s, k, candidate, turn, response) ==
  /\ session' = [session EXCEPT ![s].state = candidate.state,
                                ![s].revision = candidate.revision,
                                ![s].activeOperationId = NoKey]
  /\ operation' = [operation EXCEPT
       ![s][k] = CompletedRecord(s, k, "completed", turn.turnId, response)]
  /\ turns' = [turns EXCEPT ![s] = Append(@, turn)]
  /\ UNCHANGED now

CommitTurn(s, k, rev, token, candidate, turn, response, t) ==
  IF CommitOutcome(s, k, rev, token, candidate, turn, response, t) = "committed"
  THEN PublishTurn(s, k, candidate, turn, response)
  ELSE UNCHANGED vars

FinishOutcome(s, k, rev, token, response, t) ==
  LET held == CompletionOutcome(s, k, rev, token, t) IN
  IF held # "holder" THEN held
  ELSE IF response = NoResponse THEN "invalid_public_response"
  ELSE "finished"

\* A bug: the operation is forgotten, so that its key may run again.
ReleaseForgetsKey(s, k, response) ==
  /\ session' = [session EXCEPT ![s].activeOperationId = NoKey]
  /\ operation' = [operation EXCEPT ![s][k] = NoOperation(@.requestHash)]
  /\ UNCHANGED <<now, turns>>

ReleaseWithoutTurn(s, k, response) ==
  /\ session' = [session EXCEPT ![s].activeOperationId = NoKey]
  /\ operation' = [operation EXCEPT
       ![s][k] = CompletedRecord(s, k, "finished_without_turn", NoTurn, response)]
  /\ UNCHANGED <<now, turns>>

FinishWithoutTurn(s, k, rev, token, response, t) ==
  IF FinishOutcome(s, k, rev, token, response, t) = "finished"
  THEN ReleaseWithoutTurn(s, k, response)
  ELSE UNCHANGED vars

-------------------------------------------------------------------------------
(* Any caller may call any method, in any order.  Arguments range over all *)
(* their values, except that the revisions inside a commit's candidate and *)
(* turn record are the expected one or its successor (CallerRevisions).    *)

Durations == 1..MaxLease
CallerRevisions(rev) == {rev, rev + 1} \cap SafeNat
CallerCandidates(rev) == [revision : CallerRevisions(rev), state : Worlds]
CallerTurns(rev) == [turnId : TurnIds, operationId : Keys,
                     beforeRevision : CallerRevisions(rev), afterRevision : CallerRevisions(rev)]

Claims == \E s \in Sessions, k \in Keys, h \in Hashes, rev \in SafeNat,
             t \in Readings, dur \in Durations : ClaimOperation(s, k, h, rev, t, dur)

Renewals == \E s \in Sessions, k \in Keys, token \in SafeNat, t \in Readings,
               dur \in Durations : RenewLease(s, k, token, t, dur)

\* Whoever does not hold the operation is refused before the candidate and the
\* turn record are looked at.
Commits ==
  \E s \in Sessions, k \in Keys, rev \in SafeNat, token \in SafeNat, t \in Readings :
    /\ CompletionOutcome(s, k, rev, token, t) = "holder"
    /\ \E response \in Responses \cup {NoResponse},
          candidate \in CallerCandidates(rev), turn \in CallerTurns(rev) :
         CommitTurn(s, k, rev, token, candidate, turn, response, t)

Finishes ==
  \E s \in Sessions, k \in Keys, rev \in SafeNat, token \in SafeNat, t \in Readings,
     response \in Responses \cup {NoResponse} :
    FinishWithoutTurn(s, k, rev, token, response, t)

Next ==
  \/ Tick
  \/ \E s \in Sessions : CreateGuestSession(s)
  \/ Claims
  \/ Renewals
  \/ Commits
  \/ Finishes

Spec == Init /\ [][Next]_vars

-------------------------------------------------------------------------------
(* What the storage guarantees, whoever calls it and whatever the clock    *)
(* reads.                                                                  *)

Processing(s) == {k \in Keys : operation[s][k].status = "processing"}
Decided(s) == {k \in Keys : operation[s][k].status \in Outcomes}

\* A session has at most one operation under way, and activeOperationId names
\* it: no operation is left processing once the session has been released, and
\* a released session is free for the next claim (claimOperation, commitTurn).
OneActiveOperation ==
  \A s \in Sessions : Processing(s) = {Active(s)} \ {NoKey}

\* The operation under way was claimed at the revision the session still has,
\* so its holder is never answered revision_conflict: nothing can publish
\* between a claim and its completion, however often the lease changes hands.
ActiveIsCurrent ==
  \A s \in Sessions, k \in Keys :
    Active(s) = k => operation[s][k].expectedRevision = session[s].revision

\* Fencing: the token of the operation under way is the newest ever granted in
\* its session, and two operations never carry the same token, so a token names
\* one grant (nextFencingToken in both branches of claimOperation).
TokensNameGrants ==
  \A s \in Sessions, k \in Keys :
    /\ operation[s][k].fencingToken <= session[s].fencingCounter
    /\ Active(s) = k => operation[s][k].fencingToken = session[s].fencingCounter
    /\ \A j \in Keys \ {k} :
         operation[s][k].status # "absent" /\ operation[s][j].status # "absent"
           => operation[s][k].fencingToken # operation[s][j].fencingToken

\* Whoever has the session has it alone, at its revision and with its newest
\* token, whatever the clock reads and however often the lease changes hands.
SingleFencedOwner == OneActiveOperation /\ ActiveIsCurrent /\ TokensNameGrants

\* The turns of a session are exactly its revisions: turn i takes revision i - 1
\* to i, and the operation it names is completed, was claimed at i - 1 and points
\* back at that turn (the three writes of commitTurn agree).
TurnsExplainRevision ==
  \A s \in Sessions :
    /\ Len(turns[s]) = session[s].revision
    /\ \A i \in 1..Len(turns[s]) :
         LET turn == turns[s][i]
             op == operation[s][turn.operationId] IN
         /\ turn.beforeRevision = i - 1
         /\ turn.afterRevision = i
         /\ op.status = "completed"
         /\ op.expectedRevision = i - 1
         /\ op.turnId = turn.turnId

\* Exactly once: the operations completed with a turn are those the turns name,
\* and each is named once; one that is under way, or was finished without a turn,
\* has none.
OneTurnPerOperation ==
  \A s \in Sessions :
    /\ \A k \in Keys :
         operation[s][k].status = "completed"
           <=> \E i \in 1..Len(turns[s]) : turns[s][i].operationId = k
    /\ \A i, j \in 1..Len(turns[s]) :
         turns[s][i].operationId = turns[s][j].operationId => i = j

\* The history, the revision and the decided operations tell the same story.
HistoryAgrees == TurnsExplainRevision /\ OneTurnPerOperation

\* A decided operation keeps its outcome and its response for ever, which is
\* what makes a retry of its key a replay (claimOperation's replay branch).
DecidedStay ==
  [][\A s \in Sessions : \A k \in Decided(s) : operation'[s][k] = operation[s][k]]_vars

\* The world and the revision move only together with one appended turn of the
\* operation under way, whose token is the newest; every other step leaves them
\* alone, and the turns already written are never rewritten (commitTurn).
WorldMovesByTurns ==
  [][\A s \in Sessions :
       \/ /\ session'[s].state = session[s].state
          /\ session'[s].revision = session[s].revision
          /\ turns'[s] = turns[s]
       \/ /\ session'[s].revision = session[s].revision + 1
          /\ \E turn \in TurnRecord :
               /\ turns'[s] = Append(turns[s], turn)
               /\ turn.operationId = Active(s)
               /\ operation[s][turn.operationId].fencingToken = session[s].fencingCounter]_vars

-------------------------------------------------------------------------------
(* The turn ledger a storage state stands for.                             *)

DecisionOf(op) == CASE op.status = "completed" -> "turn"
                    [] op.status = "finished_without_turn" -> "without_turn"
                    [] OTHER -> "open"

OwnerBar == [s \in Sessions |-> Active(s)]
DecisionBar == [s \in Sessions |-> [k \in Keys |-> DecisionOf(operation[s][k])]]
LedgerBar == [s \in Sessions |-> [i \in 1..Len(turns[s]) |-> turns[s][i].operationId]]

Ledger == INSTANCE TurnLedger WITH
            owner <- OwnerBar, decision <- DecisionBar, ledger <- LedgerBar

\* The storage implements the ledger: every step of claimOperation, renewLease,
\* commitTurn and finishWithoutTurn grants a free session, decides the key under
\* way, or leaves owners, decisions and the order of the turns alone.
ImplementsLedger == Ledger!Spec
===============================================================================
