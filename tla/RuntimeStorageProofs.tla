------------------------- MODULE RuntimeStorageProofs -------------------------
(***************************************************************************)
(* Proofs about RuntimeStorage for every set of sessions, keys and turns,  *)
(* every clock bound and every clock lag.  The inductive invariant is the  *)
(* conjunction of the checked invariants: each needs some of the others    *)
(* (a commit appends at the session's revision, which ActiveIsCurrent ties *)
(* to the operation's, and leaves no turn behind, which                    *)
(* OneActiveOperation gives).                                              *)
(***************************************************************************)
EXTENDS RuntimeStorage, SequenceTheorems, TLAPS

-------------------------------------------------------------------------------
(* What the early returns of the methods leave to be true.                 *)

\* A granted claim finds the session at the expected revision, free or held by the
\* same key, and the operation undecided.
LEMMA GrantFacts ==
  ASSUME NEW s \in Sessions, NEW k \in Keys, NEW h \in Hashes, NEW rev \in SafeNat,
         NEW t \in SafeNat, NEW dur \in Durations, TypeOK,
         ClaimOutcome(s, k, h, rev, t, dur) \in Granted
  PROVE  /\ session[s].created
         /\ session[s].revision = rev
         /\ Active(s) \in {NoKey, k}
         /\ operation[s][k].status \in {"absent", "processing"}
         /\ session[s].fencingCounter + 1 \in SafeNat
         /\ LeaseEnd(t, dur) \in SafeNat
  BY ConstantAssumption DEF ClaimOutcome, ExistingOutcome, ReacquireOutcome, FirstOutcome, Granted,
     CanFence, Leased, LeaseEnd, Durations, SafeNat, TypeOK, SessionRecord, OperationRecord,
     Outcomes

\* Whoever completes an operation holds the session with the newest token, at the
\* revision the operation was claimed at.
LEMMA HolderFacts ==
  ASSUME NEW s \in Sessions, NEW k \in Keys, NEW rev, NEW token, NEW t,
         CompletionOutcome(s, k, rev, token, t) = "holder"
  PROVE  /\ operation[s][k].status = "processing"
         /\ Active(s) = k
         /\ session[s].revision = rev
         /\ operation[s][k].expectedRevision = rev
         /\ operation[s][k].fencingToken = token
  BY DEF CompletionOutcome, OperationOutcome, HolderOutcome

LEMMA RenewFacts ==
  ASSUME NEW s \in Sessions, NEW k \in Keys, NEW token, NEW t \in SafeNat,
         NEW dur \in Durations, RenewOutcome(s, k, token, t, dur) = "renewed"
  PROVE  LeaseEnd(t, dur) \in SafeNat /\ operation[s][k].status = "processing"
  BY ConstantAssumption DEF RenewOutcome, OperationOutcome, HolderOutcome, LeaseEnd, Durations, SafeNat

-------------------------------------------------------------------------------
(* The effects of a step: what Next comes to once the early returns have    *)
(* left the state alone.                                                    *)

StorageUnchanged == UNCHANGED <<session, operation, turns>>

CreateEffect(s) ==
  /\ session' = [session EXCEPT ![s].created = TRUE]
  /\ UNCHANGED <<operation, turns>>

GrantEffect(s, k, h, rev, t, dur) ==
  /\ session[s].revision = rev
  /\ Active(s) \in {NoKey, k}
  /\ operation[s][k].status \in {"absent", "processing"}
  /\ session[s].fencingCounter + 1 \in SafeNat
  /\ LeaseEnd(t, dur) \in SafeNat
  /\ GrantClaim(s, k, h, rev, t, dur)

RenewEffect(s, k, end) ==
  /\ operation[s][k].status = "processing"
  /\ operation' = [operation EXCEPT ![s][k].leaseExpiresAtMs = end]
  /\ UNCHANGED <<session, turns>>

Holds(s, k, rev) ==
  /\ operation[s][k].status = "processing"
  /\ Active(s) = k
  /\ session[s].revision = rev
  /\ operation[s][k].expectedRevision = rev

PublishEffect(s, k, rev, candidate, turn, response) ==
  /\ Holds(s, k, rev)
  /\ rev + 1 \in SafeNat
  /\ candidate.revision = rev + 1
  /\ candidate.state \in Worlds
  /\ turn \in TurnRecord
  /\ IsValidTurnRecord(turn, k, rev)
  /\ response \in Responses
  /\ PublishTurn(s, k, candidate, turn, response)

ReleaseEffect(s, k, rev, response) ==
  /\ Holds(s, k, rev)
  /\ response \in Responses
  /\ ReleaseWithoutTurn(s, k, response)

Effect ==
  \/ StorageUnchanged
  \/ \E s \in Sessions : CreateEffect(s)
  \/ \E s \in Sessions, k \in Keys, h \in Hashes, rev \in SafeNat, t \in SafeNat,
        dur \in Durations : GrantEffect(s, k, h, rev, t, dur)
  \/ \E s \in Sessions, k \in Keys, end \in SafeNat : RenewEffect(s, k, end)
  \/ \E s \in Sessions, k \in Keys, rev \in SafeNat, response \in Responses :
       \E candidate \in [revision : SafeNat, state : Worlds], turn \in TurnRecord :
         PublishEffect(s, k, rev, candidate, turn, response)
  \/ \E s \in Sessions, k \in Keys, rev \in SafeNat, response \in Responses :
       ReleaseEffect(s, k, rev, response)

LEMMA StepHasEffect ==
  ASSUME TypeOK, [Next]_vars
  PROVE  Effect /\ now' \in SafeNat
<1>1. CASE UNCHANGED vars
  BY <1>1 DEF vars, Effect, StorageUnchanged, TypeOK
<1>2. CASE Tick
  BY <1>2, ConstantAssumption DEF Tick, Effect, StorageUnchanged, TypeOK, SafeNat
<1>3. ASSUME NEW s \in Sessions, CreateGuestSession(s)
      PROVE  Effect /\ now' \in SafeNat
  BY <1>3 DEF CreateGuestSession, Effect, CreateEffect, StorageUnchanged, TypeOK
<1>4. CASE Claims
  <2>1. PICK s \in Sessions, k \in Keys, h \in Hashes, rev \in SafeNat,
             t \in Readings, dur \in Durations : ClaimOperation(s, k, h, rev, t, dur)
    BY <1>4 DEF Claims
  <2>2. t \in SafeNat
    BY DEF Readings
  <2>3. CASE ClaimOutcome(s, k, h, rev, t, dur) \in Granted
    <3>1. GrantClaim(s, k, h, rev, t, dur)
      BY <2>1, <2>3 DEF ClaimOperation
    <3>2. GrantEffect(s, k, h, rev, t, dur)
      BY <2>2, <2>3, <3>1, GrantFacts DEF GrantEffect
    <3>3. now' \in SafeNat
      BY <3>1 DEF GrantClaim, TypeOK
    <3> QED BY <2>2, <3>2, <3>3 DEF Effect
  <2>4. CASE ~(ClaimOutcome(s, k, h, rev, t, dur) \in Granted)
    BY <2>1, <2>4 DEF ClaimOperation, vars, Effect, StorageUnchanged, TypeOK
  <2> QED BY <2>3, <2>4
<1>5. CASE Renewals
  <2>1. PICK s \in Sessions, k \in Keys, token \in SafeNat, t \in Readings,
             dur \in Durations : RenewLease(s, k, token, t, dur)
    BY <1>5 DEF Renewals
  <2>2. t \in SafeNat
    BY DEF Readings
  <2>3. now' \in SafeNat /\ UNCHANGED <<session, turns>>
    BY <2>1 DEF RenewLease, TypeOK
  <2>4. CASE RenewOutcome(s, k, token, t, dur) = "renewed"
    <3>1. LeaseEnd(t, dur) \in SafeNat /\ operation[s][k].status = "processing"
      BY <2>2, <2>4, RenewFacts
    <3>2. RenewEffect(s, k, LeaseEnd(t, dur))
      BY <2>1, <2>4, <3>1 DEF RenewLease, RenewEffect
    <3> QED BY <2>3, <3>1, <3>2 DEF Effect
  <2>5. CASE RenewOutcome(s, k, token, t, dur) # "renewed"
    BY <2>1, <2>3, <2>5 DEF RenewLease, Effect, StorageUnchanged
  <2> QED BY <2>4, <2>5
<1>6. CASE Commits
  <2>1. PICK s \in Sessions, k \in Keys, rev \in SafeNat, token \in SafeNat, t \in Readings,
             response \in Responses \cup {NoResponse} :
             \E candidate \in CallerCandidates(rev), turn \in CallerTurns(rev) :
               CommitTurn(s, k, rev, token, candidate, turn, response, t)
    BY <1>6 DEF Commits
  <2>2. PICK candidate \in CallerCandidates(rev), turn \in CallerTurns(rev) :
               CommitTurn(s, k, rev, token, candidate, turn, response, t)
    BY <2>1
  <2>3. candidate \in [revision : SafeNat, state : Worlds] /\ turn \in TurnRecord
    BY DEF CallerCandidates, CallerTurns, CallerRevisions, TurnRecord
  <2>4. CASE CommitOutcome(s, k, rev, token, candidate, turn, response, t) = "committed"
    <3>1. PublishTurn(s, k, candidate, turn, response)
      BY <2>2, <2>4 DEF CommitTurn
    <3>2. /\ CompletionOutcome(s, k, rev, token, t) = "holder"
          /\ rev # MaxSafe /\ candidate.revision = rev + 1
          /\ IsValidTurnRecord(turn, k, rev)
          /\ response \in Responses
      BY <2>4 DEF CommitOutcome, CompletionOutcome, OperationOutcome, HolderOutcome
    <3>3. Holds(s, k, rev)
      BY <3>2, HolderFacts DEF Holds
    <3>4. rev + 1 \in SafeNat
      BY <3>2, ConstantAssumption DEF SafeNat
    <3>5. PublishEffect(s, k, rev, candidate, turn, response)
      BY <2>3, <3>1, <3>2, <3>3, <3>4 DEF PublishEffect
    <3>6. now' \in SafeNat
      BY <3>1 DEF PublishTurn, TypeOK
    <3> QED BY <2>3, <3>2, <3>5, <3>6 DEF Effect
  <2>5. CASE CommitOutcome(s, k, rev, token, candidate, turn, response, t) # "committed"
    BY <2>2, <2>5 DEF CommitTurn, vars, Effect, StorageUnchanged, TypeOK
  <2> QED BY <2>4, <2>5
<1>7. CASE Finishes
  <2>1. PICK s \in Sessions, k \in Keys, rev \in SafeNat, token \in SafeNat, t \in Readings,
             response \in Responses \cup {NoResponse} :
          FinishWithoutTurn(s, k, rev, token, response, t)
    BY <1>7 DEF Finishes
  <2>2. CASE FinishOutcome(s, k, rev, token, response, t) = "finished"
    <3>1. ReleaseWithoutTurn(s, k, response)
      BY <2>1, <2>2 DEF FinishWithoutTurn
    <3>2. CompletionOutcome(s, k, rev, token, t) = "holder" /\ response \in Responses
      BY <2>2 DEF FinishOutcome, CompletionOutcome, OperationOutcome, HolderOutcome
    <3>3. Holds(s, k, rev)
      BY <3>2, HolderFacts DEF Holds
    <3>4. ReleaseEffect(s, k, rev, response)
      BY <3>1, <3>2, <3>3 DEF ReleaseEffect
    <3>5. now' \in SafeNat
      BY <3>1 DEF ReleaseWithoutTurn, TypeOK
    <3> QED BY <3>2, <3>4, <3>5 DEF Effect
  <2>3. CASE FinishOutcome(s, k, rev, token, response, t) # "finished"
    BY <2>1, <2>3 DEF FinishWithoutTurn, vars, Effect, StorageUnchanged, TypeOK
  <2> QED BY <2>2, <2>3
<1> QED BY <1>1, <1>2, <1>3, <1>4, <1>5, <1>6, <1>7 DEF Next

-------------------------------------------------------------------------------
(* Type correctness.                                                        *)

LEMMA InitTypeOK == Init => TypeOK
  BY ConstantAssumption, EmptySeq
     DEF Init, TypeOK, SafeNat, SessionRecord, OperationRecord, NoSession, NoOperation

LEMMA ReplacedOperation ==
  ASSUME TypeOK, NEW s \in Sessions, NEW k \in Keys, NEW r \in OperationRecord,
         operation' = [operation EXCEPT ![s][k] = r]
  PROVE  operation' \in [Sessions -> [Keys -> OperationRecord]]
  BY DEF TypeOK

LEMMA RecordsTyped ==
  ASSUME TypeOK, NEW s \in Sessions, NEW k \in Keys
  PROVE  session[s] \in SessionRecord /\ operation[s][k] \in OperationRecord
  BY DEF TypeOK

LEMMA EffectTypeOK ==
  ASSUME TypeOK, Effect, now' \in SafeNat
  PROVE  TypeOK'
<1>1. CASE StorageUnchanged
  BY <1>1 DEF StorageUnchanged, TypeOK
<1>2. ASSUME NEW s \in Sessions, CreateEffect(s)
      PROVE  TypeOK'
  BY <1>2 DEF CreateEffect, TypeOK, SessionRecord
<1>3. ASSUME NEW s \in Sessions, NEW k \in Keys, NEW h \in Hashes, NEW rev \in SafeNat,
             NEW t \in SafeNat, NEW dur \in Durations, GrantEffect(s, k, h, rev, t, dur)
      PROVE  TypeOK'
  <2>1. ClaimedRecord(s, k, h, rev, t, dur) \in OperationRecord
    <3>1. operation[s][k] \in OperationRecord
      BY RecordsTyped
    <3>2. LeaseEnd(t, dur) \in SafeNat /\ session[s].fencingCounter + 1 \in SafeNat
      BY <1>3 DEF GrantEffect
    <3> QED BY <3>1, <3>2 DEF ClaimedRecord, OperationRecord
  <2>2. session' \in [Sessions -> SessionRecord]
    BY <1>3, RecordsTyped, ZenonT(60) DEF GrantEffect, GrantClaim, TypeOK, SessionRecord
  <2> QED BY <1>3, <2>1, <2>2, ReplacedOperation DEF GrantEffect, GrantClaim, TypeOK
<1>4. ASSUME NEW s \in Sessions, NEW k \in Keys, NEW end \in SafeNat, RenewEffect(s, k, end)
      PROVE  TypeOK'
  <2>1. [operation[s][k] EXCEPT !.leaseExpiresAtMs = end] \in OperationRecord
    BY RecordsTyped DEF OperationRecord
  <2>2. operation' = [operation EXCEPT ![s][k] = [operation[s][k] EXCEPT !.leaseExpiresAtMs = end]]
    BY <1>4 DEF RenewEffect
  <2> QED BY <1>4, <2>1, <2>2, ReplacedOperation DEF RenewEffect, TypeOK
<1>5. ASSUME NEW s \in Sessions, NEW k \in Keys, NEW rev \in SafeNat, NEW response \in Responses,
             NEW candidate \in [revision : SafeNat, state : Worlds], NEW turn \in TurnRecord,
             PublishEffect(s, k, rev, candidate, turn, response)
      PROVE  TypeOK'
  <2>1. session' \in [Sessions -> SessionRecord]
    BY <1>5, ZenonT(60) DEF PublishEffect, PublishTurn, TypeOK, SessionRecord
  <2>2. CompletedRecord(s, k, "completed", turn.turnId, response) \in OperationRecord
    <3>1. operation[s][k] \in OperationRecord
      BY RecordsTyped
    <3>2. turn.turnId \in TurnIds
      BY DEF TurnRecord
    <3> QED BY <3>1, <3>2 DEF CompletedRecord, OperationRecord, Outcomes
  <2>5. operation' \in [Sessions -> [Keys -> OperationRecord]]
    BY <1>5, <2>2, ReplacedOperation DEF PublishEffect, PublishTurn
  <2>3. Append(turns[s], turn) \in Seq(TurnRecord)
    BY AppendProperties DEF TypeOK
  <2>4. turns' \in [Sessions -> Seq(TurnRecord)]
    BY <1>5, <2>3 DEF PublishEffect, PublishTurn, TypeOK
  <2> QED BY <2>1, <2>5, <2>4 DEF TypeOK
<1>6. ASSUME NEW s \in Sessions, NEW k \in Keys, NEW rev \in SafeNat, NEW response \in Responses,
             ReleaseEffect(s, k, rev, response)
      PROVE  TypeOK'
  <2>1. CompletedRecord(s, k, "finished_without_turn", NoTurn, response) \in OperationRecord
    BY RecordsTyped DEF CompletedRecord, OperationRecord, Outcomes
  <2>2. operation' \in [Sessions -> [Keys -> OperationRecord]]
    BY <1>6, <2>1, ReplacedOperation DEF ReleaseEffect, ReleaseWithoutTurn
  <2>3. session' \in [Sessions -> SessionRecord]
    BY <1>6, RecordsTyped DEF ReleaseEffect, ReleaseWithoutTurn, TypeOK, SessionRecord
  <2> QED BY <1>6, <2>2, <2>3 DEF ReleaseEffect, ReleaseWithoutTurn, TypeOK
<1> QED BY <1>1, <1>2, <1>3, <1>4, <1>5, <1>6 DEF Effect

\* Whoever calls the storage, its tables keep their types: no revision, counter or
\* lease passes MaxSafe (isLeaseEndSafe, nextFencingToken, isValidCandidateState).
THEOREM TypeCorrect == Spec => []TypeOK
<1>1. TypeOK /\ [Next]_vars => TypeOK'
  BY StepHasEffect, EffectTypeOK
<1> QED BY InitTypeOK, <1>1, PTL DEF Spec

-------------------------------------------------------------------------------
(* The inductive invariant.                                                 *)

IInv == /\ TypeOK
        /\ OneActiveOperation
        /\ ActiveIsCurrent
        /\ TokensNameGrants
        /\ TurnsExplainRevision
        /\ OneTurnPerOperation

\* What the invariants read of an operation: everything but its lease and response.
SameReading(op, new) ==
  /\ new.status = op.status
  /\ new.expectedRevision = op.expectedRevision
  /\ new.fencingToken = op.fencingToken
  /\ new.turnId = op.turnId

Elsewhere(s) ==
  \A x \in Sessions \ {s} :
    /\ session'[x] = session[x]
    /\ operation'[x] = operation[x]
    /\ turns'[x] = turns[x]

LEMMA TurnsTyped ==
  ASSUME TypeOK, NEW s \in Sessions, NEW i \in 1..Len(turns[s])
  PROVE  turns[s][i] \in TurnRecord /\ turns[s][i].operationId \in Keys
<1>1. turns[s] \in Seq(TurnRecord)
  BY DEF TypeOK
<1>2. turns[s][i] \in TurnRecord
  BY <1>1, ElementOfSeq
<1> QED BY <1>2 DEF TurnRecord

LEMMA InitIInv == Init => IInv
<1> SUFFICES ASSUME Init PROVE IInv
  OBVIOUS
<1>1. TypeOK
  BY InitTypeOK
<1>2. \A s \in Sessions : /\ turns[s] = <<>> /\ Len(turns[s]) = 0
                          /\ Active(s) = NoKey /\ session[s].revision = 0
                          /\ session[s].fencingCounter = 0
  BY DEF Init, NoSession, Active
<1>3. \A s \in Sessions, k \in Keys :
        operation[s][k].status = "absent" /\ operation[s][k].fencingToken = 0
  BY DEF Init, NoOperation
<1>4. OneActiveOperation /\ ActiveIsCurrent
  BY <1>2, <1>3, ConstantAssumption DEF OneActiveOperation, ActiveIsCurrent, Processing
<1>5. TokensNameGrants
  BY <1>2, <1>3, ConstantAssumption DEF TokensNameGrants
<1>6. TurnsExplainRevision /\ OneTurnPerOperation
  BY <1>2, <1>3 DEF TurnsExplainRevision, OneTurnPerOperation
<1> QED BY <1>1, <1>4, <1>5, <1>6 DEF IInv

\* Steps that change no revision, owner, turn or reading of an operation.
LEMMA QuietStep ==
  ASSUME IInv, TypeOK', turns' = turns,
         \A s \in Sessions : /\ session'[s].revision = session[s].revision
                             /\ session'[s].activeOperationId = session[s].activeOperationId
                             /\ session'[s].fencingCounter = session[s].fencingCounter,
         \A s \in Sessions, k \in Keys : SameReading(operation[s][k], operation'[s][k])
  PROVE  IInv'
<1>1. OneActiveOperation'
  BY DEF IInv, OneActiveOperation, Processing, Active, SameReading
<1>2. ActiveIsCurrent'
  BY DEF IInv, ActiveIsCurrent, Active, SameReading
<1>3. TokensNameGrants'
  BY DEF IInv, TokensNameGrants, Active, SameReading
<1>4. TurnsExplainRevision'
  <2> SUFFICES ASSUME NEW s \in Sessions, NEW i \in 1..Len(turns[s])
               PROVE  /\ Len(turns[s]) = session[s].revision
                      /\ LET turn == turns[s][i]
                             op == operation'[s][turn.operationId] IN
                         /\ turn.beforeRevision = i - 1 /\ turn.afterRevision = i
                         /\ op.status = "completed" /\ op.expectedRevision = i - 1
                         /\ op.turnId = turn.turnId
    BY DEF IInv, TurnsExplainRevision
  <2>1. turns[s][i].operationId \in Keys
    BY TurnsTyped DEF IInv
  <2>2. SameReading(operation[s][turns[s][i].operationId], operation'[s][turns[s][i].operationId])
    BY <2>1
  <2> QED BY <2>2 DEF IInv, TurnsExplainRevision, SameReading
<1>5. OneTurnPerOperation'
  BY DEF IInv, OneTurnPerOperation, SameReading
<1> QED BY <1>1, <1>2, <1>3, <1>4, <1>5 DEF IInv

\* A session where nothing changed keeps its part of the invariant about turns.
LEMMA TurnsKept ==
  ASSUME IInv, NEW s \in Sessions, turns'[s] = turns[s],
         session'[s].revision = session[s].revision,
         \A k \in Keys : operation[s][k].status = "completed" =>
                          operation'[s][k] = operation[s][k],
         \A k \in Keys : operation'[s][k].status = "completed" =>
                          operation[s][k].status = "completed"
  PROVE  /\ Len(turns'[s]) = session'[s].revision
         /\ \A i \in 1..Len(turns'[s]) :
              LET turn == turns'[s][i]
                  op == operation'[s][turn.operationId] IN
              /\ turn.beforeRevision = i - 1
              /\ turn.afterRevision = i
              /\ op.status = "completed"
              /\ op.expectedRevision = i - 1
              /\ op.turnId = turn.turnId
         /\ \A k \in Keys : operation'[s][k].status = "completed"
                              <=> \E i \in 1..Len(turns'[s]) : turns'[s][i].operationId = k
<1>1. \A i \in 1..Len(turns[s]) : turns[s][i].operationId \in Keys
  BY TurnsTyped DEF IInv
<1>2. \A i \in 1..Len(turns[s]) :
        operation'[s][turns[s][i].operationId] = operation[s][turns[s][i].operationId]
  BY <1>1 DEF IInv, TurnsExplainRevision
<1>3. \A k \in Keys : operation'[s][k].status = "completed"
                        <=> operation[s][k].status = "completed"
  OBVIOUS
<1>4. \A i \in 1..Len(turns'[s]) :
         LET turn == turns'[s][i]
             op == operation'[s][turn.operationId] IN
         /\ turn.beforeRevision = i - 1
         /\ turn.afterRevision = i
         /\ op.status = "completed"
         /\ op.expectedRevision = i - 1
         /\ op.turnId = turn.turnId
  BY <1>2, SMTT(60) DEF IInv, TurnsExplainRevision
<1>5. Len(turns'[s]) = session'[s].revision
  BY DEF IInv, TurnsExplainRevision
<1>6. \A k \in Keys : operation'[s][k].status = "completed"
                        <=> \E i \in 1..Len(turns'[s]) : turns'[s][i].operationId = k
  BY <1>3 DEF IInv, OneTurnPerOperation
<1> QED BY <1>4, <1>5, <1>6

LEMMA GrantStep ==
  ASSUME IInv, TypeOK', NEW s \in Sessions, NEW k \in Keys, NEW h \in Hashes, NEW rev \in SafeNat,
         NEW t \in SafeNat, NEW dur \in Durations, GrantEffect(s, k, h, rev, t, dur)
  PROVE  IInv'
<1> DEFINE r == ClaimedRecord(s, k, h, rev, t, dur)
<1>1. /\ turns' = turns
      /\ \A x \in Sessions \ {s} : session'[x] = session[x] /\ operation'[x] = operation[x]
      /\ \A j \in Keys \ {k} : operation'[s][j] = operation[s][j]
      /\ operation'[s][k] = r
  BY DEF IInv, TypeOK, GrantEffect, GrantClaim
<1>2. /\ session'[s].activeOperationId = k
      /\ session'[s].revision = session[s].revision
      /\ session'[s].fencingCounter = session[s].fencingCounter + 1
  BY DEF IInv, TypeOK, SessionRecord, GrantEffect, GrantClaim
<1>3. /\ r.status = "processing"
      /\ r.expectedRevision = session[s].revision
      /\ r.fencingToken = session[s].fencingCounter + 1
  BY RecordsTyped DEF IInv, OperationRecord, GrantEffect, ClaimedRecord
<1>4. Active(s) \in {NoKey, k} /\ operation[s][k].status \in {"absent", "processing"}
  BY DEF GrantEffect
<1> HIDE DEF r
<1>5. OneActiveOperation'
  <2> SUFFICES ASSUME NEW x \in Sessions
               PROVE  Processing(x)' = {Active(x)'} \ {NoKey}
    BY DEF OneActiveOperation
  <2>1. CASE x # s
    BY <1>1, <2>1 DEF IInv, OneActiveOperation, Processing, Active
  <2>2. CASE x = s
    <3>1. \A j \in Keys \ {k} : operation[s][j].status # "processing"
      BY <1>4 DEF IInv, OneActiveOperation, Processing
    <3>2. Processing(s)' = {k}
      BY <1>1, <1>3, <3>1 DEF Processing
    <3> QED BY <1>2, <2>2, <3>2, ConstantAssumption DEF Active
  <2> QED BY <2>1, <2>2
<1>6. ActiveIsCurrent'
  BY <1>1, <1>2, <1>3 DEF IInv, ActiveIsCurrent, Active
<1>7. TokensNameGrants'
  <2>1. \A x \in Sessions, j \in Keys : operation[x][j].fencingToken <= session[x].fencingCounter
    BY DEF IInv, TokensNameGrants
  <2>2. \A x \in Sessions, j \in Keys :
          session[x].fencingCounter \in Int /\ operation[x][j].fencingToken \in Int
    BY RecordsTyped DEF IInv, SessionRecord, OperationRecord, SafeNat
  <2> SUFFICES ASSUME NEW x \in Sessions, NEW j \in Keys
               PROVE  /\ operation'[x][j].fencingToken <= session'[x].fencingCounter
                      /\ Active(x)' = j => operation'[x][j].fencingToken = session'[x].fencingCounter
                      /\ \A i \in Keys \ {j} :
                           operation'[x][j].status # "absent" /\ operation'[x][i].status # "absent"
                             => operation'[x][j].fencingToken # operation'[x][i].fencingToken
    BY DEF TokensNameGrants
  <2>3. CASE x # s
    BY <1>1, <2>3 DEF IInv, TokensNameGrants, Active
  <2>4. CASE x = s /\ j = k
    BY <1>1, <1>2, <1>3, <2>1, <2>2, <2>4
  <2>5. CASE x = s /\ j # k
    <3>1. operation'[s][j] = operation[s][j]
      BY <1>1, <2>5
    <3>2. operation'[s][j].fencingToken < operation'[s][k].fencingToken
      BY <1>1, <1>3, <2>1, <2>2, <3>1
    <3>3. operation'[s][j].fencingToken <= session'[s].fencingCounter
      BY <1>2, <2>1, <2>2, <3>1
    <3>4. Active(s)' # j
      BY <1>2, <2>5 DEF Active
    <3>5. \A i \in Keys \ {j, k} :
            operation'[s][j].status # "absent" /\ operation'[s][i].status # "absent"
              => operation'[s][j].fencingToken # operation'[s][i].fencingToken
      BY <1>1, <3>1 DEF IInv, TokensNameGrants
    <3>6. operation'[s][j].fencingToken # operation'[s][k].fencingToken
      BY <1>1, <1>3, <2>1, <2>2, <3>1
    <3> QED BY <2>5, <3>3, <3>4, <3>5, <3>6
  <2> QED BY <2>3, <2>4, <2>5
<1>8. \A x \in Sessions : /\ turns'[x] = turns[x]
                          /\ session'[x].revision = session[x].revision
                          /\ \A j \in Keys : operation[x][j].status = "completed" =>
                                              operation'[x][j] = operation[x][j]
                          /\ \A j \in Keys : operation'[x][j].status = "completed" =>
                                              operation[x][j].status = "completed"
  BY <1>1, <1>2, <1>3, <1>4
<1>9. TurnsExplainRevision'
  BY <1>8, TurnsKept DEF TurnsExplainRevision
<1>10. OneTurnPerOperation'
  BY <1>8, <1>1, TurnsKept DEF OneTurnPerOperation, IInv
<1> QED BY <1>5, <1>6, <1>7, <1>9, <1>10 DEF IInv

\* What ending an operation, with or without a turn, does to the owners and tokens.
LEMMA EndedOperation ==
  ASSUME IInv, NEW s \in Sessions, NEW k \in Keys, NEW rev, Holds(s, k, rev),
         NEW status \in Outcomes, NEW turnId, NEW response,
         \A x \in Sessions \ {s} : session'[x] = session[x],
         session'[s].activeOperationId = NoKey,
         session'[s].fencingCounter = session[s].fencingCounter,
         operation' = [operation EXCEPT ![s][k] = CompletedRecord(s, k, status, turnId, response)]
  PROVE  /\ OneActiveOperation'
         /\ TokensNameGrants'
         /\ \A x \in Sessions \ {s} : operation'[x] = operation[x]
         /\ \A j \in Keys \ {k} : operation'[s][j] = operation[s][j]
         /\ operation'[s][k].status = status
         /\ operation'[s][k].turnId = turnId
         /\ operation'[s][k].expectedRevision = operation[s][k].expectedRevision
<1> DEFINE r == CompletedRecord(s, k, status, turnId, response)
<1>1. /\ \A x \in Sessions \ {s} : operation'[x] = operation[x]
      /\ \A j \in Keys \ {k} : operation'[s][j] = operation[s][j]
      /\ operation'[s][k] = r
  BY DEF IInv, TypeOK
<1>2. /\ r.status = status
      /\ r.turnId = turnId
      /\ r.expectedRevision = operation[s][k].expectedRevision
      /\ r.fencingToken = operation[s][k].fencingToken
  BY RecordsTyped DEF IInv, OperationRecord, CompletedRecord
<1> HIDE DEF r
<1>3. OneActiveOperation'
  <2> SUFFICES ASSUME NEW x \in Sessions
               PROVE  Processing(x)' = {Active(x)'} \ {NoKey}
    BY DEF OneActiveOperation
  <2>1. CASE x # s
    BY <1>1, <2>1 DEF IInv, OneActiveOperation, Processing, Active
  <2>2. CASE x = s
    <3>1. \A j \in Keys \ {k} : operation[s][j].status # "processing"
      BY DEF IInv, OneActiveOperation, Processing, Holds
    <3>2. status # "processing"
      BY DEF Outcomes
    <3>3. Processing(s)' = {}
      BY <1>1, <1>2, <3>1, <3>2 DEF Processing
    <3> QED BY <2>2, <3>3 DEF Active
  <2> QED BY <2>1, <2>2
<1>4. TokensNameGrants'
  <2>1. \A x \in Sessions : session'[x].fencingCounter = session[x].fencingCounter
    OBVIOUS
  <2>2. \A x \in Sessions, j \in Keys :
          operation'[x][j].fencingToken = operation[x][j].fencingToken
    BY <1>1, <1>2
  <2>3. \A x \in Sessions, j \in Keys :
          operation'[x][j].status # "absent" => operation[x][j].status # "absent"
    BY <1>1 DEF Holds
  <2>4. \A x \in Sessions, j \in Keys : Active(x)' = j => Active(x) = j
    BY ConstantAssumption DEF Active
  <2> QED BY <2>1, <2>2, <2>3, <2>4 DEF IInv, TokensNameGrants
<1> QED BY <1>1, <1>2, <1>3, <1>4

LEMMA ReleaseStep ==
  ASSUME IInv, TypeOK', NEW s \in Sessions, NEW k \in Keys, NEW rev \in SafeNat,
         NEW response \in Responses, ReleaseEffect(s, k, rev, response)
  PROVE  IInv'
<1>1. /\ turns' = turns
      /\ \A x \in Sessions \ {s} : session'[x] = session[x]
      /\ session'[s].activeOperationId = NoKey
      /\ session'[s].revision = session[s].revision
      /\ session'[s].fencingCounter = session[s].fencingCounter
  BY DEF IInv, TypeOK, SessionRecord, ReleaseEffect, ReleaseWithoutTurn
<1>2. Holds(s, k, rev)
  BY DEF ReleaseEffect
<1>3. operation' = [operation EXCEPT
        ![s][k] = CompletedRecord(s, k, "finished_without_turn", NoTurn, response)]
  BY DEF ReleaseEffect, ReleaseWithoutTurn
<1>4. /\ OneActiveOperation'
      /\ TokensNameGrants'
      /\ \A x \in Sessions \ {s} : operation'[x] = operation[x]
      /\ \A j \in Keys \ {k} : operation'[s][j] = operation[s][j]
      /\ operation'[s][k].status = "finished_without_turn"
  BY <1>1, <1>2, <1>3, EndedOperation, ZenonT(60) DEF Outcomes
<1>5. ActiveIsCurrent'
  BY <1>1, <1>4, ConstantAssumption DEF IInv, ActiveIsCurrent, Active
<1>6. \A x \in Sessions : /\ turns'[x] = turns[x]
                          /\ session'[x].revision = session[x].revision
                          /\ \A j \in Keys : operation[x][j].status = "completed" =>
                                              operation'[x][j] = operation[x][j]
                          /\ \A j \in Keys : operation'[x][j].status = "completed" =>
                                              operation[x][j].status = "completed"
  BY <1>1, <1>2, <1>4 DEF Holds
<1>7. TurnsExplainRevision'
  BY <1>6, TurnsKept DEF TurnsExplainRevision
<1>8. OneTurnPerOperation'
  BY <1>6, <1>1, TurnsKept DEF OneTurnPerOperation, IInv
<1> QED BY <1>4, <1>5, <1>7, <1>8 DEF IInv

LEMMA PublishStep ==
  ASSUME IInv, TypeOK', NEW s \in Sessions, NEW k \in Keys, NEW rev \in SafeNat,
         NEW response \in Responses, NEW candidate \in [revision : SafeNat, state : Worlds],
         NEW turn \in TurnRecord, PublishEffect(s, k, rev, candidate, turn, response)
  PROVE  IInv'
<1>1. /\ \A x \in Sessions \ {s} : session'[x] = session[x] /\ turns'[x] = turns[x]
      /\ session'[s].activeOperationId = NoKey
      /\ session'[s].revision = session[s].revision + 1
      /\ session'[s].fencingCounter = session[s].fencingCounter
      /\ turns'[s] = Append(turns[s], turn)
  BY DEF IInv, TypeOK, SessionRecord, PublishEffect, PublishTurn, Holds
<1>2. /\ Holds(s, k, rev)
      /\ turn.operationId = k /\ turn.beforeRevision = rev /\ turn.afterRevision = rev + 1
  BY DEF PublishEffect, IsValidTurnRecord
<1>3. operation' = [operation EXCEPT
        ![s][k] = CompletedRecord(s, k, "completed", turn.turnId, response)]
  BY DEF PublishEffect, PublishTurn
<1>4. /\ OneActiveOperation'
      /\ TokensNameGrants'
      /\ \A x \in Sessions \ {s} : operation'[x] = operation[x]
      /\ \A j \in Keys \ {k} : operation'[s][j] = operation[s][j]
      /\ operation'[s][k].status = "completed"
      /\ operation'[s][k].turnId = turn.turnId
      /\ operation'[s][k].expectedRevision = rev
  <2>1. turn.turnId \in TurnIds /\ "completed" \in Outcomes
    BY DEF TurnRecord, Outcomes
  <2>3. /\ \A x \in Sessions \ {s} : session'[x] = session[x]
        /\ session'[s].activeOperationId = NoKey
        /\ session'[s].fencingCounter = session[s].fencingCounter
    BY <1>1
  <2>4. Holds(s, k, rev)
    BY <1>2
  <2>2. /\ OneActiveOperation'
        /\ TokensNameGrants'
        /\ \A x \in Sessions \ {s} : operation'[x] = operation[x]
        /\ \A j \in Keys \ {k} : operation'[s][j] = operation[s][j]
        /\ operation'[s][k].status = "completed"
        /\ operation'[s][k].turnId = turn.turnId
        /\ operation'[s][k].expectedRevision = operation[s][k].expectedRevision
    BY <1>3, <2>1, <2>3, <2>4, EndedOperation
  <2> QED BY <1>2, <2>2 DEF Holds
<1>5. ActiveIsCurrent'
  BY <1>1, <1>4, ConstantAssumption DEF IInv, ActiveIsCurrent, Active
<1>6. /\ turns[s] \in Seq(TurnRecord)
      /\ Len(turns[s]) = rev
      /\ Len(turns'[s]) = rev + 1
      /\ \A i \in 1..rev : turns'[s][i] = turns[s][i]
      /\ turns'[s][rev + 1] = turn
  BY <1>1, <1>2, AppendProperties DEF IInv, TypeOK, TurnsExplainRevision, Holds
<1>7. \A i \in 1..rev : /\ turns[s][i].operationId \in Keys \ {k}
                        /\ operation'[s][turns[s][i].operationId]
                             = operation[s][turns[s][i].operationId]
  <2> SUFFICES ASSUME NEW i \in 1..rev
               PROVE  turns[s][i].operationId \in Keys \ {k}
    BY <1>4
  <2>1. turns[s][i].operationId \in Keys
    BY <1>6, TurnsTyped DEF IInv
  <2>2. operation[s][turns[s][i].operationId].status = "completed"
    BY <1>6 DEF IInv, TurnsExplainRevision
  <2> QED BY <1>2, <2>1, <2>2 DEF Holds
<1>8. rev \in Nat
  BY DEF SafeNat
<1>9. TurnsExplainRevision'
  <2> SUFFICES ASSUME NEW x \in Sessions
               PROVE /\ Len(turns'[x]) = session'[x].revision
                     /\ \A i \in 1..Len(turns'[x]) :
                          LET tn == turns'[x][i]
                              op == operation'[x][tn.operationId] IN
                          /\ tn.beforeRevision = i - 1
                          /\ tn.afterRevision = i
                          /\ op.status = "completed"
                          /\ op.expectedRevision = i - 1
                          /\ op.turnId = tn.turnId
    BY DEF TurnsExplainRevision
  <2>1. CASE x # s
    <3>1. turns'[x] = turns[x] /\ session'[x] = session[x] /\ operation'[x] = operation[x]
      BY <1>1, <1>4, <2>1
    <3>2. /\ Len(turns[x]) = session[x].revision
          /\ \A i \in 1..Len(turns[x]) :
               /\ turns[x][i].beforeRevision = i - 1
               /\ turns[x][i].afterRevision = i
               /\ operation[x][turns[x][i].operationId].status = "completed"
               /\ operation[x][turns[x][i].operationId].expectedRevision = i - 1
               /\ operation[x][turns[x][i].operationId].turnId = turns[x][i].turnId
      BY DEF IInv, TurnsExplainRevision
    <3> QED BY <3>1, <3>2
  <2>2. CASE x = s
    <3>1. Len(turns'[s]) = session'[s].revision
      BY <1>1, <1>2, <1>6 DEF Holds
    <3>2. ASSUME NEW i \in 1..rev
          PROVE  LET tn == turns'[s][i]
                     op == operation'[s][tn.operationId] IN
                 /\ tn.beforeRevision = i - 1
                 /\ tn.afterRevision = i
                 /\ op.status = "completed"
                 /\ op.expectedRevision = i - 1
                 /\ op.turnId = tn.turnId
      <4>1. LET tn == turns[s][i]
                op == operation[s][tn.operationId] IN
            /\ tn.beforeRevision = i - 1
            /\ tn.afterRevision = i
            /\ op.status = "completed"
            /\ op.expectedRevision = i - 1
            /\ op.turnId = tn.turnId
        BY <1>6 DEF IInv, TurnsExplainRevision
      <4> QED BY <1>6, <1>7, <4>1
    <3>3. LET tn == turns'[s][rev + 1]
              op == operation'[s][tn.operationId] IN
          /\ tn.beforeRevision = rev
          /\ tn.afterRevision = rev + 1
          /\ op.status = "completed"
          /\ op.expectedRevision = rev
          /\ op.turnId = tn.turnId
      BY <1>2, <1>4, <1>6
    <3>4. \A i \in 1..Len(turns'[s]) : i \in 1..rev \/ (i = rev + 1 /\ i - 1 = rev)
      BY <1>6, <1>8
    <3> QED BY <2>2, <3>1, <3>2, <3>3, <3>4
  <2> QED BY <2>1, <2>2
<1>10. OneTurnPerOperation'
  <2> SUFFICES ASSUME NEW x \in Sessions
               PROVE  /\ \A j \in Keys : operation'[x][j].status = "completed"
                           <=> \E i \in 1..Len(turns'[x]) : turns'[x][i].operationId = j
                      /\ \A i, j \in 1..Len(turns'[x]) :
                           turns'[x][i].operationId = turns'[x][j].operationId => i = j
    BY DEF OneTurnPerOperation
  <2>1. CASE x # s
    <3>1. /\ turns'[x] = turns[x]
          /\ \A j \in Keys : operation'[x][j] = operation[x][j]
      BY <1>1, <1>4, <2>1
    <3>2. OneTurnPerOperation
      BY DEF IInv
    <3> QED BY <3>1, <3>2 DEF OneTurnPerOperation
  <2>2. CASE x = s
    <3>1. 1..Len(turns'[s]) = (1..rev) \cup {rev + 1}
      BY <1>6, <1>8
    <3>2. ASSUME NEW j \in Keys
          PROVE  operation'[s][j].status = "completed"
                   <=> \E i \in 1..Len(turns'[s]) : turns'[s][i].operationId = j
      <4>1. CASE j = k
        BY <1>2, <1>4, <1>6, <3>1, <4>1
      <4>2. CASE j # k
        <5>1. operation'[s][j].status = "completed"
                <=> \E i \in 1..rev : turns[s][i].operationId = j
          <6>1. OneTurnPerOperation
            BY DEF IInv
          <6> QED BY <1>4, <1>6, <4>2, <6>1 DEF OneTurnPerOperation
        <5> QED BY <1>2, <1>6, <3>1, <4>2, <5>1
      <4> QED BY <4>1, <4>2
    <3>3. ASSUME NEW i \in 1..Len(turns'[s]), NEW j \in 1..Len(turns'[s]),
                 turns'[s][i].operationId = turns'[s][j].operationId
          PROVE  i = j
      <4>1. CASE i \in 1..rev /\ j \in 1..rev
        BY <1>6, <3>3, <4>1, SMTT(60) DEF IInv, OneTurnPerOperation
      <4>2. CASE i = rev + 1 /\ j \in 1..rev
        BY <1>2, <1>6, <1>7, <3>3, <4>2
      <4>3. CASE i \in 1..rev /\ j = rev + 1
        BY <1>2, <1>6, <1>7, <3>3, <4>3
      <4> QED BY <3>1, <4>1, <4>2, <4>3
    <3> QED BY <2>2, <3>2, <3>3
  <2> QED BY <2>1, <2>2
<1> QED BY <1>4, <1>5, <1>9, <1>10 DEF IInv

LEMMA IInvInductive ==
  ASSUME IInv, [Next]_vars
  PROVE  IInv'
<1>1. Effect /\ TypeOK'
  BY StepHasEffect, EffectTypeOK DEF IInv
<1>2. CASE StorageUnchanged
  BY <1>1, <1>2, QuietStep DEF StorageUnchanged, SameReading
<1>3. ASSUME NEW s \in Sessions, CreateEffect(s)
      PROVE  IInv'
  <2>1. \A x \in Sessions :
          /\ session'[x].revision = session[x].revision
          /\ session'[x].activeOperationId = session[x].activeOperationId
          /\ session'[x].fencingCounter = session[x].fencingCounter
    BY <1>3 DEF CreateEffect, IInv, TypeOK, SessionRecord
  <2> QED BY <1>1, <1>3, <2>1, QuietStep DEF CreateEffect, SameReading
<1>4. ASSUME NEW s \in Sessions, NEW k \in Keys, NEW end \in SafeNat, RenewEffect(s, k, end)
      PROVE  IInv'
  <2>1. \A x \in Sessions, j \in Keys : SameReading(operation[x][j], operation'[x][j])
    BY <1>4 DEF RenewEffect, IInv, TypeOK, OperationRecord, SameReading
  <2> QED BY <1>1, <1>4, <2>1, QuietStep DEF RenewEffect
<1> QED BY <1>1, <1>2, <1>3, <1>4, GrantStep, PublishStep, ReleaseStep DEF Effect

LEMMA Invariance == Spec => []IInv
<1>1. IInv /\ [Next]_vars => IInv'
  BY IInvInductive
<1> QED BY InitIInv, <1>1, PTL DEF Spec

\* Fencing: one operation of a session is under way at most, it was claimed at
\* the revision the session still has, and it carries the newest token.
THEOREM Fencing == Spec => []SingleFencedOwner
<1>1. IInv => SingleFencedOwner
  BY DEF IInv, SingleFencedOwner
<1> QED BY Invariance, <1>1, PTL

\* Exactly once: each operation completed with a turn has exactly one, and the
\* turns are the revisions.
THEOREM ExactlyOnce == Spec => []HistoryAgrees
<1>1. IInv => HistoryAgrees
  BY DEF IInv, HistoryAgrees
<1> QED BY Invariance, <1>1, PTL

-------------------------------------------------------------------------------
(* What a step may not do.                                                  *)

LEMMA DecidedStep ==
  ASSUME IInv, [Next]_vars, NEW s \in Sessions, NEW k \in Keys,
         operation[s][k].status \in Outcomes
  PROVE  operation'[s][k] = operation[s][k]
<1>1. Effect
  BY StepHasEffect DEF IInv
<1>2. operation[s][k].status \notin {"absent", "processing"}
  BY DEF Outcomes
<1>3. CASE StorageUnchanged
  BY <1>3 DEF StorageUnchanged
<1>4. CASE \E x \in Sessions : CreateEffect(x)
  BY <1>4 DEF CreateEffect
<1>5. ASSUME NEW x \in Sessions, NEW j \in Keys, NEW h \in Hashes, NEW rev \in SafeNat,
             NEW t \in SafeNat, NEW dur \in Durations, GrantEffect(x, j, h, rev, t, dur)
      PROVE  operation'[s][k] = operation[s][k]
  BY <1>2, <1>5 DEF IInv, TypeOK, GrantEffect, GrantClaim
<1>6. ASSUME NEW x \in Sessions, NEW j \in Keys, NEW end \in SafeNat, RenewEffect(x, j, end)
      PROVE  operation'[s][k] = operation[s][k]
  BY <1>2, <1>6 DEF RenewEffect, IInv, TypeOK
<1>7. ASSUME NEW x \in Sessions, NEW j \in Keys, NEW rev \in SafeNat, NEW response \in Responses,
             NEW candidate \in [revision : SafeNat, state : Worlds], NEW turn \in TurnRecord,
             PublishEffect(x, j, rev, candidate, turn, response)
      PROVE  operation'[s][k] = operation[s][k]
  BY <1>2, <1>7 DEF IInv, TypeOK, PublishEffect, PublishTurn, Holds
<1>8. ASSUME NEW x \in Sessions, NEW j \in Keys, NEW rev \in SafeNat, NEW response \in Responses,
             ReleaseEffect(x, j, rev, response)
      PROVE  operation'[s][k] = operation[s][k]
  BY <1>2, <1>8 DEF IInv, TypeOK, ReleaseEffect, ReleaseWithoutTurn, Holds
<1> QED BY <1>1, <1>3, <1>4, <1>5, <1>6, <1>7, <1>8 DEF Effect

\* What a key has come to, and the response stored with it, is never revised: every
\* retry replays the answer of the first attempt that decided it.
THEOREM DecisionsAreFinal == Spec => DecidedStay
<1>1. IInv /\ [Next]_vars =>
        [\A s \in Sessions : \A k \in Decided(s) : operation'[s][k] = operation[s][k]]_vars
  BY DecidedStep DEF Decided
<1> QED BY Invariance, <1>1, PTL DEF Spec, DecidedStay

LEMMA WorldStep ==
  ASSUME IInv, [Next]_vars, NEW s \in Sessions
  PROVE  \/ /\ session'[s].state = session[s].state
            /\ session'[s].revision = session[s].revision
            /\ turns'[s] = turns[s]
         \/ /\ session'[s].revision = session[s].revision + 1
            /\ \E turn \in TurnRecord :
                 /\ turns'[s] = Append(turns[s], turn)
                 /\ turn.operationId = Active(s)
                 /\ operation[s][turn.operationId].fencingToken = session[s].fencingCounter
<1>1. Effect
  BY StepHasEffect DEF IInv
<1>2. CASE StorageUnchanged
  BY <1>2 DEF StorageUnchanged
<1>3. CASE \E x \in Sessions : CreateEffect(x)
  BY <1>3 DEF CreateEffect, IInv, TypeOK, SessionRecord
<1>4. CASE \E x \in Sessions, j \in Keys, h \in Hashes, rev \in SafeNat, t \in SafeNat,
              dur \in Durations : GrantEffect(x, j, h, rev, t, dur)
  BY <1>4 DEF GrantEffect, GrantClaim, IInv, TypeOK, SessionRecord
<1>5. CASE \E x \in Sessions, j \in Keys, end \in SafeNat : RenewEffect(x, j, end)
  BY <1>5 DEF RenewEffect
<1>6. ASSUME NEW x \in Sessions, NEW j \in Keys, NEW rev \in SafeNat, NEW response \in Responses,
             NEW candidate \in [revision : SafeNat, state : Worlds], NEW turn \in TurnRecord,
             PublishEffect(x, j, rev, candidate, turn, response)
      PROVE  \/ session'[s] = session[s] /\ turns'[s] = turns[s]
             \/ /\ session'[s].revision = session[s].revision + 1
                /\ turns'[s] = Append(turns[s], turn)
                /\ turn.operationId = Active(s)
                /\ operation[s][turn.operationId].fencingToken = session[s].fencingCounter
  <2>1. CASE s # x
    BY <1>6, <2>1 DEF PublishEffect, PublishTurn, IInv, TypeOK
  <2>2. CASE s = x
    <3>1. /\ Active(s) = j /\ turn.operationId = j
          /\ session[s].revision = rev /\ candidate.revision = rev + 1
      BY <1>6, <2>2 DEF PublishEffect, Holds, IsValidTurnRecord
    <3>2. operation[s][j].fencingToken = session[s].fencingCounter
      BY <3>1 DEF IInv, TokensNameGrants
    <3>3. session'[s].revision = candidate.revision /\ turns'[s] = Append(turns[s], turn)
      BY <1>6, <2>2 DEF PublishEffect, PublishTurn, IInv, TypeOK, SessionRecord
    <3> QED BY <3>1, <3>2, <3>3
  <2> QED BY <2>1, <2>2
<1>7. CASE \E x \in Sessions, j \in Keys, rev \in SafeNat, response \in Responses :
             ReleaseEffect(x, j, rev, response)
  BY <1>7 DEF ReleaseEffect, ReleaseWithoutTurn, IInv, TypeOK, SessionRecord
<1> QED BY <1>1, <1>2, <1>3, <1>4, <1>5, <1>6, <1>7 DEF Effect

\* The world moves only with one appended turn of the operation under way, whose
\* token is the newest: nothing else in the storage writes a session's state.
THEOREM OnlyTurnsMoveTheWorld == Spec => WorldMovesByTurns
<1>1. IInv /\ [Next]_vars =>
        [\A s \in Sessions :
           \/ /\ session'[s].state = session[s].state
              /\ session'[s].revision = session[s].revision
              /\ turns'[s] = turns[s]
           \/ /\ session'[s].revision = session[s].revision + 1
              /\ \E turn \in TurnRecord :
                   /\ turns'[s] = Append(turns[s], turn)
                   /\ turn.operationId = Active(s)
                   /\ operation[s][turn.operationId].fencingToken = session[s].fencingCounter]_vars
  BY WorldStep
<1> QED BY Invariance, <1>1, PTL DEF Spec, WorldMovesByTurns

-------------------------------------------------------------------------------
(* The storage implements the turn ledger.                                  *)

LEMMA InitLedger == Init => Ledger!Init
<1> SUFFICES ASSUME Init PROVE Ledger!Init
  OBVIOUS
<1>1. OwnerBar = [s \in Sessions |-> NoKey]
  BY DEF Init, OwnerBar, Active, NoSession
<1>2. DecisionBar = [s \in Sessions |-> [k \in Keys |-> "open"]]
  BY DEF Init, DecisionBar, DecisionOf, NoOperation
<1>3. LedgerBar = [s \in Sessions |-> <<>>]
  <2>1. \A s \in Sessions : turns[s] = <<>> /\ Len(turns[s]) = 0
    BY DEF Init
  <2>2. \A s \in Sessions : [i \in 1..Len(turns[s]) |-> turns[s][i].operationId] = <<>>
    BY <2>1
  <2> QED BY <2>2 DEF LedgerBar
<1> QED BY <1>1, <1>2, <1>3 DEF Ledger!Init

\* A step that leaves the owners, the decided keys and the turns alone is a stutter.
LEMMA LedgerStutter ==
  ASSUME turns' = turns,
         \A s \in Sessions : Active(s)' = Active(s),
         \A s \in Sessions, k \in Keys :
           DecisionOf(operation'[s][k]) = DecisionOf(operation[s][k])
  PROVE  UNCHANGED Ledger!ledgerVars
<1>1. OwnerBar' = OwnerBar
  BY DEF OwnerBar
<1>2. DecisionBar' = DecisionBar
  BY DEF DecisionBar
<1>3. LedgerBar' = LedgerBar
  BY DEF LedgerBar
<1> QED BY <1>1, <1>2, <1>3 DEF Ledger!ledgerVars

LEMMA LedgerGrant ==
  ASSUME IInv, NEW s \in Sessions, NEW k \in Keys, NEW h \in Hashes, NEW rev \in SafeNat,
         NEW t \in SafeNat, NEW dur \in Durations, GrantEffect(s, k, h, rev, t, dur)
  PROVE  [Ledger!Next]_(Ledger!ledgerVars)
<1>1. /\ turns' = turns
      /\ session' = [session EXCEPT ![s].activeOperationId = k, ![s].fencingCounter = @ + 1]
      /\ Active(s) \in {NoKey, k}
      /\ operation[s][k].status \in {"absent", "processing"}
  BY DEF GrantEffect, GrantClaim
<1>2. /\ \A x \in Sessions \ {s} : Active(x)' = Active(x)
      /\ Active(s)' = k
  BY <1>1 DEF IInv, TypeOK, SessionRecord, Active
<1>3. /\ \A x \in Sessions, j \in Keys :
           x # s \/ j # k => operation'[x][j] = operation[x][j]
      /\ operation'[s][k].status = "processing"
  <2>1. ClaimedRecord(s, k, h, rev, t, dur).status = "processing"
    BY RecordsTyped DEF IInv, OperationRecord, ClaimedRecord
  <2> QED BY <2>1 DEF GrantEffect, GrantClaim, IInv, TypeOK
<1>4. \A x \in Sessions, j \in Keys :
        DecisionOf(operation'[x][j]) = DecisionOf(operation[x][j])
  BY <1>1, <1>3 DEF DecisionOf
<1>5. DecisionOf(operation[s][k]) = "open"
  BY <1>1 DEF DecisionOf
<1>6. CASE Active(s) = k
  BY <1>1, <1>2, <1>4, <1>6, LedgerStutter
<1>7. CASE Active(s) = NoKey
  <2>1. DecisionBar' = DecisionBar /\ DecisionBar[s][k] = "open"
    BY <1>4, <1>5 DEF DecisionBar
  <2>2. LedgerBar' = LedgerBar
    BY <1>1 DEF LedgerBar
  <2>3. OwnerBar[s] = NoKey /\ OwnerBar' = [OwnerBar EXCEPT ![s] = k]
    BY <1>2, <1>7 DEF OwnerBar
  <2>4. Ledger!Grant(s, k)
    BY <2>1, <2>2, <2>3 DEF Ledger!Grant
  <2> QED BY <2>4 DEF Ledger!Next
<1> QED BY <1>1, <1>6, <1>7

LEMMA LedgerRelease ==
  ASSUME IInv, NEW s \in Sessions, NEW k \in Keys, NEW rev \in SafeNat,
         NEW response \in Responses, ReleaseEffect(s, k, rev, response)
  PROVE  Ledger!DecideWithoutTurn(s, k)
<1>1. Active(s) = k /\ turns' = turns
  BY DEF ReleaseEffect, ReleaseWithoutTurn, Holds
<1>2. /\ \A x \in Sessions \ {s} : Active(x)' = Active(x)
      /\ Active(s)' = NoKey
  BY DEF ReleaseEffect, ReleaseWithoutTurn, IInv, TypeOK, SessionRecord, Active
<1>3. /\ \A x \in Sessions, j \in Keys :
           x # s \/ j # k => operation'[x][j] = operation[x][j]
      /\ operation'[s][k].status = "finished_without_turn"
  <2>1. CompletedRecord(s, k, "finished_without_turn", NoTurn, response).status
          = "finished_without_turn"
    BY RecordsTyped DEF IInv, OperationRecord, CompletedRecord
  <2> QED BY <2>1 DEF ReleaseEffect, ReleaseWithoutTurn, IInv, TypeOK
<1>4. OwnerBar[s] = k /\ OwnerBar' = [OwnerBar EXCEPT ![s] = NoKey]
  BY <1>1, <1>2 DEF OwnerBar
<1>5. DecisionBar' = [DecisionBar EXCEPT ![s][k] = "without_turn"]
  <2>1. DecisionOf(operation'[s][k]) = "without_turn"
    BY <1>3 DEF DecisionOf
  <2>2. \A x \in Sessions, j \in Keys :
          x # s \/ j # k => DecisionOf(operation'[x][j]) = DecisionOf(operation[x][j])
    BY <1>3
  <2>3. \A x \in Sessions \ {s} : DecisionBar'[x] = DecisionBar[x]
    BY <2>2 DEF DecisionBar
  <2>4. DecisionBar'[s] = [DecisionBar[s] EXCEPT ![k] = "without_turn"]
    BY <2>1, <2>2 DEF DecisionBar
  <2>5. /\ DecisionBar = [x \in Sessions |-> DecisionBar[x]]
        /\ DecisionBar' = [x \in Sessions |-> DecisionBar'[x]]
    BY DEF DecisionBar
  <2> QED BY <2>3, <2>4, <2>5
<1>6. LedgerBar' = LedgerBar
  BY <1>1 DEF LedgerBar
<1> QED BY <1>4, <1>5, <1>6 DEF Ledger!DecideWithoutTurn

\* The keys a list of turns names, in order.
OperationIds(q) == [i \in 1..Len(q) |-> q[i].operationId]

LEMMA OperationIdsAppend ==
  ASSUME NEW q \in Seq(TurnRecord), NEW turn \in TurnRecord
  PROVE  OperationIds(Append(q, turn)) = Append(OperationIds(q), turn.operationId)
<1>1. /\ Append(q, turn) \in Seq(TurnRecord)
      /\ Len(Append(q, turn)) = Len(q) + 1
      /\ \A i \in 1..Len(q) : Append(q, turn)[i] = q[i]
      /\ Append(q, turn)[Len(q) + 1] = turn
  BY AppendProperties
<1>2. Len(q) \in Nat
  BY LenProperties
<1>3. OperationIds(q) \in Seq(Keys) /\ Len(OperationIds(q)) = Len(q)
  <2>1. \A i \in 1..Len(q) : q[i] \in TurnRecord
    BY ElementOfSeq
  <2>2. \A i \in 1..Len(q) : q[i].operationId \in Keys
    BY <2>1 DEF TurnRecord
  <2> QED BY <1>2, <2>2, IsASeq DEF OperationIds
<1>4. turn.operationId \in Keys
  BY DEF TurnRecord
<1>5. /\ Len(Append(OperationIds(q), turn.operationId)) = Len(q) + 1
      /\ \A i \in 1..Len(q) : Append(OperationIds(q), turn.operationId)[i] = q[i].operationId
      /\ Append(OperationIds(q), turn.operationId)[Len(q) + 1] = turn.operationId
      /\ Append(OperationIds(q), turn.operationId) \in Seq(Keys)
  BY <1>2, <1>3, <1>4, AppendProperties DEF OperationIds
<1>6. DOMAIN Append(OperationIds(q), turn.operationId) = 1..(Len(q) + 1)
  BY <1>5, LenProperties
<1> QED BY <1>1, <1>2, <1>5, <1>6 DEF OperationIds

LEMMA LedgerPublish ==
  ASSUME IInv, NEW s \in Sessions, NEW k \in Keys, NEW rev \in SafeNat,
         NEW response \in Responses, NEW candidate \in [revision : SafeNat, state : Worlds],
         NEW turn \in TurnRecord, PublishEffect(s, k, rev, candidate, turn, response)
  PROVE  Ledger!DecideTurn(s, k)
<1>1. Active(s) = k /\ turn.operationId = k /\ turns' = [turns EXCEPT ![s] = Append(@, turn)]
  BY DEF PublishEffect, PublishTurn, Holds, IsValidTurnRecord
<1>2. /\ \A x \in Sessions \ {s} : Active(x)' = Active(x)
      /\ Active(s)' = NoKey
  BY DEF PublishEffect, PublishTurn, IInv, TypeOK, SessionRecord, Active
<1>3. /\ \A x \in Sessions, j \in Keys :
           x # s \/ j # k => operation'[x][j] = operation[x][j]
      /\ operation'[s][k].status = "completed"
  <2>1. CompletedRecord(s, k, "completed", turn.turnId, response).status = "completed"
    BY RecordsTyped DEF IInv, OperationRecord, CompletedRecord
  <2> QED BY <2>1 DEF PublishEffect, PublishTurn, IInv, TypeOK
<1>4. OwnerBar[s] = k /\ OwnerBar' = [OwnerBar EXCEPT ![s] = NoKey]
  BY <1>1, <1>2 DEF OwnerBar
<1>5. DecisionBar' = [DecisionBar EXCEPT ![s][k] = "turn"]
  <2>1. DecisionOf(operation'[s][k]) = "turn"
    BY <1>3 DEF DecisionOf
  <2>2. \A x \in Sessions, j \in Keys :
          x # s \/ j # k => DecisionOf(operation'[x][j]) = DecisionOf(operation[x][j])
    BY <1>3
  <2>3. \A x \in Sessions \ {s} : DecisionBar'[x] = DecisionBar[x]
    BY <2>2 DEF DecisionBar
  <2>4. DecisionBar'[s] = [DecisionBar[s] EXCEPT ![k] = "turn"]
    BY <2>1, <2>2 DEF DecisionBar
  <2>5. /\ DecisionBar = [x \in Sessions |-> DecisionBar[x]]
        /\ DecisionBar' = [x \in Sessions |-> DecisionBar'[x]]
    BY DEF DecisionBar
  <2> QED BY <2>3, <2>4, <2>5
<1>6. LedgerBar' = [LedgerBar EXCEPT ![s] = Append(@, k)]
  <2>1. turns[s] \in Seq(TurnRecord)
    BY DEF IInv, TypeOK
  <2>2. OperationIds(Append(turns[s], turn)) = Append(OperationIds(turns[s]), k)
    BY <1>1, <2>1, OperationIdsAppend
  <2>3. LedgerBar' = [x \in Sessions |-> OperationIds(turns'[x])]
    BY DEF LedgerBar, OperationIds
  <2>4. LedgerBar = [x \in Sessions |-> OperationIds(turns[x])]
    BY DEF LedgerBar, OperationIds
  <2>5. turns'[s] = Append(turns[s], turn) /\ \A x \in Sessions \ {s} : turns'[x] = turns[x]
    BY <1>1 DEF IInv, TypeOK
  <2>6. OperationIds(turns'[s]) = Append(OperationIds(turns[s]), k)
    BY <2>2, <2>5
  <2>7. \A x \in Sessions \ {s} : OperationIds(turns'[x]) = OperationIds(turns[x])
    BY <2>5
  <2> QED BY <2>3, <2>4, <2>6, <2>7
<1> QED BY <1>4, <1>5, <1>6 DEF Ledger!DecideTurn

LEMMA LedgerStep ==
  ASSUME IInv, [Next]_vars
  PROVE  [Ledger!Next]_(Ledger!ledgerVars)
<1>1. Effect
  BY StepHasEffect DEF IInv
<1>2. CASE StorageUnchanged
  BY <1>2, LedgerStutter DEF StorageUnchanged, Active
<1>3. ASSUME NEW s \in Sessions, CreateEffect(s)
      PROVE  UNCHANGED Ledger!ledgerVars
  <2>1. \A x \in Sessions : Active(x)' = Active(x)
    BY <1>3 DEF CreateEffect, Active, IInv, TypeOK, SessionRecord
  <2> QED BY <1>3, <2>1, LedgerStutter DEF CreateEffect
<1>4. ASSUME NEW s \in Sessions, NEW k \in Keys, NEW end \in SafeNat, RenewEffect(s, k, end)
      PROVE  UNCHANGED Ledger!ledgerVars
  <2>1. \A x \in Sessions, j \in Keys : operation'[x][j].status = operation[x][j].status
    BY <1>4 DEF RenewEffect, IInv, TypeOK, OperationRecord
  <2> QED BY <1>4, <2>1, LedgerStutter DEF RenewEffect, Active, DecisionOf
<1>5. ASSUME NEW s \in Sessions, NEW k \in Keys, NEW rev \in SafeNat, NEW response \in Responses,
             NEW candidate \in [revision : SafeNat, state : Worlds], NEW turn \in TurnRecord,
             PublishEffect(s, k, rev, candidate, turn, response)
      PROVE  Ledger!Next
  BY <1>5, LedgerPublish DEF Ledger!Next
<1>6. ASSUME NEW s \in Sessions, NEW k \in Keys, NEW rev \in SafeNat, NEW response \in Responses,
             ReleaseEffect(s, k, rev, response)
      PROVE  Ledger!Next
  BY <1>6, LedgerRelease DEF Ledger!Next
<1> QED BY <1>1, <1>2, <1>3, <1>4, <1>5, <1>6, LedgerGrant DEF Effect

\* Every behaviour of the storage is a behaviour of the turn ledger: clocks, leases,
\* tokens and revisions only decide who owns a session, never what a key came to.
THEOREM Refinement == Spec => ImplementsLedger
<1>1. IInv /\ [Next]_vars => [Ledger!Next]_(Ledger!ledgerVars)
  BY LedgerStep
<1> QED BY InitLedger, Invariance, <1>1, PTL DEF Spec, ImplementsLedger, Ledger!Spec
===============================================================================
