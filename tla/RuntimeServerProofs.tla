-------------------------- MODULE RuntimeServerProofs --------------------------
(***************************************************************************)
(* Proofs about RuntimeServer for every number of sessions, keys, handlers *)
(* and wordings.                                                           *)
(*                                                                         *)
(* Every step of the server is a step of its storage or leaves the storage *)
(* alone (ServerStepIsStorageStep), so that all that is proved of the      *)
(* storage holds under the server.  What the handlers hold between two     *)
(* awaits is then related to the storage by an inductive invariant.        *)
(***************************************************************************)
EXTENDS RuntimeServer, RuntimeStorageProofs

Steps == {"claim", "load", "execute", "commit", "finish", "fail"}

Requests == [pc : Steps, session : Sessions, key : Keys, body : Bodies, token : SafeNat,
             world : Worlds \cap Seq(Keys), response : Responses \cup {NoResponse}]

HandlersTyped ==
  /\ handler \in [Handlers -> Requests \cup {Idle}]
  /\ \A i \in Handlers : handler[i].pc \in {"commit", "finish"} => handler[i].response \in Responses

RepliesTyped == replies \subseteq Sessions \X Keys \X (Responses \cup {NoResponse})

\* What a handler holds while the AI is awaited is the world of the revision it
\* expects; the session may have left that revision behind, never be before it.
HandlersWorldIsOfItsRevision ==
  \A i \in Handlers :
    LET h == handler[i] IN
    h.pc \in {"execute", "commit"} =>
      /\ h.body.revision <= session[h.session].revision
      /\ h.body.revision = session[h.session].revision =>
           h.world = IF h.pc = "execute" THEN session[h.session].state
                     ELSE Append(session[h.session].state, h.key)

\* The question a body answers was asked, at the revision the body expects.
QuestionAsked(ops, s, body) ==
  body.clarification # NoKey =>
    /\ ops[s][body.clarification].status = "finished_without_turn"
    /\ ops[s][body.clarification].expectedRevision = body.revision

QuestionsAsked ==
  /\ \A i \in Handlers :
       ~At(i, "idle") => QuestionAsked(operation, handler[i].session, handler[i].body)
  /\ \A s \in Sessions, k \in Keys :
       operation[s][k].status # "absent" =>
         /\ operation[s][k].requestHash.revision = operation[s][k].expectedRevision
         /\ QuestionAsked(operation, s, operation[s][k].requestHash)

ServerIInv ==
  /\ IInv
  /\ HandlersTyped
  /\ RepliesTyped
  /\ RepliesAgree
  /\ WorldIsItsTurns
  /\ HandlersWorldIsOfItsRevision
  /\ QuestionsAsked

-------------------------------------------------------------------------------
(* The server calls the storage as its callers may.                         *)

LEMMA AtWork ==
  ASSUME HandlersTyped, NEW i \in Handlers, handler[i].pc # "idle"
  PROVE  handler[i] \in Requests
  BY DEF HandlersTyped, Idle

LEMMA IdleIsNoStep == Idle.pc = "idle" /\ "idle" \notin Steps
  BY DEF Idle, Steps

\* What commitTurn is handed once it has accepted it: the world the handler made is
\* one longer than the revision, which makes its turn record valid.
LEMMA CommittedArguments ==
  ASSUME HandlersTyped, NEW i \in Handlers, At(i, "commit"), NEW t,
         NEW rev, rev = handler[i].body.revision,
         NEW candidate, candidate = [revision |-> Len(handler[i].world), state |-> handler[i].world],
         NEW turn, turn = [turnId |-> <<handler[i].session, handler[i].key>>,
                           operationId |-> handler[i].key,
                           beforeRevision |-> rev, afterRevision |-> Len(handler[i].world)],
         CommitOutcome(handler[i].session, handler[i].key, rev, handler[i].token,
                       candidate, turn, handler[i].response, t) = "committed"
  PROVE  /\ CompletionOutcome(handler[i].session, handler[i].key, rev, handler[i].token, t)
              = "holder"
         /\ rev \in SafeNat /\ rev + 1 \in SafeNat
         /\ Len(handler[i].world) = rev + 1
         /\ candidate \in CallerCandidates(rev)
         /\ turn \in CallerTurns(rev) /\ turn \in TurnRecord
         /\ IsValidTurnRecord(turn, handler[i].key, rev)
<1>1. handler[i] \in Requests
  BY AtWork DEF At
<1>2. /\ handler[i].session \in Sessions /\ handler[i].key \in Keys
      /\ handler[i].world \in Worlds /\ rev \in SafeNat
  BY <1>1 DEF Requests, Bodies
<1>3. /\ CompletionOutcome(handler[i].session, handler[i].key, rev, handler[i].token, t)
           = "holder"
      /\ rev # MaxSafe /\ candidate.revision = rev + 1
      /\ IsValidTurnRecord(turn, handler[i].key, rev)
  BY DEF CommitOutcome, CompletionOutcome, OperationOutcome, HolderOutcome
<1>4. rev + 1 \in SafeNat /\ Len(handler[i].world) = rev + 1
  BY <1>2, <1>3, ConstantAssumption DEF SafeNat
<1>5. rev \in CallerRevisions(rev) /\ rev + 1 \in CallerRevisions(rev)
  BY <1>2, <1>4 DEF CallerRevisions
<1>6. <<handler[i].session, handler[i].key>> \in TurnIds
  BY <1>2, ServerAssumption
<1>7. candidate \in CallerCandidates(rev)
  BY <1>2, <1>4, <1>5 DEF CallerCandidates
<1>8. turn \in CallerTurns(rev) /\ turn \in TurnRecord
  BY <1>2, <1>4, <1>5, <1>6 DEF CallerTurns, TurnRecord
<1> QED BY <1>2, <1>3, <1>4, <1>7, <1>8

LEMMA CommitIsStorageStep ==
  ASSUME HandlersTyped, NEW i \in Handlers, NEW t \in Readings, Commit(i, t)
  PROVE  [Next]_vars
<1> DEFINE h == handler[i]
           rev == h.body.revision
           candidate == [revision |-> Len(h.world), state |-> h.world]
           turn == [turnId |-> <<h.session, h.key>>, operationId |-> h.key,
                    beforeRevision |-> rev, afterRevision |-> Len(h.world)]
<1>1. /\ At(i, "commit")
      /\ CommitTurn(h.session, h.key, rev, h.token, candidate, turn, h.response, t)
  BY DEF Commit
<1>2. h \in Requests
  BY <1>1, AtWork DEF At
<1>3. /\ h.session \in Sessions /\ h.key \in Keys /\ h.token \in SafeNat
      /\ h.response \in Responses \cup {NoResponse}
  BY <1>2 DEF Requests
<1> HIDE DEF h, rev, candidate, turn
<1>4. CASE CommitOutcome(h.session, h.key, rev, h.token, candidate, turn, h.response, t)
             = "committed"
  <2>1. /\ CompletionOutcome(h.session, h.key, rev, h.token, t) = "holder"
        /\ rev \in SafeNat
        /\ candidate \in CallerCandidates(rev) /\ turn \in CallerTurns(rev)
    BY <1>1, <1>4, CommittedArguments DEF h, rev, candidate, turn
  <2>2. Commits
    BY <1>1, <1>3, <2>1 DEF Commits
  <2> QED BY <2>2 DEF Next
<1>5. CASE CommitOutcome(h.session, h.key, rev, h.token, candidate, turn, h.response, t)
             # "committed"
  BY <1>1, <1>5 DEF CommitTurn
<1> QED BY <1>4, <1>5

LEMMA FinishIsStorageStep ==
  ASSUME HandlersTyped, NEW i \in Handlers, handler[i].pc # "idle", NEW t \in Readings,
         NEW response \in Responses, FinishWith(i, response, t)
  PROVE  [Next]_vars
<1>1. handler[i] \in Requests
  BY AtWork
<1>2. /\ handler[i].session \in Sessions /\ handler[i].key \in Keys
      /\ handler[i].token \in SafeNat /\ handler[i].body.revision \in SafeNat
  BY <1>1 DEF Requests, Bodies
<1>3. FinishWithoutTurn(handler[i].session, handler[i].key, handler[i].body.revision,
                        handler[i].token, response, t)
  BY DEF FinishWith
<1>4. Finishes
  BY <1>2, <1>3 DEF Finishes
<1> QED BY <1>4 DEF Next

LEMMA FailedResponse ==
  ASSUME NEW text \in Texts, NEW kind \in NoTurnKinds \cup {"action_result"}
  PROVE  [kind |-> kind, text |-> text] \in Responses
  BY ServerAssumption DEF PublicResponses

\* The handlers' own steps, which call no method that writes.
HandlersOnly(i) ==
  \/ Load(i)
  \/ \E text \in Texts : ExecuteTurn(i, text)
  \/ \E kind \in NoTurnKinds, text \in Texts : ExecuteWithoutTurn(i, kind, text)
  \/ ThrowInTry(i)
  \/ ThrowOutside(i)

\* finishWithoutTurn, from the try or from its catch clause.
Finishing(i) ==
  \E t \in Readings, response \in Responses :
    handler[i].pc \in {"finish", "fail"} /\ FinishWith(i, response, t)

ServerStep ==
  \/ UNCHANGED serverVars
  \/ Tick /\ UNCHANGED <<handler, replies>>
  \/ \E s \in Sessions : CreateGuestSession(s) /\ UNCHANGED <<handler, replies>>
  \/ \E i \in Handlers, s \in Sessions, k \in Keys, body \in Bodies : Receive(i, s, k, body)
  \/ \E i \in Handlers, t \in Readings, lease \in Durations : Claim(i, t, lease)
  \/ \E i \in Handlers : HandlersOnly(i)
  \/ \E i \in Handlers, t \in Readings : Commit(i, t)
  \/ \E i \in Handlers : Finishing(i)
  \/ Crash

LEMMA ServerNextIsServerStep ==
  ASSUME HandlersTyped, [ServerNext]_serverVars
  PROVE  ServerStep
<1>1. ASSUME NEW i \in Handlers, NEW t \in Readings, Finish(i, t)
      PROVE  Finishing(i)
  <2>1. handler[i].response \in Responses
    BY <1>1 DEF Finish, At, HandlersTyped
  <2> QED BY <1>1, <2>1 DEF Finish, Finishing, At
<1>2. ASSUME NEW i \in Handlers, NEW t \in Readings, NEW text \in Texts, Fail(i, text, t)
      PROVE  Finishing(i)
  BY <1>2, FailedResponse DEF Fail, Finishing, At, NoTurnKinds
<1>3. ASSUME NEW i \in Handlers, Handle(i)
      PROVE  \/ \E t \in Readings, lease \in Durations : Claim(i, t, lease)
             \/ HandlersOnly(i)
             \/ \E t \in Readings : Commit(i, t)
             \/ Finishing(i)
  BY <1>1, <1>2, <1>3 DEF Handle, HandlersOnly
<1> QED BY <1>3 DEF ServerStep, ServerNext

\* A request's claim names the request's own body and revision.
LEMMA ClaimIsStorageStep ==
  ASSUME HandlersTyped, NEW i \in Handlers, NEW t \in Readings, NEW lease \in Durations,
         Claim(i, t, lease)
  PROVE  [Next]_vars
<1>1. handler[i] \in Requests
  BY AtWork DEF Claim, At
<1>2. /\ handler[i].session \in Sessions /\ handler[i].key \in Keys
      /\ handler[i].body \in Hashes /\ handler[i].body.revision \in SafeNat
  BY <1>1, ServerAssumption DEF Requests, Bodies
<1>3. ClaimOperation(handler[i].session, handler[i].key, handler[i].body,
                     handler[i].body.revision, t, lease)
  BY DEF Claim
<1>4. Claims
  BY <1>2, <1>3 DEF Claims
<1> QED BY <1>4 DEF Next

LEMMA HandlersOnlyKeepStorage ==
  ASSUME NEW i \in Handlers, HandlersOnly(i)
  PROVE  UNCHANGED <<vars, replies>>
  BY DEF HandlersOnly, Load, ExecuteTurn, ExecuteWithoutTurn, ThrowInTry, ThrowOutside

LEMMA ServerStepIsStorageStep ==
  ASSUME HandlersTyped, ServerStep
  PROVE  [Next]_vars
<1>1. ASSUME NEW i \in Handlers, Finishing(i)
      PROVE  [Next]_vars
  BY <1>1, FinishIsStorageStep DEF Finishing
<1>2. CASE UNCHANGED serverVars
  BY <1>2 DEF serverVars, vars
<1> QED BY <1>1, <1>2, CommitIsStorageStep, ClaimIsStorageStep, HandlersOnlyKeepStorage
        DEF ServerStep, Receive, Crash, Next

-------------------------------------------------------------------------------
(* What the handlers hold.                                                  *)

LEMMA Stopped ==
  ASSUME HandlersTyped, NEW i \in Handlers, Stop(i)
  PROVE  HandlersTyped'
  BY IdleIsNoStep DEF HandlersTyped, Stop

\* A handler that moves on with a well-formed request leaves the others alone.
LEMMA Replaced ==
  ASSUME HandlersTyped, NEW i \in Handlers, NEW r \in Requests,
         r.pc \in {"commit", "finish"} => r.response \in Responses,
         handler' = [handler EXCEPT ![i] = r]
  PROVE  HandlersTyped'
  BY DEF HandlersTyped

LEMMA HandlersStep ==
  ASSUME IInv, HandlersTyped, WorldIsItsTurns, ServerStep, TypeOK'
  PROVE  HandlersTyped'
<1>1. ASSUME NEW i \in Handlers, NEW s \in Sessions, NEW k \in Keys, NEW body \in Bodies,
             Receive(i, s, k, body)
      PROVE  HandlersTyped'
  <2> DEFINE r == [pc |-> "claim", session |-> s, key |-> k, body |-> body, token |-> 0,
                   world |-> InitialWorld, response |-> NoResponse]
  <2>1. r \in Requests
    BY ConstantAssumption, ServerAssumption, EmptySeq DEF Requests, Steps, SafeNat
  <2>2. handler' = [handler EXCEPT ![i] = r] /\ r.pc = "claim"
    BY <1>1 DEF Receive
  <2> QED BY <2>1, <2>2, Replaced
<1>2. ASSUME NEW i \in Handlers, NEW t \in Readings, NEW lease \in Durations, Claim(i, t, lease)
      PROVE  HandlersTyped'
  <2>1. handler[i] \in Requests
    BY <1>2, AtWork DEF Claim, At
  <2>2. CASE Stop(i)
    BY <2>2, Stopped
  <2>3. ASSUME ~Stop(i) PROVE HandlersTyped'
    <3> DEFINE token == operation'[handler[i].session][handler[i].key].fencingToken
               r == [handler[i] EXCEPT !.pc = "load", !.token = token]
    <3>1. token \in SafeNat
      BY <2>1 DEF Requests, TypeOK, OperationRecord
    <3>2. r \in Requests /\ r.pc = "load"
      BY <2>1, <3>1 DEF Requests, Steps
    <3>3. handler' = [handler EXCEPT ![i].pc = "load", ![i].token = token]
      BY <1>2, <2>3 DEF Claim
    <3>4. handler' = [handler EXCEPT ![i] = r]
      BY <3>3 DEF HandlersTyped
    <3> HIDE DEF r
    <3> QED BY <3>2, <3>4, Replaced
  <2> QED BY <2>2, <2>3
<1>3. ASSUME NEW i \in Handlers, HandlersOnly(i)
      PROVE  HandlersTyped'
  <2>1. CASE Stop(i)
    BY <2>1, Stopped
  <2>2. ASSUME Load(i), ~Stop(i) PROVE HandlersTyped'
    <3>1. handler[i] \in Requests
      BY <2>2, AtWork DEF Load, At
    <3> DEFINE world == session[handler[i].session].state
               r == [handler[i] EXCEPT !.pc = "execute", !.world = world]
    <3>2. world \in Worlds
      BY <3>1 DEF Requests, IInv, TypeOK, SessionRecord
    <3>3. world \in Seq(Keys)
      <4>1. handler[i].session \in Sessions
        BY <3>1 DEF Requests
      <4> HIDE DEF world
      <4>2. \A j \in 1..Len(turns[handler[i].session]) :
              turns[handler[i].session][j].operationId \in Keys
        BY <4>1, TurnsTyped DEF IInv
      <4>3. Len(turns[handler[i].session]) \in Nat
        BY <4>1, LenProperties DEF IInv, TypeOK
      <4>4. world = [j \in 1..Len(turns[handler[i].session]) |->
                       turns[handler[i].session][j].operationId]
        BY <4>1 DEF WorldIsItsTurns, world
      <4> QED BY <4>2, <4>3, <4>4, IsASeq
    <3>4. handler' = [handler EXCEPT ![i].pc = "execute", ![i].world = world]
      BY <2>2 DEF Load
    <3>5. r \in Requests /\ r.pc = "execute"
      BY <3>1, <3>2, <3>3 DEF Requests, Steps
    <3>6. handler' = [handler EXCEPT ![i] = r]
      BY <3>4 DEF HandlersTyped
    <3> HIDE DEF r
    <3> QED BY <3>5, <3>6, Replaced
  <2>3. ASSUME NEW text \in Texts, ExecuteTurn(i, text) PROVE HandlersTyped'
    <3>1. handler[i] \in Requests
      BY <2>3, AtWork DEF ExecuteTurn, At
    <3> DEFINE world == Append(handler[i].world, handler[i].key)
               response == [kind |-> "action_result", text |-> text]
               r == [handler[i] EXCEPT !.pc = "commit", !.world = world, !.response = response]
    <3>2. world \in Worlds \cap Seq(Keys)
      <4>1. /\ handler[i].world \in Worlds /\ handler[i].world \in Seq(Keys)
            /\ handler[i].key \in Keys /\ Len(handler[i].world) < MaxSafe
        BY <2>3, <3>1 DEF Requests, ExecuteTurn
      <4> QED BY <4>1, ServerAssumption, AppendProperties
    <3>3. response \in Responses
      BY FailedResponse
    <3>4. handler' = [handler EXCEPT ![i].pc = "commit", ![i].world = world,
                                     ![i].response = response]
      BY <2>3 DEF ExecuteTurn, HandlersTyped
    <3> HIDE DEF world, response
    <3>5. r \in Requests /\ r.pc = "commit" /\ r.response = response
      BY <3>1, <3>2, <3>3 DEF Requests, Steps
    <3>6. handler' = [handler EXCEPT ![i] = r]
      BY <3>4 DEF HandlersTyped
    <3> HIDE DEF r
    <3> QED BY <3>3, <3>5, <3>6, Replaced
  <2>4. ASSUME NEW kind \in NoTurnKinds, NEW text \in Texts, ExecuteWithoutTurn(i, kind, text)
        PROVE  HandlersTyped'
    <3> DEFINE response == [kind |-> kind, text |-> text]
               r == [handler[i] EXCEPT !.pc = "finish", !.response = response]
    <3>1. handler[i] \in Requests
      BY <2>4, AtWork DEF ExecuteWithoutTurn, At
    <3>2. response \in Responses
      BY FailedResponse
    <3>3. handler' = [handler EXCEPT ![i].pc = "finish", ![i].response = response]
      BY <2>4 DEF ExecuteWithoutTurn
    <3> HIDE DEF response
    <3>4. r \in Requests /\ r.pc = "finish" /\ r.response = response
      BY <3>1, <3>2 DEF Requests, Steps
    <3>5. handler' = [handler EXCEPT ![i] = r]
      BY <3>3 DEF HandlersTyped
    <3> HIDE DEF r
    <3> QED BY <3>2, <3>4, <3>5, Replaced
  <2>5. ASSUME ThrowInTry(i) PROVE HandlersTyped'
    <3> DEFINE r == [handler[i] EXCEPT !.pc = "fail"]
    <3>1. handler[i] \in Requests
      BY <2>5, AtWork DEF ThrowInTry
    <3>2. r \in Requests /\ r.pc = "fail"
      BY <3>1 DEF Requests, Steps
    <3>3. handler' = [handler EXCEPT ![i] = r]
      BY <2>5 DEF ThrowInTry, GoTo, HandlersTyped
    <3> HIDE DEF r
    <3> QED BY <3>2, <3>3, Replaced
  <2> QED BY <1>3, <2>1, <2>2, <2>3, <2>4, <2>5 DEF HandlersOnly, ThrowOutside
<1>4. CASE Crash
  BY <1>4, IdleIsNoStep DEF Crash, HandlersTyped
<1>5. CASE handler' = handler
  BY <1>5 DEF HandlersTyped
<1>6. ASSUME NEW i \in Handlers, Stop(i)
      PROVE  HandlersTyped'
  BY <1>6, Stopped
<1> QED BY <1>1, <1>2, <1>3, <1>4, <1>5, <1>6
        DEF ServerStep, serverVars, Commit, Finishing, FinishWith

-------------------------------------------------------------------------------
(* The storage under the handlers.                                          *)

\* What a committed turn does to its session (PublishTurn with the handler's world).
Published(i) ==
  LET s == handler[i].session
      k == handler[i].key IN
  /\ session[s].revision = handler[i].body.revision
  /\ session'[s].state = handler[i].world
  /\ session'[s].revision = session[s].revision + 1
  /\ \E turn \in TurnRecord : turns'[s] = Append(turns[s], turn) /\ turn.operationId = k
  /\ \A x \in Sessions \ {s} : session'[x] = session[x] /\ turns'[x] = turns[x]
  /\ operation'[s][k].status = "completed"
  /\ operation'[s][k].publicResponse = handler[i].response

WorldsKept ==
  /\ turns' = turns
  /\ \A s \in Sessions : /\ session'[s].state = session[s].state
                         /\ session'[s].revision = session[s].revision

\* A step keeps what each operation was claimed for, but for one granted claim.
QuestionsKept ==
  \A s \in Sessions, k \in Keys :
    /\ operation'[s][k].status # "absent" => operation[s][k].status # "absent"
    /\ operation'[s][k].requestHash = operation[s][k].requestHash
    /\ operation'[s][k].expectedRevision = operation[s][k].expectedRevision

\* The grant of a claim.
LEMMA ClaimFacts ==
  ASSUME IInv, HandlersTyped, NEW i \in Handlers, NEW t \in Readings, NEW lease \in Durations,
         Claim(i, t, lease)
  PROVE  /\ WorldsKept
         /\ \/ UNCHANGED vars
            \/ LET s == handler[i].session
                   k == handler[i].key IN
               /\ operation'[s][k].requestHash = handler[i].body
               /\ operation'[s][k].expectedRevision = handler[i].body.revision
               /\ \A x \in Sessions, j \in Keys :
                    x # s \/ j # k => operation'[x][j] = operation[x][j]
<1> DEFINE s == handler[i].session
           k == handler[i].key
           body == handler[i].body
<1>1. handler[i] \in Requests
  BY AtWork DEF Claim, At
<1>2. s \in Sessions /\ k \in Keys /\ body \in Hashes /\ body.revision \in SafeNat
  BY <1>1, ServerAssumption DEF Requests, Bodies
<1>3. ClaimOperation(s, k, body, body.revision, t, lease)
  BY DEF Claim
<1> HIDE DEF s, k, body
<1>4. CASE UNCHANGED vars
  BY <1>4 DEF vars, WorldsKept
<1>5. CASE GrantClaim(s, k, body, body.revision, t, lease)
  <2>1. WorldsKept
    BY <1>2, <1>5 DEF GrantClaim, WorldsKept, IInv, TypeOK, SessionRecord
  <2> DEFINE r == ClaimedRecord(s, k, body, body.revision, t, lease)
  <2>2. r.requestHash = body /\ r.expectedRevision = body.revision
    BY <1>2, RecordsTyped DEF IInv, OperationRecord, ClaimedRecord
  <2>3. operation' = [operation EXCEPT ![s][k] = r]
    BY <1>5 DEF GrantClaim
  <2> HIDE DEF r
  <2>4. /\ operation'[s][k] = r
        /\ \A x \in Sessions, j \in Keys :
             x # s \/ j # k => operation'[x][j] = operation[x][j]
    BY <1>2, <2>3 DEF IInv, TypeOK
  <2> QED BY <2>1, <2>2, <2>4 DEF s, k, body
<1> QED BY <1>3, <1>4, <1>5 DEF ClaimOperation

LEMMA CommitFacts ==
  ASSUME IInv, HandlersTyped, NEW i \in Handlers, NEW t \in Readings, Commit(i, t)
  PROVE  /\ QuestionsKept
         /\ \/ UNCHANGED <<vars, replies>>
            \/ Published(i)
<1> DEFINE h == handler[i]
           rev == h.body.revision
           candidate == [revision |-> Len(h.world), state |-> h.world]
           turn == [turnId |-> <<h.session, h.key>>, operationId |-> h.key,
                    beforeRevision |-> rev, afterRevision |-> Len(h.world)]
<1>1. /\ At(i, "commit")
      /\ CommitTurn(h.session, h.key, rev, h.token, candidate, turn, h.response, t)
      /\ CommitOutcome(h.session, h.key, rev, h.token, candidate, turn, h.response, t)
           # "committed" => UNCHANGED replies
  BY DEF Commit
<1>2. h \in Requests /\ h.session \in Sessions /\ h.key \in Keys
  BY <1>1, AtWork DEF At, Requests
<1>3. candidate.state = h.world /\ turn.operationId = h.key /\ candidate.revision = Len(h.world)
  OBVIOUS
<1> HIDE DEF h, rev, candidate, turn
<1>4. CASE CommitOutcome(h.session, h.key, rev, h.token, candidate, turn, h.response, t)
             = "committed"
  <2>1. /\ CompletionOutcome(h.session, h.key, rev, h.token, t) = "holder"
        /\ rev \in SafeNat /\ Len(h.world) = rev + 1 /\ turn \in TurnRecord
    BY <1>1, <1>4, CommittedArguments DEF h, rev, candidate, turn
  <2>2. /\ operation[h.session][h.key].status = "processing"
        /\ session[h.session].revision = rev
    BY <1>2, <2>1, HolderFacts
  <2>3. PublishTurn(h.session, h.key, candidate, turn, h.response)
    BY <1>1, <1>4 DEF CommitTurn
  <2>4. /\ session'[h.session].state = h.world
        /\ session'[h.session].revision = rev + 1
        /\ turns'[h.session] = Append(turns[h.session], turn)
        /\ \A x \in Sessions \ {h.session} : session'[x] = session[x] /\ turns'[x] = turns[x]
    BY <1>2, <1>3, <2>1, <2>3 DEF PublishTurn, IInv, TypeOK, SessionRecord
  <2> DEFINE r == CompletedRecord(h.session, h.key, "completed", turn.turnId, h.response)
  <2>5. /\ r.status = "completed" /\ r.publicResponse = h.response
        /\ r.requestHash = operation[h.session][h.key].requestHash
        /\ r.expectedRevision = operation[h.session][h.key].expectedRevision
    BY <1>2, RecordsTyped DEF IInv, OperationRecord, CompletedRecord
  <2>6. operation' = [operation EXCEPT ![h.session][h.key] = r]
    BY <2>3 DEF PublishTurn
  <2> HIDE DEF r
  <2>7. /\ operation'[h.session][h.key] = r
        /\ \A x \in Sessions, j \in Keys :
             x # h.session \/ j # h.key => operation'[x][j] = operation[x][j]
    BY <1>2, <2>6 DEF IInv, TypeOK
  <2>8. QuestionsKept
    BY <2>2, <2>5, <2>7 DEF QuestionsKept
  <2>9. Published(i)
    BY <1>3, <2>1, <2>2, <2>4, <2>5, <2>7 DEF Published, h, rev
  <2> QED BY <2>8, <2>9
<1>5. CASE CommitOutcome(h.session, h.key, rev, h.token, candidate, turn, h.response, t)
             # "committed"
  BY <1>1, <1>5 DEF CommitTurn, vars, QuestionsKept
<1> QED BY <1>4, <1>5

LEMMA FinishFacts ==
  ASSUME IInv, HandlersTyped, NEW i \in Handlers, handler[i].pc # "idle", NEW t \in Readings,
         NEW response \in Responses, FinishWith(i, response, t)
  PROVE  /\ WorldsKept
         /\ QuestionsKept
         /\ \/ UNCHANGED replies
            \/ /\ operation'[handler[i].session][handler[i].key].status = "finished_without_turn"
               /\ operation'[handler[i].session][handler[i].key].publicResponse = response
<1> DEFINE h == handler[i]
           rev == h.body.revision
<1>1. /\ FinishWithoutTurn(h.session, h.key, rev, h.token, response, t)
      /\ FinishOutcome(h.session, h.key, rev, h.token, response, t) # "finished"
           => UNCHANGED replies
  BY DEF FinishWith
<1>2. h \in Requests /\ h.session \in Sessions /\ h.key \in Keys
  BY AtWork DEF Requests
<1> HIDE DEF h, rev
<1>3. CASE FinishOutcome(h.session, h.key, rev, h.token, response, t) = "finished"
  <2>1. CompletionOutcome(h.session, h.key, rev, h.token, t) = "holder"
    BY <1>3 DEF FinishOutcome, CompletionOutcome, OperationOutcome, HolderOutcome
  <2>2. operation[h.session][h.key].status = "processing"
    BY <1>2, <2>1, HolderFacts
  <2>3. ReleaseWithoutTurn(h.session, h.key, response)
    BY <1>1, <1>3 DEF FinishWithoutTurn
  <2>4. WorldsKept
    BY <1>2, <2>3 DEF ReleaseWithoutTurn, WorldsKept, IInv, TypeOK, SessionRecord
  <2> DEFINE r == CompletedRecord(h.session, h.key, "finished_without_turn", NoTurn, response)
  <2>5. /\ r.status = "finished_without_turn" /\ r.publicResponse = response
        /\ r.requestHash = operation[h.session][h.key].requestHash
        /\ r.expectedRevision = operation[h.session][h.key].expectedRevision
    BY <1>2, RecordsTyped DEF IInv, OperationRecord, CompletedRecord
  <2>6. operation' = [operation EXCEPT ![h.session][h.key] = r]
    BY <2>3 DEF ReleaseWithoutTurn
  <2> HIDE DEF r
  <2>7. /\ operation'[h.session][h.key] = r
        /\ \A x \in Sessions, j \in Keys :
             x # h.session \/ j # h.key => operation'[x][j] = operation[x][j]
    BY <1>2, <2>6 DEF IInv, TypeOK
  <2>8. QuestionsKept
    BY <2>2, <2>5, <2>7 DEF QuestionsKept
  <2> QED BY <2>4, <2>5, <2>7, <2>8 DEF h
<1>4. CASE FinishOutcome(h.session, h.key, rev, h.token, response, t) # "finished"
  BY <1>1, <1>4 DEF FinishWithoutTurn, vars, WorldsKept, QuestionsKept
<1> QED BY <1>3, <1>4

-------------------------------------------------------------------------------
(* The inductive step.                                                      *)

LEMMA InitServerIInv == ServerInit => ServerIInv
<1> SUFFICES ASSUME ServerInit PROVE ServerIInv
  OBVIOUS
<1>1. IInv
  BY InitIInv DEF ServerInit
<1>2. HandlersTyped /\ HandlersWorldIsOfItsRevision
  BY IdleIsNoStep DEF ServerInit, HandlersTyped, HandlersWorldIsOfItsRevision, Idle
<1>3. RepliesTyped /\ RepliesAgree
  BY DEF ServerInit, RepliesTyped, RepliesAgree
<1>4. WorldIsItsTurns
  <2>1. \A s \in Sessions : turns[s] = <<>> /\ Len(turns[s]) = 0 /\ session[s].state = <<>>
    BY ServerAssumption DEF ServerInit, Init, NoSession
  <2>2. \A s \in Sessions : [i \in 1..Len(turns[s]) |-> turns[s][i].operationId] = <<>>
    BY <2>1
  <2> QED BY <2>1, <2>2 DEF WorldIsItsTurns
<1>5. QuestionsAsked
  BY DEF ServerInit, Init, NoOperation, QuestionsAsked, At, Idle
<1> QED BY <1>1, <1>2, <1>3, <1>4, <1>5 DEF ServerIInv

\* Which steps move a world: a committed turn, and no other.
LEMMA WorldsStep ==
  ASSUME IInv, HandlersTyped, ServerStep
  PROVE  \/ WorldsKept
         \/ \E i \in Handlers : At(i, "commit") /\ Stop(i) /\ Published(i)
<1>1. ASSUME NEW i \in Handlers, Finishing(i)
      PROVE  WorldsKept
  BY <1>1, FinishFacts DEF Finishing
<1>2. CASE \E i \in Handlers, t \in Readings : Commit(i, t)
  <2>1. UNCHANGED vars => WorldsKept
    BY DEF vars, WorldsKept
  <2> QED BY <1>2, <2>1, CommitFacts DEF Commit
<1>3. CASE \E s \in Sessions : CreateGuestSession(s)
  BY <1>3 DEF CreateGuestSession, WorldsKept, IInv, TypeOK, SessionRecord
<1>4. CASE Tick \/ UNCHANGED vars
  BY <1>4 DEF Tick, vars, WorldsKept
<1> QED BY <1>1, <1>2, <1>3, <1>4, ClaimFacts, HandlersOnlyKeepStorage
        DEF ServerStep, serverVars, vars, Receive, Crash

LEMMA WorldIsItsTurnsStep ==
  ASSUME ServerIInv, ServerStep
  PROVE  WorldIsItsTurns'
<1>1. CASE WorldsKept
  BY <1>1 DEF WorldsKept, ServerIInv, WorldIsItsTurns
<1>2. ASSUME NEW i \in Handlers, At(i, "commit"), Published(i)
      PROVE  WorldIsItsTurns'
  <2> DEFINE s == handler[i].session
  <2>1. s \in Sessions /\ handler[i].key \in Keys
    BY <1>2, AtWork DEF ServerIInv, At, Requests
  <2>2. session'[s].state = Append(session[s].state, handler[i].key)
    BY <1>2 DEF Published, ServerIInv, HandlersWorldIsOfItsRevision, At
  <2> HIDE DEF s
  <2>3. session[s].state = OperationIds(turns[s])
    BY <2>1 DEF ServerIInv, WorldIsItsTurns, OperationIds
  <2>4. PICK turn \in TurnRecord :
          turns'[s] = Append(turns[s], turn) /\ turn.operationId = handler[i].key
    BY <1>2 DEF Published, s
  <2>5. turns[s] \in Seq(TurnRecord)
    BY <2>1 DEF ServerIInv, IInv, TypeOK
  <2>6. session'[s].state = OperationIds(turns'[s])
    BY <2>2, <2>3, <2>4, <2>5, OperationIdsAppend
  <2>7. \A x \in Sessions \ {s} : session'[x] = session[x] /\ turns'[x] = turns[x]
    BY <1>2 DEF Published, s
  <2> QED BY <2>6, <2>7 DEF ServerIInv, WorldIsItsTurns, OperationIds
<1> QED BY <1>1, <1>2, WorldsStep DEF ServerIInv

\* A handler's part of the invariant, when only its session's world may have moved.
LEMMA HandlersWorldStep ==
  ASSUME ServerIInv, ServerStep
  PROVE  HandlersWorldIsOfItsRevision'
<1> SUFFICES ASSUME NEW i \in Handlers, handler'[i].pc \in {"execute", "commit"}
             PROVE  LET h == handler'[i] IN
                    /\ h.body.revision <= session'[h.session].revision
                    /\ h.body.revision = session'[h.session].revision =>
                         h.world = IF h.pc = "execute" THEN session'[h.session].state
                                   ELSE Append(session'[h.session].state, h.key)
  BY DEF HandlersWorldIsOfItsRevision
<1>1. \A j \in Handlers : Stop(j) => j # i /\ handler'[i] = handler[i]
  BY IdleIsNoStep DEF Stop, ServerIInv, HandlersTyped, Idle
<1>2. CASE WorldsKept /\ handler'[i] = handler[i]
  <2>1. handler[i].session \in Sessions
    BY <1>2, AtWork DEF ServerIInv, Requests
  <2> QED BY <1>2, <2>1 DEF WorldsKept, ServerIInv, HandlersWorldIsOfItsRevision
<1>3. ASSUME NEW j \in Handlers, At(j, "commit"), Stop(j), Published(j)
      PROVE  LET h == handler'[i] IN
             /\ h.body.revision <= session'[h.session].revision
             /\ h.body.revision = session'[h.session].revision =>
                  h.world = IF h.pc = "execute" THEN session'[h.session].state
                            ELSE Append(session'[h.session].state, h.key)
  <2>1. handler'[i] = handler[i]
    BY <1>1, <1>3
  <2>2. handler[i] \in Requests /\ handler[j] \in Requests
    BY <1>3, <2>1, AtWork DEF ServerIInv, At
  <2>3. /\ handler[i].session \in Sessions /\ handler[j].session \in Sessions
        /\ handler[i].body.revision \in SafeNat
    BY <2>2 DEF Requests, Bodies
  <2>4. CASE handler[i].session # handler[j].session
    <3>1. session'[handler[i].session] = session[handler[i].session]
      BY <1>3, <2>3, <2>4 DEF Published
    <3> QED BY <2>1, <3>1 DEF ServerIInv, HandlersWorldIsOfItsRevision
  <2>5. CASE handler[i].session = handler[j].session
    <3>1. session'[handler[i].session].revision = session[handler[i].session].revision + 1
      BY <1>3, <2>5 DEF Published
    <3>2. handler[i].body.revision <= session[handler[i].session].revision
      BY <2>1 DEF ServerIInv, HandlersWorldIsOfItsRevision
    <3>3. session[handler[i].session].revision \in SafeNat
      BY <2>3 DEF ServerIInv, IInv, TypeOK, SessionRecord
    <3>4. /\ handler[i].body.revision <= session'[handler[i].session].revision
          /\ handler[i].body.revision # session'[handler[i].session].revision
      BY <2>3, <3>1, <3>2, <3>3 DEF SafeNat
    <3> QED BY <2>1, <3>4
  <2> QED BY <2>4, <2>5
<1>4. CASE \E j \in Handlers : HandlersOnly(j)
  <2>1. PICK j \in Handlers : HandlersOnly(j)
    BY <1>4
  <2>2. WorldsKept /\ UNCHANGED session
    BY <2>1, HandlersOnlyKeepStorage DEF vars, WorldsKept
  <2>3. CASE handler'[i] = handler[i]
    BY <1>2, <2>2, <2>3
  <2>4. CASE j = i /\ ~Stop(j) /\ Load(j)
    <3>1. handler[i] \in Requests
      BY <2>4, AtWork DEF ServerIInv, Load, At
    <3>2. /\ handler'[i].body = handler[i].body /\ handler'[i].session = handler[i].session
          /\ handler'[i].world = session[handler[i].session].state
          /\ handler'[i].pc = "execute"
          /\ session[handler[i].session].revision = handler[i].body.revision
      BY <2>4, <3>1 DEF Load, ServerIInv, HandlersTyped, Requests
    <3>3. handler[i].body.revision \in SafeNat
      BY <3>1 DEF Requests, Bodies
    <3> QED BY <2>2, <3>2, <3>3 DEF SafeNat
  <2>5. CASE j = i /\ \E text \in Texts : ExecuteTurn(j, text)
    <3>1. handler[i] \in Requests /\ handler[i].pc = "execute"
      BY <2>5, AtWork DEF ServerIInv, ExecuteTurn, At
    <3>2. /\ handler'[i].body = handler[i].body /\ handler'[i].session = handler[i].session
          /\ handler'[i].world = Append(handler[i].world, handler[i].key)
          /\ handler'[i].pc = "commit" /\ handler'[i].key = handler[i].key
      BY <2>5, <3>1 DEF ExecuteTurn, ServerIInv, HandlersTyped, Requests
    <3> QED BY <2>2, <3>1, <3>2 DEF ServerIInv, HandlersWorldIsOfItsRevision
  <2>6. ASSUME j = i,
               \/ \E kind \in NoTurnKinds, text \in Texts : ExecuteWithoutTurn(j, kind, text)
               \/ ThrowInTry(j) \/ ThrowOutside(j)
        PROVE  FALSE
    BY <2>6, <1>1 DEF ExecuteWithoutTurn, ThrowInTry, ThrowOutside, GoTo, At, ServerIInv,
                      HandlersTyped, Requests, Idle
  <2>7. j # i => handler'[i] = handler[i]
    BY <2>1 DEF HandlersOnly, Load, ExecuteTurn, ExecuteWithoutTurn, ThrowInTry, ThrowOutside,
                GoTo, Stop, ServerIInv, HandlersTyped
  <2> QED BY <1>1, <2>1, <2>3, <2>4, <2>5, <2>6, <2>7 DEF HandlersOnly
<1>5. ASSUME NEW j \in Handlers, NEW s \in Sessions, NEW k \in Keys, NEW body \in Bodies,
             Receive(j, s, k, body)
      PROVE  WorldsKept /\ handler'[i] = handler[i]
  <2>1. WorldsKept
    BY <1>5 DEF Receive, vars, WorldsKept
  <2>2. j = i => handler'[i].pc = "claim"
    BY <1>5 DEF Receive, ServerIInv, HandlersTyped
  <2>3. j # i => handler'[i] = handler[i]
    BY <1>5 DEF Receive, ServerIInv, HandlersTyped
  <2> QED BY <2>1, <2>2, <2>3
<1>6. ASSUME NEW j \in Handlers, NEW t \in Readings, NEW lease \in Durations, Claim(j, t, lease)
      PROVE  WorldsKept /\ handler'[i] = handler[i]
  <2>1. WorldsKept
    BY <1>6, ClaimFacts DEF ServerIInv
  <2>2. CASE Stop(j)
    BY <1>1, <2>1, <2>2
  <2>3. CASE ~Stop(j)
    <3> DEFINE token == operation'[handler[j].session][handler[j].key].fencingToken
    <3>1. handler' = [handler EXCEPT ![j].pc = "load", ![j].token = token]
      BY <1>6, <2>3 DEF Claim
    <3> HIDE DEF token
    <3>2. handler[j] \in Requests
      BY <1>6, AtWork DEF Claim, At, ServerIInv
    <3>3. j = i => handler'[i].pc = "load"
      BY <3>1, <3>2 DEF ServerIInv, HandlersTyped, Requests
    <3>4. j # i => handler'[i] = handler[i]
      BY <3>1 DEF ServerIInv, HandlersTyped
    <3> QED BY <2>1, <3>3, <3>4
  <2> QED BY <2>2, <2>3
<1>7. CASE \E j \in Handlers, t \in Readings : Commit(j, t)
  <2>1. PICK j \in Handlers, t \in Readings : Commit(j, t)
    BY <1>7
  <2>2. Stop(j) /\ At(j, "commit")
    BY <2>1 DEF Commit
  <2>3. CASE UNCHANGED vars
    BY <1>1, <1>2, <2>2, <2>3 DEF vars, WorldsKept
  <2> QED BY <1>3, <2>1, <2>2, <2>3, CommitFacts DEF ServerIInv
<1>8. ASSUME NEW j \in Handlers, Finishing(j)
      PROVE  WorldsKept /\ handler'[i] = handler[i]
  BY <1>1, <1>8, FinishFacts DEF Finishing, FinishWith, ServerIInv
<1>9. CASE Crash
  BY <1>9 DEF Crash, Idle
<1>10. CASE UNCHANGED handler /\ (UNCHANGED vars \/ Tick \/ \E s \in Sessions : CreateGuestSession(s))
  <2>1. WorldsKept
    <3>1. UNCHANGED vars \/ Tick => WorldsKept
      BY DEF vars, Tick, WorldsKept
    <3>2. ASSUME NEW s \in Sessions, CreateGuestSession(s) PROVE WorldsKept
      BY <3>2 DEF CreateGuestSession, WorldsKept, ServerIInv, IInv, TypeOK, SessionRecord
    <3> QED BY <1>10, <3>1, <3>2
  <2> QED BY <1>2, <1>10, <2>1
<1> QED BY <1>2, <1>4, <1>5, <1>6, <1>7, <1>8, <1>9, <1>10 DEF ServerStep, serverVars, vars

\* A reply carries what its operation has come to.
LEMMA RepliesStep ==
  ASSUME ServerIInv, ServerStep
  PROVE  RepliesTyped' /\ RepliesAgree'
<1> DEFINE Replied(r) ==
             /\ r \in Sessions \X Keys \X (Responses \cup {NoResponse})
             /\ operation'[r[1]][r[2]].status \in Outcomes
             /\ operation'[r[1]][r[2]].publicResponse = r[3]
<1>1. SUFFICES ASSUME NEW r \in replies' PROVE Replied(r)
  BY DEF RepliesTyped, RepliesAgree
<1>2. [Next]_vars
  BY ServerStepIsStorageStep DEF ServerIInv
<1>3. CASE r \in replies
  <2>1. /\ r \in Sessions \X Keys \X (Responses \cup {NoResponse})
        /\ operation[r[1]][r[2]].status \in Outcomes
        /\ operation[r[1]][r[2]].publicResponse = r[3]
    BY <1>3 DEF ServerIInv, RepliesTyped, RepliesAgree
  <2>2. operation'[r[1]][r[2]] = operation[r[1]][r[2]]
    BY <1>2, <2>1, DecidedStep DEF ServerIInv
  <2> QED BY <2>1, <2>2
<1>4. ASSUME NEW i \in Handlers, NEW t \in Readings, NEW lease \in Durations, Claim(i, t, lease),
             r \notin replies
      PROVE  Replied(r)
  <2> DEFINE h == handler[i]
             op == operation[h.session][h.key]
  <2>1. h \in Requests
    BY <1>4, AtWork DEF Claim, At, ServerIInv
  <2>2. h.session \in Sessions /\ h.key \in Keys
    BY <2>1 DEF Requests
  <2>3. /\ ClaimOutcome(h.session, h.key, h.body, h.body.revision, t, lease) = "replay"
        /\ r = <<h.session, h.key, op.publicResponse>>
        /\ ClaimOperation(h.session, h.key, h.body, h.body.revision, t, lease)
    BY <1>1, <1>4 DEF Claim, Reply
  <2>4. op.status \in Outcomes
    BY <2>2, <2>3 DEF ClaimOutcome, ExistingOutcome, ReacquireOutcome, FirstOutcome,
                      ServerIInv, IInv, TypeOK, OperationRecord
  <2>5. operation' = operation
    BY <2>3 DEF ClaimOperation, Granted, vars
  <2>6. op.publicResponse \in Responses \cup {NoResponse}
    BY <2>2 DEF ServerIInv, IInv, TypeOK, OperationRecord
  <2> QED BY <2>2, <2>3, <2>4, <2>5, <2>6
<1>5. ASSUME NEW i \in Handlers, NEW t \in Readings, Commit(i, t), r \notin replies
      PROVE  Replied(r)
  <2> DEFINE h == handler[i]
  <2>1. h \in Requests /\ h.response \in Responses
    BY <1>5, AtWork DEF Commit, At, ServerIInv, HandlersTyped
  <2>2. h.session \in Sessions /\ h.key \in Keys
    BY <2>1 DEF Requests
  <2>3. Published(i) /\ r = <<h.session, h.key, h.response>>
    BY <1>1, <1>5, CommitFacts DEF Commit, Reply, ServerIInv
  <2> QED BY <2>1, <2>2, <2>3 DEF Published, Outcomes
<1>6. ASSUME NEW i \in Handlers, NEW t \in Readings, NEW response \in Responses,
             handler[i].pc \in {"finish", "fail"}, FinishWith(i, response, t), r \notin replies
      PROVE  Replied(r)
  <2> DEFINE h == handler[i]
  <2>1. h \in Requests
    BY <1>6, AtWork DEF ServerIInv
  <2>2. h.session \in Sessions /\ h.key \in Keys
    BY <2>1 DEF Requests
  <2>3. r = <<h.session, h.key, response>>
    BY <1>1, <1>6 DEF FinishWith, Reply
  <2>4. /\ operation'[h.session][h.key].status = "finished_without_turn"
        /\ operation'[h.session][h.key].publicResponse = response
    BY <1>1, <1>6, FinishFacts DEF ServerIInv
  <2> QED BY <2>2, <2>3, <2>4 DEF Outcomes
<1>7. CASE replies' = replies
  BY <1>1, <1>3, <1>7
<1> QED BY <1>1, <1>3, <1>4, <1>5, <1>6, <1>7, HandlersOnlyKeepStorage
        DEF ServerStep, serverVars, Receive, Crash, Finishing

\* A question that was asked stays asked: it is a decided operation.
LEMMA QuestionStays ==
  ASSUME IInv, [Next]_vars, NEW s \in Sessions, NEW body \in Bodies,
         QuestionAsked(operation, s, body)
  PROVE  QuestionAsked(operation', s, body)
<1>1. CASE body.clarification = NoKey
  BY <1>1 DEF QuestionAsked
<1>2. CASE body.clarification # NoKey
  <2>1. body.clarification \in Keys
    BY <1>2 DEF Bodies
  <2>2. operation[s][body.clarification].status \in Outcomes
    BY <1>2 DEF QuestionAsked, Outcomes
  <2>3. operation'[s][body.clarification] = operation[s][body.clarification]
    BY <2>1, <2>2, DecidedStep
  <2> QED BY <2>3 DEF QuestionAsked
<1> QED BY <1>1, <1>2

\* A handler takes up a request whose question was asked, keeps it, or drops it.
LEMMA HandlersRequests ==
  ASSUME HandlersTyped, ServerStep, NEW i \in Handlers, handler'[i].pc # "idle"
  PROVE  \/ /\ handler[i].pc # "idle"
            /\ handler'[i].session = handler[i].session /\ handler'[i].body = handler[i].body
         \/ /\ handler'[i].session \in Sessions /\ handler'[i].body \in Bodies
            /\ QuestionAsked(operation, handler'[i].session, handler'[i].body)
<1> DEFINE Kept == /\ handler[i].pc # "idle"
                   /\ handler'[i].session = handler[i].session
                   /\ handler'[i].body = handler[i].body
<1>1. CASE handler'[i] = handler[i]
  BY <1>1
<1>2. ASSUME NEW j \in Handlers, NEW s \in Sessions, NEW k \in Keys, NEW body \in Bodies,
             Receive(j, s, k, body), j = i
      PROVE  /\ handler'[i].session \in Sessions /\ handler'[i].body \in Bodies
             /\ QuestionAsked(operation, handler'[i].session, handler'[i].body)
  BY <1>2 DEF Receive, ClarificationOk, QuestionAsked, HandlersTyped
<1>3. ASSUME NEW j \in Handlers, NEW t \in Readings, NEW lease \in Durations, Claim(j, t, lease),
             j = i
      PROVE  Kept
  <2>1. handler[j] \in Requests
    BY <1>3, AtWork DEF Claim, At
  <2> DEFINE token == operation'[handler[j].session][handler[j].key].fencingToken
  <2>2. Stop(j) \/ handler' = [handler EXCEPT ![j].pc = "load", ![j].token = token]
    BY <1>3 DEF Claim
  <2> HIDE DEF token
  <2>3. ~Stop(j)
    BY <1>3, IdleIsNoStep DEF Stop, HandlersTyped
  <2> QED BY <1>3, <2>1, <2>2, <2>3 DEF HandlersTyped, Requests, Claim, At
<1>4. ASSUME NEW j \in Handlers, HandlersOnly(j), j = i
      PROVE  Kept
  <2>1. handler[j] \in Requests
    BY <1>4, AtWork DEF HandlersOnly, Load, ExecuteTurn, ExecuteWithoutTurn, ThrowInTry,
                        ThrowOutside, At
  <2>2. ~Stop(j)
    BY <1>4, IdleIsNoStep DEF Stop, HandlersTyped
  <2>3. handler[j].pc # "idle"
    BY <2>1, IdleIsNoStep DEF Requests
  <2> QED BY <1>4, <2>1, <2>2, <2>3
          DEF HandlersOnly, Load, ExecuteTurn, ExecuteWithoutTurn, ThrowInTry, ThrowOutside, GoTo,
              HandlersTyped, Requests
<1>5. ASSUME NEW j \in Handlers, Stop(j), j = i
      PROVE  FALSE
  BY <1>5, IdleIsNoStep DEF Stop, HandlersTyped
<1>6. CASE Crash
  BY <1>6, IdleIsNoStep DEF Crash
<1>7. ASSUME NEW j \in Handlers, j # i,
             \/ \E s \in Sessions, k \in Keys, body \in Bodies : Receive(j, s, k, body)
             \/ \E t \in Readings, lease \in Durations : Claim(j, t, lease)
             \/ HandlersOnly(j)
             \/ Stop(j)
      PROVE  handler'[i] = handler[i]
  BY <1>7 DEF Receive, Claim, HandlersOnly, Load, ExecuteTurn, ExecuteWithoutTurn, ThrowInTry,
              ThrowOutside, GoTo, Stop, HandlersTyped
<1> QED BY <1>1, <1>2, <1>3, <1>4, <1>5, <1>6, <1>7
        DEF ServerStep, serverVars, Commit, Finishing, FinishWith

\* An operation keeps what it was claimed for, but for one granted claim.
LEMMA QuestionsStep ==
  ASSUME IInv, HandlersTyped, ServerStep
  PROVE  \/ QuestionsKept
         \/ \E i \in Handlers :
              LET s == handler[i].session
                  k == handler[i].key IN
              /\ handler[i].pc # "idle"
              /\ operation'[s][k].requestHash = handler[i].body
              /\ operation'[s][k].expectedRevision = handler[i].body.revision
              /\ \A x \in Sessions, j \in Keys :
                   x # s \/ j # k => operation'[x][j] = operation[x][j]
<1>1. CASE operation' = operation
  BY <1>1 DEF QuestionsKept
<1>2. ASSUME NEW i \in Handlers, Finishing(i)
      PROVE  QuestionsKept
  BY <1>2, FinishFacts DEF Finishing
<1>3. CASE \E i \in Handlers, t \in Readings, lease \in Durations : Claim(i, t, lease)
  <2>1. PICK i \in Handlers, t \in Readings, lease \in Durations : Claim(i, t, lease)
    BY <1>3
  <2>2. CASE UNCHANGED vars
    BY <1>1, <2>2 DEF vars
  <2>3. CASE ~ UNCHANGED vars
    <3>1. handler[i].pc # "idle"
      BY <2>1 DEF Claim, At
    <3> QED BY <2>1, <2>3, <3>1, ClaimFacts
  <2> QED BY <2>2, <2>3
<1>4. CASE \E i \in Handlers, t \in Readings : Commit(i, t)
  BY <1>4, CommitFacts
<1>5. CASE \E i \in Handlers : HandlersOnly(i)
  BY <1>1, <1>5, HandlersOnlyKeepStorage DEF vars
<1>6. CASE \/ UNCHANGED serverVars
           \/ Tick
           \/ \E s \in Sessions : CreateGuestSession(s)
           \/ \E i \in Handlers, s \in Sessions, k \in Keys, body \in Bodies : Receive(i, s, k, body)
           \/ Crash
  BY <1>1, <1>6 DEF serverVars, vars, Tick, CreateGuestSession, Receive, Crash
<1> QED BY <1>2, <1>3, <1>4, <1>5, <1>6 DEF ServerStep

LEMMA QuestionsAskedStep ==
  ASSUME ServerIInv, ServerStep
  PROVE  QuestionsAsked'
<1>1. [Next]_vars
  BY ServerStepIsStorageStep DEF ServerIInv
<1>2. \A s \in Sessions, body \in Bodies :
        QuestionAsked(operation, s, body) => QuestionAsked(operation', s, body)
  BY <1>1, QuestionStays DEF ServerIInv
<1>3. ASSUME NEW i \in Handlers, handler[i].pc # "idle"
      PROVE  /\ handler[i].session \in Sessions /\ handler[i].body \in Bodies
             /\ QuestionAsked(operation, handler[i].session, handler[i].body)
  BY <1>3, AtWork DEF ServerIInv, Requests, QuestionsAsked, At
<1>4. \A i \in Handlers :
        handler'[i].pc # "idle" =>
          QuestionAsked(operation', handler'[i].session, handler'[i].body)
  BY <1>2, <1>3, HandlersRequests DEF ServerIInv
<1>5. ASSUME NEW s \in Sessions, NEW k \in Keys, operation'[s][k].status # "absent"
      PROVE  /\ operation'[s][k].requestHash.revision = operation'[s][k].expectedRevision
             /\ QuestionAsked(operation', s, operation'[s][k].requestHash)
  <2>1. operation[s][k].requestHash \in Bodies
    BY ServerAssumption DEF ServerIInv, IInv, TypeOK, OperationRecord
  <2>2. CASE /\ operation[s][k].status # "absent"
             /\ operation'[s][k].requestHash = operation[s][k].requestHash
             /\ operation'[s][k].expectedRevision = operation[s][k].expectedRevision
    <3>1. /\ operation[s][k].requestHash.revision = operation[s][k].expectedRevision
          /\ QuestionAsked(operation, s, operation[s][k].requestHash)
      BY <2>2 DEF ServerIInv, QuestionsAsked
    <3> QED BY <1>2, <2>1, <2>2, <3>1
  <2>3. QuestionsKept =>
          /\ operation[s][k].status # "absent"
          /\ operation'[s][k].requestHash = operation[s][k].requestHash
          /\ operation'[s][k].expectedRevision = operation[s][k].expectedRevision
    BY <1>5 DEF QuestionsKept
  <2>4. ASSUME NEW i \in Handlers, handler[i].pc # "idle", s = handler[i].session,
               k = handler[i].key, operation'[s][k].requestHash = handler[i].body,
               operation'[s][k].expectedRevision = handler[i].body.revision
        PROVE  /\ operation'[s][k].requestHash.revision = operation'[s][k].expectedRevision
               /\ QuestionAsked(operation', s, operation'[s][k].requestHash)
    BY <1>2, <1>3, <2>4
  <2>5. CASE operation'[s][k] = operation[s][k]
    BY <1>5, <2>2, <2>5
  <2> QED BY <2>2, <2>3, <2>4, <2>5, QuestionsStep DEF ServerIInv
<1> QED BY <1>4, <1>5 DEF QuestionsAsked, At

LEMMA ServerInductive ==
  ASSUME ServerIInv, [ServerNext]_serverVars
  PROVE  ServerIInv'
<1>1. ServerStep
  BY ServerNextIsServerStep DEF ServerIInv
<1>2. [Next]_vars
  BY <1>1, ServerStepIsStorageStep DEF ServerIInv
<1>3. IInv'
  BY <1>2, IInvInductive DEF ServerIInv
<1>4. HandlersTyped'
  BY <1>1, <1>3, HandlersStep DEF ServerIInv, IInv
<1> QED BY <1>1, <1>3, <1>4, RepliesStep, WorldIsItsTurnsStep, HandlersWorldStep,
           QuestionsAskedStep DEF ServerIInv

LEMMA ServerInvariance == ServerSpec => []ServerIInv
<1>1. ServerIInv /\ [ServerNext]_serverVars => ServerIInv'
  BY ServerInductive
<1> QED BY InitServerIInv, <1>1, PTL DEF ServerSpec

-------------------------------------------------------------------------------
(* The theorems.                                                            *)

\* However requests interleave, whatever the AI says, whichever replies are lost and
\* wherever the process dies, the server drives its storage only as the storage's
\* callers may (handleAction's calls of claimOperation, commitTurn and
\* finishWithoutTurn): what is proved of the storage holds under the server.
THEOREM ServerRunsTheStorage == ServerSpec => Spec
<1>1. ServerInit => Init
  BY DEF ServerInit
<1>2. ServerIInv /\ [ServerNext]_serverVars => [Next]_vars
  BY ServerNextIsServerStep, ServerStepIsStorageStep DEF ServerIInv
<1> QED BY <1>1, <1>2, ServerInvariance, PTL DEF ServerSpec, Spec

\* Every reply a player ever receives for a key, from the attempt that decided it or
\* from any retry, is the response stored with it (the replay branch of handleAction
\* and the replies after commitTurn and finishWithoutTurn).
THEOREM RetriesAgree == ServerSpec => []RepliesAgree
<1>1. ServerIInv => RepliesAgree
  BY DEF ServerIInv
<1> QED BY <1>1, ServerInvariance, PTL

\* No update is lost and none is applied twice, although a handler reads the world,
\* awaits the AI and only then writes (loadSession, executeAction, commitTurn).
THEOREM NoLostUpdates == ServerSpec => []WorldIsItsTurns
<1>1. ServerIInv => WorldIsItsTurns
  BY DEF ServerIInv
<1> QED BY <1>1, ServerInvariance, PTL

LEMMA AnswersFollow == ServerIInv => AnswersAreCurrent
<1> SUFFICES ASSUME ServerIInv, NEW s \in Sessions, NEW i \in 1..Len(turns[s]),
                    operation[s][turns[s][i].operationId].requestHash.clarification # NoKey
             PROVE  LET Asked(j) == operation[s][turns[s][j].operationId].requestHash.clarification IN
                    /\ operation[s][Asked(i)].status = "finished_without_turn"
                    /\ operation[s][Asked(i)].expectedRevision = turns[s][i].beforeRevision
                    /\ \A j \in 1..Len(turns[s]) : Asked(j) = Asked(i) => i = j
  BY DEF AnswersAreCurrent
<1> DEFINE Asked(j) == operation[s][turns[s][j].operationId].requestHash.clarification
<1>1. ASSUME NEW j \in 1..Len(turns[s]), Asked(j) # NoKey
      PROVE  /\ operation[s][Asked(j)].status = "finished_without_turn"
             /\ operation[s][Asked(j)].expectedRevision = j - 1
             /\ turns[s][j].beforeRevision = j - 1
  <2>1. turns[s][j].operationId \in Keys
    BY TurnsTyped DEF ServerIInv, IInv
  <2>2. /\ operation[s][turns[s][j].operationId].status = "completed"
        /\ operation[s][turns[s][j].operationId].expectedRevision = j - 1
        /\ turns[s][j].beforeRevision = j - 1
    BY DEF ServerIInv, IInv, TurnsExplainRevision
  <2>3. /\ operation[s][turns[s][j].operationId].requestHash.revision = j - 1
        /\ QuestionAsked(operation, s, operation[s][turns[s][j].operationId].requestHash)
    BY <2>1, <2>2 DEF ServerIInv, QuestionsAsked
  <2> QED BY <1>1, <2>2, <2>3 DEF QuestionAsked
<1>2. \A j \in 1..Len(turns[s]) : Asked(j) = Asked(i) => j - 1 = i - 1
  BY <1>1
<1>3. \A j \in 1..Len(turns[s]) : Asked(j) = Asked(i) => i = j
  <2>1. \A j \in 1..Len(turns[s]) : j \in Int
    OBVIOUS
  <2>2. i \in Int
    OBVIOUS
  <2> SUFFICES ASSUME NEW j \in 1..Len(turns[s]), Asked(j) = Asked(i) PROVE i = j
    OBVIOUS
  <2>3. j - 1 = i - 1 /\ j \in Int
    BY <1>2, <2>1
  <2> HIDE DEF Asked
  <2> QED BY <2>2, <2>3
<1>4. /\ operation[s][Asked(i)].status = "finished_without_turn"
      /\ operation[s][Asked(i)].expectedRevision = turns[s][i].beforeRevision
  BY <1>1
<1> QED BY <1>3, <1>4

\* A turn that answers a question answers one asked at the revision it starts from,
\* and no question is answered by two turns, although the reference is read before
\* the claim (resolveClarification) and the turn is committed after it.
THEOREM QuestionsAreAnsweredOnce == ServerSpec => []AnswersAreCurrent
<1> QED BY AnswersFollow, ServerInvariance, PTL
===============================================================================
