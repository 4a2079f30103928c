----------------------------- MODULE RuntimeServer -----------------------------
(***************************************************************************)
(* The action handler of apps/server over RuntimeStorage: concurrent       *)
(* requests of retrying players, each a sequence of storage calls with     *)
(* awaits between them (the AI's interpretation and narration among them), *)
(* lost replies, storage calls that throw SQLiteStorageBusyError, and      *)
(* crashes of the server process over a durable store.                     *)
(*                                                                         *)
(* The world of a session is the sequence of the keys whose actions made   *)
(* it, so that an action applied to a stale world shows.  A request hash   *)
(* stands for the body it is computed from.                                *)
(***************************************************************************)
EXTENDS RuntimeStorage

CONSTANTS
  Handlers,  \* requests the server may be working on at the same time
  Texts      \* what the AI may word an outcome as

VARIABLES
  handler,   \* the request each handler works on, and how far it has come
  replies    \* the outcomes players have received: <<session, key, response>>

serverVars == <<now, session, operation, turns, handler, replies>>

\* parseActionBody: the expected revision, and the question a text answers.
Bodies == [revision : SafeNat, clarification : Keys \cup {NoKey}]

NoTurnKinds == {"needs_clarification", "unsupported", "failed"}
PublicResponses == [kind : {"action_result"} \cup NoTurnKinds, text : Texts]

ASSUME ServerAssumption ==
  /\ Hashes = Bodies
  /\ Responses = PublicResponses
  /\ TurnIds = Sessions \X Keys
  /\ InitialWorld = <<>>
  /\ \A w \in Worlds, k \in Keys : Len(w) < MaxSafe => Append(w, k) \in Worlds

Idle == [pc |-> "idle"]

ServerInit ==
  /\ Init
  /\ handler = [i \in Handlers |-> Idle]
  /\ replies = {}

At(i, pc) == handler[i].pc = pc
GoTo(i, pc) == handler' = [handler EXCEPT ![i].pc = pc]
Stop(i) == handler' = [handler EXCEPT ![i] = Idle]

\* A reply is received, or lost on the way.
Reply(s, k, response) ==
  \/ replies' = replies \cup {<<s, k, response>>}
  \/ UNCHANGED replies

-------------------------------------------------------------------------------
(* Before the claim.                                                       *)

\* A bug: an answer to a question asked at another revision is let through.
ClarificationOkAnyRevision(s, body) ==
  LET asked == operation[s][body.clarification] IN
  body.clarification # NoKey =>
    /\ asked.status = "finished_without_turn"
    /\ asked.publicResponse.kind = "needs_clarification"

\* Any reference that is not this one is answered 409.
ClarificationOk(s, body) ==
  LET asked == operation[s][body.clarification] IN
  body.clarification # NoKey =>
    /\ asked.status = "finished_without_turn"
    /\ asked.publicResponse.kind = "needs_clarification"
    /\ asked.expectedRevision = body.revision

\* The session exists and its release was found (resolveSessionExecutionContext).
Receive(i, s, k, body) ==
  /\ At(i, "idle")
  /\ session[s].created
  /\ ClarificationOk(s, body)
  /\ handler' = [handler EXCEPT
       ![i] = [pc |-> "claim", session |-> s, key |-> k, body |-> body, token |-> 0,
               world |-> InitialWorld, response |-> NoResponse]]
  /\ UNCHANGED <<vars, replies>>

-------------------------------------------------------------------------------
(* The storage calls of handleAction.  lease is deps.leaseDurationMs.       *)

Claim(i, t, lease) ==
  LET h == handler[i]
      claimed == ClaimOutcome(h.session, h.key, h.body, h.body.revision, t, lease) IN
  /\ At(i, "claim")
  /\ ClaimOperation(h.session, h.key, h.body, h.body.revision, t, lease)
  /\ IF claimed \in Granted
     THEN handler' = [handler EXCEPT ![i].pc = "load",
                                     ![i].token = operation'[h.session][h.key].fencingToken]
     ELSE Stop(i)
  /\ IF claimed = "replay"
     THEN Reply(h.session, h.key, operation[h.session][h.key].publicResponse)
     ELSE UNCHANGED replies

\* loadSession after the claim: what the action is executed on.
Load(i) ==
  LET h == handler[i] IN
  /\ At(i, "load")
  /\ IF session[h.session].revision # h.body.revision
     THEN Stop(i)
     ELSE handler' = [handler EXCEPT ![i].pc = "execute", ![i].world = session[h.session].state]
  /\ UNCHANGED <<vars, replies>>

\* The action is executed, directly or as the AI resolved it, and narrated.
ExecuteTurn(i, text) ==
  /\ At(i, "execute")
  /\ Len(handler[i].world) < MaxSafe
  /\ handler' = [handler EXCEPT ![i].pc = "commit",
                                ![i].world = Append(@, handler[i].key),
                                ![i].response = [kind |-> "action_result", text |-> text]]
  /\ UNCHANGED <<vars, replies>>

\* The AI asks back, declines, or nothing is configured to execute the action.
ExecuteWithoutTurn(i, kind, text) ==
  /\ At(i, "execute")
  /\ handler' = [handler EXCEPT ![i].pc = "finish",
                                ![i].response = [kind |-> kind, text |-> text]]
  /\ UNCHANGED <<vars, replies>>

Commit(i, t) ==
  LET h == handler[i]
      rev == h.body.revision
      candidate == [revision |-> Len(h.world), state |-> h.world]
      turn == [turnId |-> <<h.session, h.key>>, operationId |-> h.key,
               beforeRevision |-> rev, afterRevision |-> Len(h.world)] IN
  /\ At(i, "commit")
  /\ CommitTurn(h.session, h.key, rev, h.token, candidate, turn, h.response, t)
  /\ IF CommitOutcome(h.session, h.key, rev, h.token, candidate, turn, h.response, t)
          = "committed"
     THEN Reply(h.session, h.key, h.response)
     ELSE UNCHANGED replies
  /\ Stop(i)

\* finishWithoutTurnAndSend, and the catch clause with the failed response.
FinishWith(i, response, t) ==
  LET h == handler[i] IN
  /\ FinishWithoutTurn(h.session, h.key, h.body.revision, h.token, response, t)
  /\ IF FinishOutcome(h.session, h.key, h.body.revision, h.token, response, t) = "finished"
     THEN Reply(h.session, h.key, response)
     ELSE UNCHANGED replies
  /\ Stop(i)

Finish(i, t) == At(i, "finish") /\ FinishWith(i, handler[i].response, t)

Fail(i, text, t) == At(i, "fail") /\ FinishWith(i, [kind |-> "failed", text |-> text], t)

-------------------------------------------------------------------------------
(* What goes wrong.                                                        *)

\* Execution throws, or the storage is busy: inside handleAction's try.
ThrowInTry(i) ==
  /\ handler[i].pc \in {"execute", "commit", "finish"}
  /\ GoTo(i, "fail")
  /\ UNCHANGED <<vars, replies>>

\* The storage is busy outside the try: the request is answered 503.
ThrowOutside(i) ==
  /\ handler[i].pc \in {"claim", "load", "fail"}
  /\ Stop(i)
  /\ UNCHANGED <<vars, replies>>

\* The process dies; what SQLite has committed stays.
Crash ==
  /\ \E i \in Handlers : ~At(i, "idle")
  /\ handler' = [i \in Handlers |-> Idle]
  /\ UNCHANGED <<vars, replies>>

Handle(i) ==
  \/ \E t \in Readings, lease \in Durations : Claim(i, t, lease)
  \/ Load(i)
  \/ \E text \in Texts : ExecuteTurn(i, text)
  \/ \E kind \in NoTurnKinds, text \in Texts : ExecuteWithoutTurn(i, kind, text)
  \/ \E t \in Readings : Commit(i, t) \/ Finish(i, t)
  \/ \E t \in Readings, text \in Texts : Fail(i, text, t)
  \/ ThrowInTry(i)
  \/ ThrowOutside(i)

ServerNext ==
  \/ Tick /\ UNCHANGED <<handler, replies>>
  \/ \E s \in Sessions : CreateGuestSession(s) /\ UNCHANGED <<handler, replies>>
  \/ \E i \in Handlers, s \in Sessions, k \in Keys, body \in Bodies : Receive(i, s, k, body)
  \/ \E i \in Handlers : Handle(i)
  \/ Crash

ServerSpec == ServerInit /\ [][ServerNext]_serverVars

-------------------------------------------------------------------------------
(* What players can rely on.                                               *)

\* Every outcome a player receives for a key, from the first attempt or from any
\* retry, is the one stored for it: no two replies to one key ever differ, though
\* every attempt may have been worded, or decided, differently by the AI.
RepliesAgree ==
  \A r \in replies :
    /\ operation[r[1]][r[2]].status \in Outcomes
    /\ operation[r[1]][r[2]].publicResponse = r[3]

\* No lost update and no double effect: the world is the actions of its turns, in
\* order, each applied to the world the one before it left, although handlers read
\* the world before they await the AI and write it afterwards.
WorldIsItsTurns ==
  \A s \in Sessions :
    session[s].state = [i \in 1..Len(turns[s]) |-> turns[s][i].operationId]

\* A turn that answers a question answers one that was asked at the revision the
\* turn starts from, and no question is answered by two turns.
AnswersAreCurrent ==
  \A s \in Sessions : \A i \in 1..Len(turns[s]) :
    LET Asked(j) == operation[s][turns[s][j].operationId].requestHash.clarification IN
    Asked(i) # NoKey =>
      /\ operation[s][Asked(i)].status = "finished_without_turn"
      /\ operation[s][Asked(i)].expectedRevision = turns[s][i].beforeRevision
      /\ \A j \in 1..Len(turns[s]) : Asked(j) = Asked(i) => i = j
===============================================================================
