---------------------------- MODULE ModelAuthor -----------------------------
(***************************************************************************)
(* The author backend that works over a model provider the operator        *)
(* configures in the studio.  A turn is one request to the provider, ended *)
(* by its answer, by the deadline (a timer of the backend and one of the   *)
(* provider), by its caller or by its session; replacing or disconnecting  *)
(* the provider ends every session.  The studio shows a status it derives  *)
(* from the requests it sees pass.                                         *)
(*                                                                         *)
(* The endpoint is external: it answers, fails, or never answers, and a    *)
(* fetch whose signal is aborted is rejected.                              *)
(***************************************************************************)
EXTENDS Naturals, FiniteSets

CONSTANTS
  ModelSessions,     \* names of sessions, each used once
  ModelTurns,        \* turns that may be under way at once
  MaxActiveSessions, \* MAX_ACTIVE_SESSIONS
  MaxConfigurations, \* bound on the generations of the provider
  ProviderErrors,    \* errors of the provider: auth_required, rate_limited, ...
  LastInstant        \* bound on the clock

ASSUME ModelAssumption ==
  /\ MaxActiveSessions \in Nat /\ LastInstant \in Nat
  /\ IsFiniteSet(ModelTurns)

VARIABLES
  instant,           \* the clock
  provider,          \* generation of the provider and whether there is one
  modelSessions,     \* sessions of the backend
  modelTurns,        \* turns under way, and the answer of one that is over
  providerStatus     \* status, active requests and last error of the studio

modelVars == <<instant, provider, modelSessions, modelTurns, providerStatus>>

Instants == 0 .. LastInstant
NoTurn == [stage |-> "idle"]
Over(answer) == [stage |-> "over", answer |-> answer]
Unused == [state |-> "unused", aborted |-> FALSE, expires |-> 0, busy |-> FALSE]

ModelInit ==
  /\ instant = 0
  /\ provider = [generation |-> 0, configured |-> FALSE]
  /\ modelSessions = [s \in ModelSessions |-> Unused]
  /\ modelTurns = [t \in ModelTurns |-> NoTurn]
  /\ providerStatus = [state |-> "not_configured", active |-> 0, error |-> "none"]

OpenOnes == {s \in ModelSessions : modelSessions[s].state = "open"}
Ended(session) == [session EXCEPT !.state = "gone", !.aborted = TRUE]
AllEnded == [s \in ModelSessions |-> IF s \in OpenOnes THEN Ended(modelSessions[s])
                                                       ELSE modelSessions[s]]

(***************************************************************************)
(* Settings of the operator.                                               *)
(***************************************************************************)

ConfigureProvider ==
  /\ provider.generation < MaxConfigurations
  /\ provider' = [generation |-> provider.generation + 1, configured |-> TRUE]
  /\ modelSessions' = AllEnded
  /\ providerStatus' = [state |-> "settings_saved", active |-> 0, error |-> "none"]
  /\ UNCHANGED <<instant, modelTurns>>

Disconnect ==
  /\ provider.generation < MaxConfigurations
  /\ provider' = [generation |-> provider.generation + 1, configured |-> FALSE]
  /\ modelSessions' = AllEnded
  /\ providerStatus' = [state |-> "not_configured", active |-> 0, error |-> "none"]
  /\ UNCHANGED <<instant, modelTurns>>

(***************************************************************************)
(* Sessions.                                                               *)
(***************************************************************************)
OpenModelSession(s) ==
  LET expired == {x \in OpenOnes : modelSessions[x].expires <= instant}
      purged == [x \in ModelSessions |-> IF x \in expired THEN Ended(modelSessions[x])
                                                           ELSE modelSessions[x]]
  IN /\ provider.configured
     /\ modelSessions[s].state = "unused"
     /\ \E deadline \in Instants :
          /\ deadline > instant
          /\ modelSessions' = IF Cardinality(OpenOnes \ expired) >= MaxActiveSessions
                              THEN purged
                              ELSE [purged EXCEPT ![s].state = "open", ![s].expires = deadline]
     /\ UNCHANGED <<instant, provider, modelTurns, providerStatus>>

CloseModelSession(s) ==
  /\ s \in OpenOnes
  /\ modelSessions' = [modelSessions EXCEPT ![s] = Ended(@)]
  /\ UNCHANGED <<instant, provider, modelTurns, providerStatus>>

(***************************************************************************)
(* Turns.                                                                  *)
(***************************************************************************)
TurnDeadline(s, requested) ==
  IF requested < modelSessions[s].expires THEN requested ELSE modelSessions[s].expires

StartTurn(t, s) ==
  /\ modelTurns[t] = NoTurn
  /\ s \in OpenOnes /\ provider.configured /\ ~modelSessions[s].busy
  /\ \E requested \in Instants :
       LET deadline == TurnDeadline(s, requested) IN
       /\ deadline > instant
       /\ modelTurns' = [modelTurns EXCEPT ![t] =
            [stage |-> "calling", session |-> s, generation |-> provider.generation,
             deadline |-> deadline, cancelled |-> FALSE, expired |-> FALSE,
             providerExpired |-> FALSE, result |-> "none"]]
  /\ modelSessions' = [modelSessions EXCEPT ![s].busy = TRUE]
  /\ providerStatus' = [state |-> "requesting", active |-> providerStatus.active + 1,
                        error |-> "none"]
  /\ UNCHANGED <<instant, provider>>

Calling(t) == modelTurns[t].stage = "calling"
UnderWay(t) == modelTurns[t].stage \in {"calling", "settled", "observed"}
Changed(t, field) == /\ modelTurns' = [modelTurns EXCEPT ![t] = field]
                     /\ UNCHANGED <<instant, provider, modelSessions, providerStatus>>

CancelTurn(t) ==
  /\ UnderWay(t) /\ ~modelTurns[t].cancelled
  /\ Changed(t, [modelTurns[t] EXCEPT !.cancelled = TRUE])

DeadlineTimer(t) ==
  /\ UnderWay(t) /\ ~modelTurns[t].expired
  /\ modelTurns[t].deadline <= instant
  /\ Changed(t, [modelTurns[t] EXCEPT !.expired = TRUE])

ProviderTimer(t) ==
  /\ Calling(t) /\ ~modelTurns[t].providerExpired
  /\ modelTurns[t].deadline <= instant
  /\ Changed(t, [modelTurns[t] EXCEPT !.providerExpired = TRUE])

Revoked(t) == modelSessions[modelTurns[t].session].aborted
\* A bug: the deadline does not reach the signal of the request.
SignalWithoutDeadline(t) == modelTurns[t].cancelled \/ Revoked(t)

SignalAborted(t) ==
  \/ modelTurns[t].cancelled \/ modelTurns[t].expired
  \/ modelTurns[t].providerExpired \/ Revoked(t)

Answers == {"ok"} \cup ProviderErrors

ProviderAnswers(t) ==
  /\ Calling(t)
  /\ \E r \in Answers : Changed(t, [modelTurns[t] EXCEPT !.stage = "settled", !.result = r])

FetchAborted(t) ==
  /\ Calling(t) /\ SignalAborted(t)
  /\ Changed(t, [modelTurns[t] EXCEPT !.stage = "settled",
                   !.result = IF modelTurns[t].providerExpired THEN "timeout" ELSE "aborted"])

\* A bug: every result counts, of whichever provider.
ObserveEveryResult(t) ==
  LET left == IF providerStatus.active = 0 THEN 0 ELSE providerStatus.active - 1
  IN /\ modelTurns[t].stage = "settled"
     /\ modelTurns' = [modelTurns EXCEPT ![t].stage = "observed"]
     /\ providerStatus' =
          [state |-> IF left > 0 THEN providerStatus.state
                     ELSE IF modelTurns[t].result = "ok" THEN "connected" ELSE "error",
           active |-> left,
           error |-> IF modelTurns[t].result = "ok" THEN "none" ELSE modelTurns[t].result]
     /\ UNCHANGED <<instant, provider, modelSessions>>

\* The studio's observer counts a result only for the provider it stands for.
ObserveResult(t) ==
  LET turn == modelTurns[t]
      left == IF providerStatus.active = 0 THEN 0 ELSE providerStatus.active - 1
  IN /\ turn.stage = "settled"
     /\ modelTurns' = [modelTurns EXCEPT ![t].stage = "observed"]
     /\ providerStatus' =
          IF turn.generation # provider.generation THEN providerStatus
          ELSE [state |-> IF left > 0 THEN providerStatus.state
                          ELSE IF turn.result = "ok" THEN "connected" ELSE "error",
                active |-> left,
                error |-> IF turn.result = "ok" THEN "none" ELSE turn.result]
     /\ UNCHANGED <<instant, provider, modelSessions>>

TurnAnswer(t) ==
  IF Revoked(t) THEN "aborted"
  ELSE IF modelTurns[t].expired THEN "timeout"
  ELSE IF modelTurns[t].cancelled THEN "aborted"
  ELSE modelTurns[t].result

ReturnTurn(t) ==
  /\ modelTurns[t].stage = "observed"
  /\ modelTurns' = [modelTurns EXCEPT ![t] = Over(TurnAnswer(t))]
  /\ modelSessions' = [modelSessions EXCEPT ![modelTurns[t].session].busy = FALSE]
  /\ UNCHANGED <<instant, provider, providerStatus>>

InstantPasses ==
  /\ instant < LastInstant
  /\ instant' = instant + 1
  /\ UNCHANGED <<provider, modelSessions, modelTurns, providerStatus>>

\* The caller takes the answer and may ask again.
TakeAnswer(t) ==
  /\ modelTurns[t].stage = "over"
  /\ Changed(t, NoTurn)

ModelNext ==
  \/ ConfigureProvider \/ Disconnect \/ InstantPasses
  \/ \E s \in ModelSessions : OpenModelSession(s) \/ CloseModelSession(s)
  \/ \E t \in ModelTurns :
       \/ \E s \in ModelSessions : StartTurn(t, s)
       \/ CancelTurn(t) \/ DeadlineTimer(t) \/ ProviderTimer(t)
       \/ ProviderAnswers(t) \/ FetchAborted(t) \/ ObserveResult(t) \/ ReturnTurn(t)
       \/ TakeAnswer(t)

\* Time passes, timers fire, an aborted fetch is rejected and continuations
\* run: nothing is assumed of the endpoint, which may never answer.
ModelFairness ==
  /\ WF_modelVars(InstantPasses)
  /\ \A t \in ModelTurns :
       /\ WF_modelVars(DeadlineTimer(t)) /\ WF_modelVars(FetchAborted(t))
       /\ WF_modelVars(ObserveResult(t)) /\ WF_modelVars(ReturnTurn(t))

ModelSpec == ModelInit /\ [][ModelNext]_modelVars /\ ModelFairness

(***************************************************************************)
(* Properties.                                                             *)
(***************************************************************************)
\* The status the operator reads says "requesting" exactly while a request to the
\* provider configured now is unanswered, and counts those requests.
StatusIsOfThisProvider ==
  LET pending == {t \in ModelTurns : /\ modelTurns[t].stage \in {"calling", "settled"}
                                     /\ modelTurns[t].generation = provider.generation}
  IN /\ providerStatus.active = Cardinality(pending)
     /\ (providerStatus.state = "requesting") = (pending # {})

\* Only the provider configured now speaks: the status is about it whatever requests of
\* former providers settle, and no turn hands out an output of a provider that has been
\* replaced or disconnected since, even when that provider had already answered.
OnlyThisProviderSpeaks ==
  [][/\ StatusIsOfThisProvider'
     /\ \A t \in ModelTurns :
          modelTurns[t].stage = "observed" /\ modelTurns'[t] = Over("ok")
            => modelTurns[t].generation = provider.generation]_modelVars

\* A session that is busy becomes free again: an endpoint that never answers
\* holds a session no longer than the turn's deadline.
BusySessionsBecomeFree ==
  \A s \in ModelSessions : modelSessions[s].busy ~> ~modelSessions[s].busy
=============================================================================
