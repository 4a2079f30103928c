------------------------ MODULE PresentationExecutor ------------------------
(***************************************************************************)
(* PresentationExecutor of the player: it shows frames on a renderer, plays *)
(* the plan of a turn before its frame, skips, cancels and restores.  Every *)
(* call starts a new generation; a call that is overtaken still finishes    *)
(* its last request to the renderer.  The renderer is external and may      *)
(* resolve or reject at any time, whether or not its signal was aborted.    *)
(*                                                                          *)
(* A frame is a record of session, revision and variant and stands for its  *)
(* frameId; the turn of a frame of a revision above 0 is the frame itself.  *)
(***************************************************************************)
EXTENDS Naturals, FiniteSets

CONSTANTS
  ShowCalls,       \* calls of restore and present that may be under way at once
  PlaySessions,    \* ids of play sessions
  Variants,        \* frames that differ at the same revision
  LastTurn,        \* bound on the revisions
  MaxShows         \* bound on the generations

VARIABLES
  confirmed,       \* currentFrame
  consumed,        \* lastConsumedTurnId
  playback,        \* status
  shows,           \* generation: a call's number also names its controller
  controller,      \* activeController, or 0
  aborted,         \* controllers of calls under way that were aborted
  skipping,        \* skipRequested
  showCalls        \* the calls

executorVars == <<confirmed, consumed, playback, shows, controller, aborted, skipping, showCalls>>

\* No session is called as the frame that stands for none.
ASSUME PlaySessionsAssumption == "none" \notin PlaySessions

NoFrame == [revision |-> 0, session |-> "none", variant |-> "none"]
NoPlan == [kind |-> "no plan"]
Waiting == [stage |-> "idle"]
Frames == [revision : 0 .. LastTurn, session : PlaySessions, variant : Variants]
NoTurnShown == [turn |-> NoFrame]
TurnOf(f) == IF f.revision = 0 THEN NoTurnShown ELSE [turn |-> f]

\* A plan names the frame it leads to and the revision it starts from;
\* converges stands for the checks of its shape and of its end state.
Plans(f) ==
  {NoPlan} \cup [kind : {"plan"}, from : 0 .. LastTurn, to : {f.revision}, turn : {TurnOf(f)},
                 converges : BOOLEAN]

ExecutorInit ==
  /\ confirmed = NoFrame /\ consumed = NoTurnShown /\ playback = "idle"
  /\ shows = 0 /\ controller = 0 /\ aborted = {} /\ skipping = FALSE
  /\ showCalls = [c \in ShowCalls |-> Waiting]

(***************************************************************************)
(* Decisions about an incoming frame and its plan.                         *)
(***************************************************************************)
FrameUpdate(f) ==
  CASE confirmed = NoFrame -> "advance"
    [] confirmed # NoFrame /\ confirmed.session # f.session -> "conflict"
    [] confirmed.session = f.session /\ f.revision < confirmed.revision -> "stale"
    [] confirmed.session = f.session /\ f.revision = confirmed.revision ->
         IF f = confirmed THEN "duplicate" ELSE "conflict"
    [] OTHER -> "advance"

PlanDelivery(plan) ==
  IF plan.turn \in {TurnOf(confirmed), consumed} THEN "duplicate"
  ELSE IF plan.to <= confirmed.revision \/ plan.from < confirmed.revision THEN "stale"
  ELSE IF plan.from > confirmed.revision THEN "gap"
  ELSE IF plan.to # plan.from + 1 THEN "conflict" ELSE "play"

Playable(f, plan) ==
  /\ confirmed # NoFrame
  /\ f.revision <= confirmed.revision + 1
  /\ plan # NoPlan
  /\ PlanDelivery(plan) = "play"
  /\ plan.converges

(***************************************************************************)
(* The steps.  Settle is the end of a call: its answer is read off the      *)
(* state as it is then.                                                     *)
(***************************************************************************)
Over(threw) == [stage |-> "over", threw |-> threw]
Call(c, stage, f, n) ==
  showCalls' = [showCalls EXCEPT ![c] = [stage |-> stage, frame |-> f, show |-> n]]
Settle(c, threw) == showCalls' = [showCalls EXCEPT ![c] = Over(threw)]
AbortActive == aborted' = IF controller = 0 THEN aborted ELSE aborted \cup {controller}
Current(c) == showCalls[c].show = shows
ControllerAfter(c) == IF controller = showCalls[c].show THEN 0 ELSE controller

CancelActive ==
  /\ shows < MaxShows
  /\ shows' = shows + 1 /\ skipping' = FALSE
  /\ AbortActive /\ controller' = 0 /\ playback' = "idle"
  /\ UNCHANGED <<confirmed, consumed, showCalls>>

SkipActive ==
  /\ controller # 0 /\ controller \notin aborted
  /\ skipping' = TRUE /\ AbortActive
  /\ UNCHANGED <<confirmed, consumed, playback, shows, controller, showCalls>>

Restore(c, f) ==
  /\ showCalls[c] = Waiting /\ shows + 2 <= MaxShows
  /\ shows' = shows + 2 /\ skipping' = FALSE /\ AbortActive
  /\ controller' = shows + 2 /\ playback' = "recovered"
  /\ Call(c, "restoring", f, shows + 2)
  /\ UNCHANGED <<confirmed, consumed>>

\* applyTargetDirect, whose request to the renderer is under way afterwards.
Direct(c, f, outcome) ==
  /\ shows < MaxShows
  /\ shows' = shows + 1 /\ AbortActive
  /\ controller' = shows + 1 /\ playback' = outcome
  /\ Call(c, "applying", f, shows + 1)
  /\ UNCHANGED <<confirmed, consumed>>

Present(c, f, plan, still) ==
  /\ showCalls[c] = Waiting
  /\ \/ /\ FrameUpdate(f) \in {"stale", "conflict"}
        /\ Settle(c, FALSE)
        /\ UNCHANGED <<confirmed, consumed, playback, shows, controller, aborted, skipping>>
     \/ /\ FrameUpdate(f) = "duplicate"
        /\ consumed' = IF f.revision = 0 THEN consumed ELSE TurnOf(f)
        /\ Settle(c, FALSE)
        /\ UNCHANGED <<confirmed, playback, shows, controller, aborted, skipping>>
     \/ /\ FrameUpdate(f) = "advance" /\ ~Playable(f, plan)
        /\ Direct(c, f, "recovered") /\ UNCHANGED skipping
     \/ /\ FrameUpdate(f) = "advance" /\ Playable(f, plan) /\ still
        /\ Direct(c, f, "skipped") /\ UNCHANGED skipping
     \/ /\ FrameUpdate(f) = "advance" /\ Playable(f, plan) /\ ~still
        /\ shows < MaxShows
        /\ shows' = shows + 1 /\ AbortActive
        /\ controller' = shows + 1 /\ skipping' = FALSE /\ playback' = "playing"
        /\ Call(c, "playing", f, shows + 1)
        /\ UNCHANGED <<confirmed, consumed>>

\* The root of the plan is played: the call goes on to the final frame.
PlanEnds(c) ==
  /\ showCalls[c].stage = "playing"
  /\ IF Current(c) THEN Call(c, "finishing", showCalls[c].frame, showCalls[c].show)
                   ELSE Settle(c, FALSE)
  /\ UNCHANGED <<confirmed, consumed, playback, shows, controller, aborted, skipping>>

Confirms(c) == confirmed' = showCalls[c].frame /\ consumed' = TurnOf(showCalls[c].frame)
Rests(c) == playback' = "idle" /\ controller' = ControllerAfter(c)
Kept == UNCHANGED <<confirmed, consumed, playback, controller>>

\* A bug: the request to the renderer is over, the controller is kept.
AppliedKeepingController(c) ==
  /\ showCalls[c].stage \in {"restoring", "applying", "finishing"}
  /\ IF Current(c) \/ showCalls[c].stage = "finishing"
     THEN Confirms(c) /\ playback' = "idle" /\ UNCHANGED controller ELSE Kept
  /\ Settle(c, FALSE)
  /\ UNCHANGED <<shows, aborted, skipping>>

\* The renderer has applied the frame.  A frame applied directly or restored
\* is confirmed in its own generation only; the frame after a plan always.
Applied(c) ==
  /\ showCalls[c].stage \in {"restoring", "applying", "finishing"}
  /\ IF Current(c) \/ showCalls[c].stage = "finishing" THEN Confirms(c) /\ Rests(c) ELSE Kept
  /\ Settle(c, FALSE)
  /\ UNCHANGED <<shows, aborted, skipping>>

\* A rejected frame: restore answers failed, a direct application throws.
NotApplied(c) ==
  /\ showCalls[c].stage \in {"restoring", "applying"}
  /\ IF Current(c)
     THEN /\ playback' = IF showCalls[c].stage = "restoring" THEN "failed" ELSE "idle"
          /\ controller' = ControllerAfter(c) /\ UNCHANGED <<confirmed, consumed>>
     ELSE Kept
  /\ Settle(c, showCalls[c].stage = "applying")
  /\ UNCHANGED <<shows, aborted, skipping>>

\* A command, or the frame after the plan, is rejected: the frame is applied
\* directly, as skipped when the skip button aborted it.
PlanFails(c) ==
  LET n == showCalls[c].show
      skipped == n \in aborted /\ skipping
  IN /\ showCalls[c].stage \in {"playing", "finishing"}
     /\ \/ /\ ~Current(c)
           /\ Settle(c, FALSE)
           /\ UNCHANGED <<confirmed, consumed, playback, shows, controller, aborted, skipping>>
        \/ /\ Current(c) /\ shows < MaxShows
           /\ skipping' = FALSE /\ shows' = shows + 1 /\ controller' = shows + 1
           /\ playback' = IF skipped THEN "skipped" ELSE "failed"
           /\ Call(c, "applying", showCalls[c].frame, shows + 1)
           /\ UNCHANGED <<confirmed, consumed, aborted>>

ReadResult(c) ==
  /\ showCalls[c].stage = "over"
  /\ showCalls' = [showCalls EXCEPT ![c] = Waiting]
  /\ UNCHANGED <<confirmed, consumed, playback, shows, controller, aborted, skipping>>

RendererStep(c) == PlanEnds(c) \/ Applied(c) \/ NotApplied(c) \/ PlanFails(c)

ExecutorNext ==
  \/ CancelActive \/ SkipActive
  \/ \E c \in ShowCalls :
       \/ RendererStep(c) \/ ReadResult(c)
       \/ \E f \in Frames :
            Restore(c, f) \/ \E plan \in Plans(f), still \in BOOLEAN : Present(c, f, plan, still)

ExecutorSpec == ExecutorInit /\ [][ExecutorNext]_executorVars

(***************************************************************************)
(* Properties.                                                             *)
(***************************************************************************)
\* When no call is under way the executor is at rest: no controller is left
\* for a skip to abort, no status of a call that is over, and the turn it
\* would not play again is the turn of the frame it has confirmed, in
\* whatever order overtaken calls came back.
QuietMeansResting ==
  (\A c \in ShowCalls : showCalls[c].stage \in {"idle", "over"}) =>
    /\ controller = 0 /\ playback \in {"idle", "failed"}
    /\ consumed = TurnOf(confirmed)

\* ADR 0024: a slow superseded operation cannot overwrite a newer confirmed
\* frame, so within a session the confirmed revision goes back only when a
\* restore of the newest generation asks for it.
SupersededNeverOverwrites ==
  [][confirmed'.session = confirmed.session /\ confirmed'.revision < confirmed.revision
       => \E c \in ShowCalls : showCalls[c].stage = "restoring" /\ Current(c)]_executorVars
=============================================================================
