---------------------------- MODULE ClientsProofs ----------------------------
(***************************************************************************)
(* Proofs about what runs in front of the services: the executor of the    *)
(* player, the page around it, the launcher of players, the Studio, and    *)
(* the convergence check of the plans that the player plays.               *)
(***************************************************************************)
EXTENDS PlayerPage, PlayerLaunch, Studio, PresentationPlans, SequenceTheorems, FiniteSetTheorems, TLAPS

-----------------------------------------------------------------------------
(* The executor.  A controller is left only by the call of the newest      *)
(* generation, and a status other than idle or failed only beside a         *)
(* controller.                                                              *)

Active == {"playing", "finishing", "applying", "restoring"}
Stages == {"idle", "over"} \cup Active

NewestHoldsController ==
  /\ shows \in Nat
  /\ controller \in {0, shows}
  /\ controller # 0 =>
       \E c \in ShowCalls : showCalls[c].stage \in Active /\ showCalls[c].show = shows

StatusHasController == controller = 0 => playback \in {"idle", "failed"}

ExecutorIInv ==
  /\ DOMAIN showCalls = ShowCalls
  /\ \A c \in ShowCalls : showCalls[c].stage \in Stages
  /\ NewestHoldsController
  /\ StatusHasController
  /\ consumed = TurnOf(confirmed)

LEMMA ExecutorInitially == ExecutorInit => ExecutorIInv
BY DEF ExecutorInit, ExecutorIInv, NewestHoldsController, StatusHasController, Stages, Active,
       TurnOf, NoTurnShown, NoFrame, Waiting
\* A call that starts a generation of its own holds its controller.
LEMMA CallTakesOver ==
  ASSUME ExecutorIInv, NEW c \in ShowCalls, NEW stg \in Active, NEW f, NEW n \in Nat \ {0},
         shows' = n, controller' = n, Call(c, stg, f, n), consumed' = TurnOf(confirmed)'
  PROVE  ExecutorIInv'
<1>1. /\ DOMAIN showCalls' = ShowCalls
      /\ showCalls'[c].stage = stg /\ showCalls'[c].show = n
      /\ \A d \in ShowCalls : d # c => showCalls'[d] = showCalls[d]
  BY DEF ExecutorIInv, Call
<1>2. \A d \in ShowCalls : showCalls'[d].stage \in Stages
  BY <1>1 DEF ExecutorIInv, Stages
<1> QED BY <1>1, <1>2 DEF ExecutorIInv, NewestHoldsController, StatusHasController

\* A call that ends leaves the controller of another.
LEMMA CallEnds ==
  ASSUME ExecutorIInv, NEW c \in ShowCalls, NEW threw, Settle(c, threw), UNCHANGED shows,
         controller' \in {controller, ControllerAfter(c)},
         showCalls[c].stage \in Active /\ Current(c) => controller' = ControllerAfter(c)
  PROVE  /\ DOMAIN showCalls' = ShowCalls
         /\ \A d \in ShowCalls : showCalls'[d].stage \in Stages
         /\ NewestHoldsController'
<1>1. /\ DOMAIN showCalls' = ShowCalls
      /\ showCalls'[c].stage = "over"
      /\ \A d \in ShowCalls : d # c => showCalls'[d] = showCalls[d]
  BY DEF ExecutorIInv, Settle, Over
<1>2. \A d \in ShowCalls : showCalls'[d].stage \in Stages
  BY <1>1 DEF ExecutorIInv, Stages
<1>3. controller' \in {0, controller}
  BY DEF ControllerAfter
<1>4. ASSUME controller' # 0
      PROVE  \E d \in ShowCalls : showCalls'[d].stage \in Active /\ showCalls'[d].show = shows
  <2>1. controller = shows /\ controller # 0
    BY <1>3, <1>4 DEF ExecutorIInv, NewestHoldsController
  <2>2. PICK d \in ShowCalls : showCalls[d].stage \in Active /\ showCalls[d].show = shows
    BY <2>1 DEF ExecutorIInv, NewestHoldsController
  <2>3. d # c
    BY <1>4, <2>1, <2>2 DEF ControllerAfter, Current
  <2> QED BY <1>1, <2>2, <2>3
<1>5. NewestHoldsController'
  BY <1>3, <1>4 DEF ExecutorIInv, NewestHoldsController
<1> QED BY <1>1, <1>2, <1>5
LEMMA ShowsAreCounted ==
  ASSUME ExecutorIInv
  PROVE  shows + 1 \in Nat \ {0} /\ shows + 2 \in Nat \ {0}
BY DEF ExecutorIInv, NewestHoldsController

LEMMA ExecutorCancels == ExecutorIInv /\ CancelActive => ExecutorIInv'
BY ShowsAreCounted DEF ExecutorIInv, CancelActive, NewestHoldsController, StatusHasController

LEMMA ExecutorSkips == ExecutorIInv /\ SkipActive => ExecutorIInv'
BY DEF ExecutorIInv, SkipActive, NewestHoldsController, StatusHasController

LEMMA ExecutorRestores ==
  ASSUME ExecutorIInv, NEW c \in ShowCalls, NEW f, Restore(c, f)
  PROVE  ExecutorIInv'
<1>1. "restoring" \in Active
  BY DEF Active
<1>2. consumed' = TurnOf(confirmed)'
  BY DEF ExecutorIInv, Restore, TurnOf
<1> QED BY <1>1, <1>2, ShowsAreCounted, CallTakesOver DEF Restore

LEMMA ExecutorApplies ==
  ASSUME ExecutorIInv, NEW c \in ShowCalls, NEW f, NEW outcome, Direct(c, f, outcome)
  PROVE  ExecutorIInv'
<1>1. "applying" \in Active
  BY DEF Active
<1>2. consumed' = TurnOf(confirmed)'
  BY DEF ExecutorIInv, Direct, TurnOf
<1> QED BY <1>1, <1>2, ShowsAreCounted, CallTakesOver DEF Direct

LEMMA ExecutorPresents ==
  ASSUME ExecutorIInv, NEW c \in ShowCalls, NEW f, NEW plan, NEW still, Present(c, f, plan, still)
  PROVE  ExecutorIInv'
<1>1. showCalls[c].stage = "idle"
  BY DEF Present, Waiting
<1>2. CASE /\ FrameUpdate(f) \in {"stale", "conflict"} /\ Settle(c, FALSE)
           /\ UNCHANGED <<confirmed, consumed, playback, shows, controller, aborted, skipping>>
  <2>1. /\ DOMAIN showCalls' = ShowCalls
        /\ \A d \in ShowCalls : showCalls'[d].stage \in Stages
        /\ NewestHoldsController'
    BY <1>1, <1>2, CallEnds DEF Active
  <2> QED BY <1>2, <2>1 DEF ExecutorIInv, StatusHasController, TurnOf
<1>3. CASE /\ FrameUpdate(f) = "duplicate" /\ Settle(c, FALSE)
           /\ consumed' = IF f.revision = 0 THEN consumed ELSE TurnOf(f)
           /\ UNCHANGED <<confirmed, playback, shows, controller, aborted, skipping>>
  <2>1. /\ DOMAIN showCalls' = ShowCalls
        /\ \A d \in ShowCalls : showCalls'[d].stage \in Stages
        /\ NewestHoldsController'
    BY <1>1, <1>3, CallEnds DEF Active
  <2>2. f = confirmed
    BY <1>3 DEF FrameUpdate
  <2> QED BY <1>3, <2>1, <2>2 DEF ExecutorIInv, StatusHasController, TurnOf
<1>4. CASE \E outcome : Direct(c, f, outcome)
  BY <1>4, ExecutorApplies
<1>5. CASE /\ shows' = shows + 1 /\ controller' = shows + 1 /\ Call(c, "playing", f, shows + 1)
           /\ UNCHANGED <<confirmed, consumed>>
  <2>1. "playing" \in Active
    BY DEF Active
  <2>2. consumed' = TurnOf(confirmed)'
    BY <1>5 DEF ExecutorIInv, TurnOf
  <2> QED BY <1>5, <2>1, <2>2, ShowsAreCounted, CallTakesOver
<1> QED BY <1>2, <1>3, <1>4, <1>5 DEF Present

LEMMA ExecutorPlanEnds ==
  ASSUME ExecutorIInv, NEW c \in ShowCalls, PlanEnds(c)
  PROVE  ExecutorIInv'
<1>1. CASE Current(c)
  <2>1. /\ DOMAIN showCalls' = ShowCalls
        /\ showCalls'[c].stage = "finishing" /\ showCalls'[c].show = showCalls[c].show
        /\ \A d \in ShowCalls : d # c => showCalls'[d] = showCalls[d]
    BY <1>1 DEF ExecutorIInv, PlanEnds, Call
  <2>2. \A d \in ShowCalls : showCalls'[d].stage \in Stages
    BY <2>1 DEF ExecutorIInv, Stages, Active
  <2>3. NewestHoldsController'
    BY <2>1 DEF ExecutorIInv, PlanEnds, NewestHoldsController, Active
  <2> QED BY <2>1, <2>2, <2>3 DEF ExecutorIInv, PlanEnds, StatusHasController, TurnOf
<1>2. CASE ~Current(c)
  <2>1. Settle(c, FALSE)
    BY <1>2 DEF PlanEnds
  <2>2. /\ DOMAIN showCalls' = ShowCalls
        /\ \A d \in ShowCalls : showCalls'[d].stage \in Stages
        /\ NewestHoldsController'
    BY <1>2, <2>1, CallEnds DEF PlanEnds
  <2> QED BY <2>2 DEF ExecutorIInv, PlanEnds, StatusHasController, TurnOf
<1> QED BY <1>1, <1>2

LEMMA ExecutorApplied ==
  ASSUME ExecutorIInv, NEW c \in ShowCalls, Applied(c)
  PROVE  ExecutorIInv'
<1>1. Settle(c, FALSE) /\ UNCHANGED shows
  BY DEF Applied
<1>2. CASE Current(c) \/ showCalls[c].stage = "finishing"
  <2>1. controller' = ControllerAfter(c) /\ playback' = "idle" /\ consumed' = TurnOf(confirmed)'
    BY <1>2 DEF Applied, Confirms, Rests, TurnOf
  <2>2. /\ DOMAIN showCalls' = ShowCalls
        /\ \A d \in ShowCalls : showCalls'[d].stage \in Stages
        /\ NewestHoldsController'
    BY <1>1, <2>1, CallEnds
  <2> QED BY <2>1, <2>2 DEF ExecutorIInv, StatusHasController
<1>3. CASE ~Current(c) /\ Kept
  <2>1. /\ DOMAIN showCalls' = ShowCalls
        /\ \A d \in ShowCalls : showCalls'[d].stage \in Stages
        /\ NewestHoldsController'
    BY <1>1, <1>3, CallEnds DEF Kept
  <2> QED BY <1>3, <2>1 DEF ExecutorIInv, StatusHasController, Kept, TurnOf
<1> QED BY <1>2, <1>3 DEF Applied

LEMMA ExecutorNotApplied ==
  ASSUME ExecutorIInv, NEW c \in ShowCalls, NotApplied(c)
  PROVE  ExecutorIInv'
<1>1. Settle(c, showCalls[c].stage = "applying") /\ UNCHANGED shows
  BY DEF NotApplied
<1>2. CASE Current(c)
  <2>1. /\ controller' = ControllerAfter(c) /\ playback' \in {"idle", "failed"}
        /\ consumed' = TurnOf(confirmed)'
    BY <1>2 DEF ExecutorIInv, NotApplied, TurnOf
  <2>2. /\ DOMAIN showCalls' = ShowCalls
        /\ \A d \in ShowCalls : showCalls'[d].stage \in Stages
        /\ NewestHoldsController'
    BY <1>1, <2>1, CallEnds
  <2> QED BY <2>1, <2>2 DEF ExecutorIInv, StatusHasController
<1>3. CASE ~Current(c) /\ Kept
  <2>1. /\ DOMAIN showCalls' = ShowCalls
        /\ \A d \in ShowCalls : showCalls'[d].stage \in Stages
        /\ NewestHoldsController'
    BY <1>1, <1>3, CallEnds DEF Kept
  <2> QED BY <1>3, <2>1 DEF ExecutorIInv, StatusHasController, Kept, TurnOf
<1> QED BY <1>2, <1>3 DEF NotApplied

LEMMA ExecutorPlanFails ==
  ASSUME ExecutorIInv, NEW c \in ShowCalls, PlanFails(c)
  PROVE  ExecutorIInv'
<1>1. CASE ~Current(c) /\ Settle(c, FALSE)
           /\ UNCHANGED <<confirmed, consumed, playback, shows, controller, aborted, skipping>>
  <2>1. /\ DOMAIN showCalls' = ShowCalls
        /\ \A d \in ShowCalls : showCalls'[d].stage \in Stages
        /\ NewestHoldsController'
    BY <1>1, CallEnds
  <2> QED BY <1>1, <2>1 DEF ExecutorIInv, StatusHasController, TurnOf
<1>2. CASE /\ shows' = shows + 1 /\ controller' = shows + 1
           /\ Call(c, "applying", showCalls[c].frame, shows + 1)
           /\ UNCHANGED <<confirmed, consumed>>
  <2>1. "applying" \in Active
    BY DEF Active
  <2>2. consumed' = TurnOf(confirmed)'
    BY <1>2 DEF ExecutorIInv, TurnOf
  <2> QED BY <1>2, <2>1, <2>2, ShowsAreCounted, CallTakesOver
<1> QED BY <1>1, <1>2 DEF PlanFails

LEMMA ExecutorIsRead ==
  ASSUME ExecutorIInv, NEW c \in ShowCalls, ReadResult(c)
  PROVE  ExecutorIInv'
<1>1. /\ DOMAIN showCalls' = ShowCalls
      /\ showCalls'[c].stage = "idle"
      /\ \A d \in ShowCalls : d # c => showCalls'[d] = showCalls[d]
  BY DEF ExecutorIInv, ReadResult, Waiting
<1>2. \A d \in ShowCalls : showCalls'[d].stage \in Stages
  BY <1>1 DEF ExecutorIInv, Stages
<1>3. NewestHoldsController'
  BY <1>1 DEF ExecutorIInv, ReadResult, NewestHoldsController, Active
<1> QED BY <1>1, <1>2, <1>3 DEF ExecutorIInv, ReadResult, StatusHasController, TurnOf

LEMMA ExecutorStep == ExecutorIInv /\ [ExecutorNext]_executorVars => ExecutorIInv'
<1> SUFFICES ASSUME ExecutorIInv, [ExecutorNext]_executorVars PROVE ExecutorIInv'
  OBVIOUS
<1>1. CASE UNCHANGED executorVars
  BY <1>1 DEF executorVars, ExecutorIInv, NewestHoldsController, StatusHasController, TurnOf
<1>2. CASE CancelActive \/ SkipActive
  BY <1>2, ExecutorCancels, ExecutorSkips
<1>3. ASSUME NEW c \in ShowCalls, RendererStep(c) PROVE ExecutorIInv'
  BY <1>3, ExecutorPlanEnds, ExecutorApplied, ExecutorNotApplied, ExecutorPlanFails
     DEF RendererStep
<1>4. ASSUME NEW c \in ShowCalls, NEW f \in Frames, Restore(c, f) PROVE ExecutorIInv'
  BY <1>4, ExecutorRestores
<1>5. ASSUME NEW c \in ShowCalls, NEW f \in Frames, NEW plan, NEW still, Present(c, f, plan, still)
      PROVE  ExecutorIInv'
  BY <1>5, ExecutorPresents
<1> QED BY <1>1, <1>2, <1>3, <1>4, <1>5, ExecutorIsRead DEF ExecutorNext

LEMMA RestWhenQuiet == ExecutorIInv => QuietMeansResting
<1> SUFFICES ASSUME ExecutorIInv, \A c \in ShowCalls : showCalls[c].stage \in {"idle", "over"}
             PROVE  /\ controller = 0 /\ playback \in {"idle", "failed"}
                    /\ consumed = TurnOf(confirmed)
  BY DEF QuietMeansResting
<1>1. controller = 0
  BY DEF ExecutorIInv, NewestHoldsController, Active
<1> QED BY <1>1 DEF ExecutorIInv, StatusHasController

\* However calls of the executor overtake one another, and whenever the renderer
\* resolves or rejects what it was asked (restore, present, skip and cancel of
\* PresentationExecutor), no controller and no status of a call outlives it, and the
\* turn consumed is that of the confirmed frame.
THEOREM TheExecutorComesToRest == ExecutorSpec => []QuietMeansResting
BY ExecutorInitially, ExecutorStep, RestWhenQuiet, PTL DEF ExecutorSpec
-----------------------------------------------------------------------------
(* The page.  While it waits for its executor, the one call it made is the  *)
(* newest and is about the frame the page was given; at any other time      *)
(* there is no call, and the executor has confirmed that frame.             *)

PageSessions == [id : PlaySessions, revision : Nat, last : Nat]
PageFrames == {NoFrame} \cup {FrameOf(s, r) : s \in PlaySessions, r \in Nat}
PageRequests ==
  {NoRequest} \cup [for : {"metadata", "session", "create", "restore", "reset"}]
  \cup [for : {"operation"}, session : PageSessions]
  \cup [for : {"action"}, key : Nat, answer : {"none", "committed", "refused"}]
  \cup [for : {"show"}, frame : PageFrames]
PagePhases == {"none", "loading", "error", "ready", "acting", "presenting", "resetting"}

PageTyped ==
  /\ page \in [phase : PagePhases, session : PageSessions \cup {NoSession},
               frame : PageFrames, waits : PageRequests]
  /\ remembered \in PageSessions \cup {NoSession}
  /\ played \in [PlaySessions -> [born : BOOLEAN, revision : Nat, framed : SUBSET Nat]]
  /\ posts \in SUBSET [session : PlaySessions, expected : Nat, key : Nat]
  /\ submits \in Nat
  /\ given \in PageFrames
  /\ DOMAIN showCalls = ShowCalls

ForExecutor == {"restore", "show"}
BeforeSession == {"metadata", "session", "operation", "create"}

RequestsFit ==
  /\ page.waits.for = "session" => remembered # NoSession
  /\ page.waits.for = "action" => page.session # NoSession
  /\ page.waits.for \in BeforeSession => given = NoFrame
  /\ page.waits.for = "show" => page.waits.frame = given

CallOfPage ==
  IF page.waits.for \in ForExecutor
  THEN \/ /\ showCalls[PageCall].stage \in Active
          /\ showCalls[PageCall].show = shows /\ showCalls[PageCall].frame = given
       \/ showCalls[PageCall].stage = "over" /\ confirmed = given
  ELSE showCalls[PageCall] = Waiting /\ confirmed = given

GivenIsOfSession ==
  given # NoFrame => given.session = page.session.id /\ given.revision <= page.session.revision

PageShowsGiven ==
  /\ page.waits.for # "show" => page.frame = given
  /\ page.phase = "ready" /\ page.waits = NoRequest => stage = [shows |-> given, whole |-> TRUE]

PageIInv == PageTyped /\ RequestsFit /\ CallOfPage /\ GivenIsOfSession /\ PageShowsGiven

LEMMA PageInitially == PlayerInit => PageIInv
<1> SUFFICES ASSUME PlayerInit PROVE PageIInv
  OBVIOUS
<1>1. PageTyped
  BY DEF PlayerInit, ExecutorInit, PageTyped, PageFrames, PageRequests, PagePhases, NoRequest, Unborn
<1>2. page.waits.for = "nothing" /\ page.phase = "none" /\ page.waits = NoRequest
  BY DEF PlayerInit, NoRequest
<1> QED BY <1>1, <1>2, PageCallAssumption
        DEF PlayerInit, ExecutorInit, PageIInv, RequestsFit, CallOfPage, GivenIsOfSession,
            PageShowsGiven, ForExecutor, BeforeSession

\* What a handler changes of the page, field by field.
LEMMA PageTurns ==
  ASSUME PageTyped, NEW ph, NEW w, Turns(ph, w)
  PROVE  page' = [phase |-> ph, session |-> page.session, frame |-> page.frame, waits |-> w]
BY DEF PageTyped, Turns

LEMMA PageIsAsked ==
  ASSUME PageTyped, NEW w, PageAsks(w)
  PROVE  page' = [phase |-> page.phase, session |-> page.session, frame |-> page.frame,
                  waits |-> w]
BY DEF PageTyped, PageAsks

\* The sessions that are none, and the frames that are one.
LEMMA NoSessionIsNone == NoSession \notin PageSessions
BY PlaySessionsAssumption DEF NoSession, PageSessions

LEMMA FramesAreFrames ==
  ASSUME NEW s \in PlaySessions, NEW r \in Nat
  PROVE  /\ FrameOf(s, r) \in PageFrames /\ FrameOf(s, r) # NoFrame
         /\ FrameOf(s, r).session = s /\ FrameOf(s, r).revision = r
<1>1. FrameOf(s, r) \in PageFrames
  BY DEF PageFrames
<1>2. FrameOf(s, r).session = s /\ FrameOf(s, r).revision = r
  BY DEF FrameOf
<1>3. NoFrame.session = "none"
  BY DEF NoFrame
<1> QED BY <1>1, <1>2, <1>3, PlaySessionsAssumption

LEMMA GivenFrames ==
  ASSUME PageTyped, given # NoFrame
  PROVE  given.session \in PlaySessions /\ given.revision \in Nat
<1>1. PICK s \in PlaySessions, r \in Nat : given = FrameOf(s, r)
  BY DEF PageTyped, PageFrames
<1> QED BY <1>1, FramesAreFrames

LEMMA PageLoads == PageIInv /\ LoadPage => PageIInv'
<1> SUFFICES ASSUME PageIInv, LoadPage PROVE PageIInv'
  OBVIOUS
<1>1. page' = [phase |-> "loading", session |-> NoSession, frame |-> NoFrame,
               waits |-> [for |-> "metadata"]]
  BY DEF LoadPage
<1>2. PageTyped'
  BY <1>1 DEF PageIInv, PageTyped, LoadPage, PageRequests, PagePhases, PageFrames
<1>3. showCalls'[PageCall] = Waiting /\ confirmed' = NoFrame /\ given' = NoFrame
  BY PageCallAssumption DEF PageIInv, PageTyped, LoadPage
<1> QED BY <1>1, <1>2, <1>3 DEF PageIInv, RequestsFit, CallOfPage, GivenIsOfSession, PageShowsGiven,
                                BeforeSession, ForExecutor

LEMMA PageStartFails == PageIInv /\ StartFails => PageIInv'
<1> SUFFICES ASSUME PageIInv, StartFails PROVE PageIInv'
  OBVIOUS
<1>1. page' = [phase |-> "error", session |-> page.session, frame |-> page.frame,
               waits |-> NoRequest]
  BY PageTurns DEF PageIInv, StartFails
<1>2. PageTyped'
  BY <1>1 DEF PageIInv, PageTyped, StartFails, PageRequests, PagePhases, ExecutorRests,
              executorVars
<1>3. page.waits.for \in {"metadata", "create"}
  BY DEF StartFails, Waits
<1> QED BY <1>1, <1>2, <1>3
        DEF PageIInv, RequestsFit, CallOfPage, GivenIsOfSession, PageShowsGiven, StartFails,
            NoRequest, ExecutorRests, executorVars, BeforeSession, ForExecutor

LEMMA PageMetadata == PageIInv /\ MetadataArrives => PageIInv'
<1> SUFFICES ASSUME PageIInv, MetadataArrives PROVE PageIInv'
  OBVIOUS
<1>1. PICK same \in BOOLEAN :
        PageAsks([for |-> IF remembered # NoSession /\ same THEN "session" ELSE "create"])
  BY DEF MetadataArrives
<1> DEFINE w == [for |-> IF remembered # NoSession /\ same THEN "session" ELSE "create"]
<1>2. page' = [phase |-> page.phase, session |-> page.session, frame |-> page.frame, waits |-> w]
  BY <1>1, PageIsAsked DEF PageIInv
<1>3. w.for \in {"session", "create"} /\ (w.for = "session" => remembered # NoSession)
      /\ w \in PageRequests
  BY DEF PageRequests
<1>4. PageTyped'
  BY <1>2, <1>3 DEF PageIInv, PageTyped, MetadataArrives, ExecutorRests, executorVars
<1>5. page.waits.for = "metadata"
  BY DEF MetadataArrives, Waits
<1> HIDE DEF w
<1> QED BY <1>2, <1>3, <1>4, <1>5
        DEF PageIInv, RequestsFit, CallOfPage, GivenIsOfSession, PageShowsGiven, MetadataArrives,
            NoRequest, ExecutorRests, executorVars, BeforeSession, ForExecutor

\* What is common to the ways of opening a session.
LEMMA PageOpens ==
  ASSUME PageIInv, NEW session \in PageSessions, NEW f \in PageFrames, Opened(session, f),
         f # NoFrame => f.session = session.id /\ f.revision <= session.revision,
         page.waits.for \in BeforeSession \cup {"reset"},
         page.waits.for = "reset" => f # NoFrame,
         played' \in [PlaySessions -> [born : BOOLEAN, revision : Nat, framed : SUBSET Nat]],
         UNCHANGED <<posts, submits>>
  PROVE  PageIInv'
<1> DEFINE w == IF f = NoFrame THEN NoRequest ELSE [for |-> "restore"]
<1>1. /\ page' = [phase |-> "ready", session |-> session, frame |-> f, waits |-> w]
      /\ remembered' = session /\ given' = f
      /\ stage' = [shows |-> NoFrame, whole |-> TRUE]
  BY DEF Opened, Painted
<1>2. w \in PageRequests /\ w.for = IF f = NoFrame THEN "nothing" ELSE "restore"
  BY DEF PageRequests, NoRequest
<1>3. DOMAIN showCalls' = ShowCalls
  BY DEF Opened, ExecutorRests, executorVars, Restore, Call, PageIInv, PageTyped
<1>4. PageTyped'
  BY <1>1, <1>2, <1>3 DEF PageIInv, PageTyped, PagePhases
<1>5. RequestsFit'
  BY <1>1, <1>2 DEF RequestsFit, BeforeSession
<1>6. CallOfPage'
  <2>1. CASE f = NoFrame
    <3>1. showCalls[PageCall] = Waiting /\ confirmed = NoFrame
      BY <2>1 DEF PageIInv, CallOfPage, RequestsFit, ForExecutor, BeforeSession
    <3> QED BY <2>1, <3>1, <1>1, <1>2 DEF Opened, ExecutorRests, executorVars, CallOfPage,
                                          ForExecutor
  <2>2. CASE f # NoFrame
    <3>1. showCalls' = [showCalls EXCEPT ![PageCall] =
                          [stage |-> "restoring", frame |-> f, show |-> shows + 2]]
          /\ shows' = shows + 2
      BY <2>2 DEF Opened, Restore, Call
    <3> QED BY <2>2, <3>1, <1>1, <1>2, PageCallAssumption
            DEF PageIInv, PageTyped, CallOfPage, ForExecutor, Active
  <2> QED BY <2>1, <2>2
<1>7. GivenIsOfSession'
  BY <1>1 DEF GivenIsOfSession
<1>8. PageShowsGiven'
  <2>1. w = NoRequest => f = NoFrame
    BY <1>2 DEF NoRequest
  <2>2. w.for # "show"
    BY <1>2
  <2> HIDE DEF w
  <2> QED BY <1>1, <2>1, <2>2 DEF PageShowsGiven
<1> QED BY <1>4, <1>5, <1>6, <1>7, <1>8 DEF PageIInv

LEMMA PageSessionRead == PageIInv /\ SessionRead => PageIInv'
<1> SUFFICES ASSUME PageIInv, SessionRead PROVE PageIInv'
  OBVIOUS
<1>1. page.waits.for = "session" /\ remembered \in PageSessions
  BY DEF SessionRead, Waits, PageIInv, RequestsFit, PageTyped
<1> DEFINE seen == [remembered EXCEPT !.revision = played[remembered.id].revision]
<1>2. seen \in PageSessions
  BY <1>1 DEF PageSessions, PageIInv, PageTyped
<1>3. UNCHANGED <<played, posts, submits>>
  BY DEF SessionRead
<1>4. CASE PageAsks([for |-> "create"]) /\ remembered' = NoSession /\ ExecutorRests
           /\ UNCHANGED <<stage, given>>
  <2>1. page' = [phase |-> page.phase, session |-> page.session, frame |-> page.frame,
                 waits |-> [for |-> "create"]]
    BY <1>4, PageIsAsked DEF PageIInv
  <2>2. PageTyped'
    BY <1>3, <1>4, <2>1 DEF PageIInv, PageTyped, PageRequests, ExecutorRests, executorVars
  <2> QED BY <1>1, <1>4, <2>1, <2>2
          DEF PageIInv, RequestsFit, CallOfPage, GivenIsOfSession, PageShowsGiven, NoRequest,
              ExecutorRests, executorVars, BeforeSession, ForExecutor
<1>5. CASE Opened(seen, NoFrame)
  BY <1>1, <1>2, <1>3, <1>5, PageOpens DEF PageFrames, BeforeSession, PageIInv, PageTyped
<1>6. CASE PageAsks([for |-> "operation", session |-> seen]) /\ ExecutorRests
           /\ UNCHANGED <<remembered, stage, given>>
  <2> HIDE DEF seen
  <2>1. page' = [phase |-> page.phase, session |-> page.session, frame |-> page.frame,
                 waits |-> [for |-> "operation", session |-> seen]]
    BY <1>6, PageIsAsked DEF PageIInv
  <2>2. PageTyped'
    BY <1>2, <1>3, <1>6, <2>1 DEF PageIInv, PageTyped, PageRequests, ExecutorRests, executorVars
  <2> QED BY <1>1, <1>6, <2>1, <2>2
          DEF PageIInv, RequestsFit, CallOfPage, GivenIsOfSession, PageShowsGiven, NoRequest,
              ExecutorRests, executorVars, BeforeSession, ForExecutor
<1> QED BY <1>4, <1>5, <1>6 DEF SessionRead

LEMMA PageOperationRead == PageIInv /\ OperationRead => PageIInv'
<1> SUFFICES ASSUME PageIInv, OperationRead PROVE PageIInv'
  OBVIOUS
<1>1. page.waits.for = "operation"
  BY DEF OperationRead, Waits
<1>2. page.waits.session \in PageSessions
  BY <1>1 DEF PageIInv, PageTyped, PageRequests, NoRequest
<1>3. PICK seen \in PageSessions, ok \in BOOLEAN :
        Opened(seen, IF ok /\ seen.last = seen.revision /\ seen.last \in played[seen.id].framed
                     THEN FrameOf(seen.id, seen.last) ELSE NoFrame)
  BY <1>2 DEF OperationRead
<1> DEFINE f == IF ok /\ seen.last = seen.revision /\ seen.last \in played[seen.id].framed
                THEN FrameOf(seen.id, seen.last) ELSE NoFrame
<1>4. /\ seen.id \in PlaySessions /\ seen.last \in Nat /\ seen.revision \in Nat
  BY DEF PageSessions
<1>5. f \in PageFrames /\ (f # NoFrame => f.session = seen.id /\ f.revision <= seen.revision)
  <2>1. /\ FrameOf(seen.id, seen.last) \in PageFrames
        /\ FrameOf(seen.id, seen.last).session = seen.id
        /\ FrameOf(seen.id, seen.last).revision = seen.last
    <3>1. PICK s \in PlaySessions, r \in Nat : s = seen.id /\ r = seen.last
      BY <1>4
    <3> QED BY <3>1, FramesAreFrames
  <2>2. NoFrame \in PageFrames
    BY DEF PageFrames
  <2> QED BY <1>4, <2>1, <2>2
<1>6. UNCHANGED <<played, posts, submits>>
  BY DEF OperationRead
<1> HIDE DEF f
<1> QED BY <1>1, <1>3, <1>5, <1>6, PageOpens DEF f, BeforeSession, PageIInv, PageTyped

LEMMA PageSessionCreated == PageIInv /\ SessionCreated => PageIInv'
<1> SUFFICES ASSUME PageIInv, SessionCreated PROVE PageIInv'
  OBVIOUS
<1>1. page.waits.for \in {"create", "reset"}
  BY DEF SessionCreated, Waits
<1>2. PICK s \in PlaySessions :
        /\ played' = [played EXCEPT ![s] = [born |-> TRUE, revision |-> 0, framed |-> {0}]]
        /\ Opened([id |-> s, revision |-> 0, last |-> 0], FrameOf(s, 0))
  BY DEF SessionCreated
<1>3. /\ [id |-> s, revision |-> 0, last |-> 0] \in PageSessions
      /\ FrameOf(s, 0) \in PageFrames /\ FrameOf(s, 0) # NoFrame
      /\ FrameOf(s, 0).session = s /\ FrameOf(s, 0).revision = 0
  BY FramesAreFrames DEF PageSessions
<1>4. played' \in [PlaySessions -> [born : BOOLEAN, revision : Nat, framed : SUBSET Nat]]
  BY <1>2 DEF PageIInv, PageTyped
<1>5. UNCHANGED <<posts, submits>>
  BY DEF SessionCreated
<1> QED BY <1>1, <1>2, <1>3, <1>4, <1>5, PageOpens DEF BeforeSession

LEMMA PageRestored == PageIInv /\ Restored => PageIInv'
<1> SUFFICES ASSUME PageIInv, Restored PROVE PageIInv'
  OBVIOUS
<1>1. page.waits.for = "restore" /\ showCalls[PageCall].stage = "over"
  BY DEF Restored, Waits
<1>2. confirmed = given /\ UNCHANGED confirmed
  BY <1>1 DEF PageIInv, CallOfPage, ForExecutor, Active, Restored, ReadResult
<1>3. page' = [phase |-> page.phase, session |-> page.session, frame |-> given,
               waits |-> NoRequest]
  BY <1>2 DEF Restored, PageIInv, PageTyped
<1>4. /\ showCalls' = [showCalls EXCEPT ![PageCall] = Waiting] /\ UNCHANGED given
      /\ stage' = [shows |-> given, whole |-> TRUE]
  BY <1>2 DEF Restored, ReadResult, Painted
<1>5. PageTyped'
  BY <1>3, <1>4 DEF PageIInv, PageTyped, Restored, PageRequests
<1> QED BY <1>2, <1>3, <1>4, <1>5, PageCallAssumption
        DEF PageIInv, PageTyped, RequestsFit, CallOfPage, GivenIsOfSession, PageShowsGiven,
            NoRequest, BeforeSession, ForExecutor

LEMMA PagePresented == PageIInv /\ Presented => PageIInv'
<1> SUFFICES ASSUME PageIInv, Presented PROVE PageIInv'
  OBVIOUS
<1>1. page.waits.for = "show" /\ showCalls[PageCall].stage = "over"
  BY DEF Presented, Waits
<1>2. confirmed = given /\ page.waits.frame = given /\ UNCHANGED confirmed
  BY <1>1 DEF PageIInv, RequestsFit, CallOfPage, ForExecutor, Active, Presented, ReadResult
<1>3. page' = [phase |-> "ready", session |-> page.session, frame |-> given,
               waits |-> NoRequest]
  BY <1>2 DEF Presented, PageIInv, PageTyped
<1>4. /\ showCalls' = [showCalls EXCEPT ![PageCall] = Waiting] /\ UNCHANGED given
      /\ stage' = [shows |-> given, whole |-> TRUE]
  BY <1>2 DEF Presented, ReadResult, Painted
<1>5. PageTyped'
  BY <1>3, <1>4 DEF PageIInv, PageTyped, Presented, PageRequests, PagePhases
<1> QED BY <1>2, <1>3, <1>4, <1>5, PageCallAssumption
        DEF PageIInv, PageTyped, RequestsFit, CallOfPage, GivenIsOfSession, PageShowsGiven,
            NoRequest, BeforeSession, ForExecutor

LEMMA PageResets == PageIInv /\ ResetSession => PageIInv'
<1> SUFFICES ASSUME PageIInv, ResetSession PROVE PageIInv'
  OBVIOUS
<1>1. page.waits = NoRequest /\ page.waits.for = "nothing"
  BY DEF ResetSession, NoRequest
<1>2. page' = [phase |-> "resetting", session |-> page.session, frame |-> page.frame,
               waits |-> [for |-> "reset"]]
  BY PageTurns DEF PageIInv, ResetSession
<1>3. UNCHANGED <<showCalls, confirmed, given>>
  BY DEF ResetSession, CancelActive
<1>4. PageTyped'
  BY <1>2, <1>3 DEF PageIInv, PageTyped, ResetSession, PageRequests, PagePhases
<1> QED BY <1>1, <1>2, <1>3, <1>4
        DEF PageIInv, RequestsFit, CallOfPage, GivenIsOfSession, PageShowsGiven, BeforeSession,
            ForExecutor

LEMMA PageResetFails == PageIInv /\ ResetFails => PageIInv'
<1> SUFFICES ASSUME PageIInv, ResetFails PROVE PageIInv'
  OBVIOUS
<1>1. page.waits.for = "reset"
  BY DEF ResetFails, Waits
<1>2. page' = [phase |-> "error", session |-> page.session, frame |-> page.frame,
               waits |-> NoRequest]
  BY PageTurns DEF PageIInv, ResetFails
<1>3. UNCHANGED <<executorVars, given>>
  BY DEF ResetFails, ExecutorRests
<1>4. PageTyped'
  BY <1>2, <1>3 DEF PageIInv, PageTyped, ResetFails, PageRequests, PagePhases, executorVars
<1> QED BY <1>1, <1>2, <1>3, <1>4
        DEF PageIInv, RequestsFit, CallOfPage, GivenIsOfSession, PageShowsGiven, BeforeSession,
            ForExecutor, executorVars, NoRequest

LEMMA PageSubmits == PageIInv /\ Submit => PageIInv'
<1> SUFFICES ASSUME PageIInv, Submit PROVE PageIInv'
  OBVIOUS
<1>1. page.waits = NoRequest /\ page.waits.for = "nothing"
  BY DEF Submit, NoRequest
<1> DEFINE w == [for |-> "action", key |-> submits', answer |-> "none"]
<1>2. page' = [phase |-> "acting", session |-> page.session, frame |-> page.frame, waits |-> w]
  BY PageTurns DEF PageIInv, Submit
<1>3. UNCHANGED <<executorVars, given>> /\ submits' = submits + 1 /\ submits' \in Nat
  BY DEF Submit, ExecutorRests, PageIInv, PageTyped
<1>4. w \in PageRequests /\ w.for = "action"
  BY <1>3 DEF PageRequests
<1>5. page.session \in PageSessions
  BY DEF Submit, PageIInv, PageTyped
<1>6. posts' \in SUBSET [session : PlaySessions, expected : Nat, key : Nat]
  BY <1>3, <1>5 DEF Submit, PageIInv, PageTyped, PageSessions
<1> HIDE DEF w
<1>7. PageTyped'
  BY <1>2, <1>3, <1>4, <1>6 DEF PageIInv, PageTyped, Submit, PagePhases, executorVars
<1> QED BY <1>1, <1>2, <1>3, <1>4, <1>5, <1>7, NoSessionIsNone
        DEF PageIInv, RequestsFit, CallOfPage, GivenIsOfSession, PageShowsGiven, BeforeSession,
            ForExecutor, executorVars

LEMMA PageActionFails == PageIInv /\ ActionFails => PageIInv'
<1> SUFFICES ASSUME PageIInv, ActionFails PROVE PageIInv'
  OBVIOUS
<1>1. page.waits.for = "action"
  BY DEF ActionFails, Waits
<1>2. page' = [phase |-> "error", session |-> page.session, frame |-> page.frame,
               waits |-> NoRequest]
  BY PageTurns DEF PageIInv, ActionFails
<1>3. UNCHANGED <<executorVars, given>>
  BY DEF ActionFails, ExecutorRests
<1>4. PageTyped'
  BY <1>2, <1>3 DEF PageIInv, PageTyped, ActionFails, PageRequests, PagePhases, executorVars
<1> QED BY <1>1, <1>2, <1>3, <1>4
        DEF PageIInv, RequestsFit, CallOfPage, GivenIsOfSession, PageShowsGiven, BeforeSession,
            ForExecutor, executorVars, NoRequest

LEMMA PagePostLands ==
  ASSUME PageIInv, NEW post \in posts, PostLands(post)
  PROVE  PageIInv'
<1>1. post.session \in PlaySessions
  BY DEF PageIInv, PageTyped
<1>2. played' \in [PlaySessions -> [born : BOOLEAN, revision : Nat, framed : SUBSET Nat]]
  <2>1. CASE UNCHANGED played
    BY <2>1 DEF PageIInv, PageTyped
  <2>2. ASSUME NEW framed \in BOOLEAN,
               played' = [played EXCEPT ![post.session].revision = @ + 1,
                            ![post.session].framed =
                               IF framed THEN @ \cup {played[post.session].revision + 1} ELSE @]
        PROVE  played' \in [PlaySessions -> [born : BOOLEAN, revision : Nat, framed : SUBSET Nat]]
    <3>1. played[post.session] \in [born : BOOLEAN, revision : Nat, framed : SUBSET Nat]
      BY <1>1 DEF PageIInv, PageTyped
    <3> QED BY <1>1, <2>2, <3>1 DEF PageIInv, PageTyped
  <2> QED BY <2>1, <2>2 DEF PostLands
<1>3. PICK answer \in {"committed", "refused"} : AnswerTo(post, answer)
  BY DEF PostLands
<1>4. UNCHANGED <<executorVars, given, remembered, stage, submits>> /\ posts' \subseteq posts
  BY DEF PostLands, ExecutorRests
<1>5. CASE ~IsFor(post)
  <2>1. UNCHANGED page
    BY <1>3, <1>5 DEF AnswerTo
  <2> QED BY <1>2, <1>4, <2>1
          DEF PageIInv, PageTyped, RequestsFit, CallOfPage, GivenIsOfSession, PageShowsGiven,
              executorVars
<1>6. CASE IsFor(post)
  <2>1. page.waits \in [for : {"action"}, key : Nat, answer : {"none", "committed", "refused"}]
    BY <1>6 DEF IsFor, PageIInv, PageTyped, PageRequests, NoRequest
  <2> DEFINE w == [page.waits EXCEPT !.answer = answer]
  <2>2. w \in PageRequests /\ w.for = "action"
    BY <2>1 DEF PageRequests
  <2>3. page' = [phase |-> page.phase, session |-> page.session, frame |-> page.frame, waits |-> w]
    BY <1>3, <1>6 DEF AnswerTo, PageIInv, PageTyped
  <2> HIDE DEF w
  <2>4. PageTyped'
    BY <1>2, <1>4, <2>2, <2>3 DEF PageIInv, PageTyped, executorVars
  <2>5. page.waits.for = "action" /\ w # NoRequest
    BY <2>1, <2>2 DEF NoRequest
  <2> QED BY <1>4, <2>2, <2>3, <2>4, <2>5
          DEF PageIInv, RequestsFit, CallOfPage, GivenIsOfSession, PageShowsGiven, BeforeSession,
              ForExecutor, executorVars
<1> QED BY <1>5, <1>6

\* The turn that arrives is newer than the frame confirmed, so the executor takes it on.
LEMMA PageTakesTurn ==
  ASSUME PageIInv, NEW s \in PlaySessions, NEW r \in Nat, NEW plan, NEW still,
         s = page.session.id, r = page.session.revision + 1, page.session.revision \in Nat,
         page.waits.for = "action", Present(PageCall, FrameOf(s, r), plan, still)
  PROVE  /\ DOMAIN showCalls' = ShowCalls
         /\ showCalls'[PageCall].stage \in Active /\ showCalls'[PageCall].show = shows'
         /\ showCalls'[PageCall].frame = FrameOf(s, r)
<1> DEFINE f == FrameOf(s, r)
<1>1. f.session = s /\ f.revision = r /\ f # NoFrame
  BY FramesAreFrames
<1> HIDE DEF f
<1>2. confirmed = given
  BY DEF PageIInv, CallOfPage, ForExecutor
<1>3. FrameUpdate(f) = "advance"
  <2>1. CASE confirmed = NoFrame
    <3>1. confirmed.session # f.session
      BY <1>1, <2>1, PlaySessionsAssumption DEF NoFrame
    <3> QED BY <2>1, <3>1 DEF FrameUpdate
  <2>2. CASE confirmed # NoFrame
    <3>1. confirmed.session = s /\ confirmed.revision \in Nat /\ confirmed.revision < r
      BY <1>2, <2>2, GivenFrames DEF PageIInv, GivenIsOfSession
    <3>2. ~(f.revision < confirmed.revision) /\ f.revision # confirmed.revision
      BY <1>1, <3>1
    <3> QED BY <1>1, <2>2, <3>1, <3>2 DEF FrameUpdate
  <2> QED BY <2>1, <2>2
<1>4. PICK stg \in Active : Call(PageCall, stg, f, shows')
  <2>1. Present(PageCall, f, plan, still)
    BY DEF f
  <2>2. CASE \E outcome : Direct(PageCall, f, outcome)
    BY <2>2 DEF Direct, Active
  <2>3. CASE Call(PageCall, "playing", f, shows + 1) /\ shows' = shows + 1
    BY <2>3 DEF Active
  <2> QED BY <1>3, <2>1, <2>2, <2>3 DEF Present
<1> QED BY <1>4, PageCallAssumption DEF Call, PageIInv, PageTyped, f

LEMMA PageTurnArrives == PageIInv /\ TurnArrives => PageIInv'
<1> SUFFICES ASSUME PageIInv, TurnArrives PROVE PageIInv'
  OBVIOUS
<1>1. page.waits.for = "action"
  BY DEF TurnArrives, Waits
<1>2. page.session \in PageSessions
  BY <1>1 DEF PageIInv, PageTyped, RequestsFit
<1>3. PICK s \in PlaySessions, v \in Nat, r \in Nat :
         s = page.session.id /\ v = page.session.revision /\ r = v + 1
  <2>1. page.session.id \in PlaySessions /\ page.session.revision \in Nat
    BY <1>2 DEF PageSessions
  <2>2. page.session.revision + 1 \in Nat
    BY <2>1
  <2> QED BY <2>1, <2>2
<1> DEFINE session == [id |-> s, revision |-> r, last |-> r]
<1>4. session \in PageSessions
  BY DEF PageSessions
<1>5. /\ remembered' = session
      /\ UNCHANGED <<played, posts, submits>>
  BY <1>3 DEF TurnArrives
<1>6. ASSUME r \in played[s].framed PROVE PageIInv'
  <2> DEFINE f == FrameOf(s, r)
             w == [for |-> "show", frame |-> f]
  <2>1. f \in PageFrames /\ f.session = s /\ f.revision = r
    BY FramesAreFrames
  <2>2. /\ page' = [page EXCEPT !.phase = "presenting", !.session = session, !.waits = w]
        /\ given' = f
        /\ \E plan, still : Present(PageCall, f, plan, still)
    BY <1>3, <1>6 DEF TurnArrives
  <2>3. w \in PageRequests /\ w.for = "show" /\ w.frame = f
    BY <2>1 DEF PageRequests
  <2>4. /\ DOMAIN showCalls' = ShowCalls
        /\ showCalls'[PageCall].stage \in Active /\ showCalls'[PageCall].show = shows'
        /\ showCalls'[PageCall].frame = f
    BY <1>1, <1>3, <2>2, PageTakesTurn
  <2> HIDE DEF f, w, session
  <2>5. page' = [phase |-> "presenting", session |-> session, frame |-> page.frame, waits |-> w]
    BY <2>2 DEF PageIInv, PageTyped
  <2>6. PageTyped'
    BY <1>4, <1>5, <2>1, <2>2, <2>3, <2>4, <2>5 DEF PageIInv, PageTyped, PagePhases
  <2>7. session.id = s /\ session.revision = r /\ r <= r
    BY DEF session
  <2> QED BY <2>1, <2>2, <2>3, <2>4, <2>5, <2>6, <2>7
          DEF PageIInv, RequestsFit, CallOfPage, GivenIsOfSession, PageShowsGiven, BeforeSession,
              ForExecutor
<1>7. ASSUME r \notin played[s].framed PROVE PageIInv'
  <2>1. /\ page' = [page EXCEPT !.phase = "ready", !.session = session, !.waits = NoRequest]
        /\ stage' = [shows |-> page.frame, whole |-> TRUE] /\ UNCHANGED <<executorVars, given>>
    BY <1>3, <1>7 DEF TurnArrives, Painted, ExecutorRests
  <2> HIDE DEF session
  <2>2. page' = [phase |-> "ready", session |-> session, frame |-> page.frame,
                 waits |-> NoRequest]
    BY <2>1 DEF PageIInv, PageTyped
  <2>3. PageTyped'
    BY <1>4, <1>5, <2>1, <2>2 DEF PageIInv, PageTyped, PagePhases, PageRequests, executorVars
  <2>4. session.id = s /\ session.revision = r
    BY DEF session
  <2>5. GivenIsOfSession'
    <3>1. given # NoFrame => given.session = s /\ given.revision \in Nat /\ given.revision <= v
      BY <1>3, GivenFrames DEF PageIInv, GivenIsOfSession
    <3>2. given # NoFrame => given.revision <= r
      BY <1>3, <3>1
    <3> QED BY <2>1, <2>2, <2>4, <3>1, <3>2 DEF GivenIsOfSession
  <2>6. CallOfPage' /\ RequestsFit'
    BY <1>1, <2>1, <2>2 DEF PageIInv, RequestsFit, CallOfPage, BeforeSession, ForExecutor,
                            executorVars, NoRequest
  <2>7. PageShowsGiven'
    BY <1>1, <2>1, <2>2 DEF PageIInv, PageShowsGiven
  <2> QED BY <2>3, <2>5, <2>6, <2>7 DEF PageIInv
<1> QED BY <1>6, <1>7

\* The call of the page is the newest, so the frame it applied is confirmed.
LEMMA PageFrameApplied == PageIInv /\ FrameApplied => PageIInv'
<1> SUFFICES ASSUME PageIInv, FrameApplied PROVE PageIInv'
  OBVIOUS
<1>1. showCalls[PageCall].stage \in {"restoring", "applying", "finishing"}
  BY DEF FrameApplied, Applied
<1>2. page.waits.for \in ForExecutor /\ showCalls[PageCall].stage \notin {"over", "idle"}
  BY <1>1 DEF PageIInv, CallOfPage, Waiting
<1>3. showCalls[PageCall].show = shows /\ showCalls[PageCall].frame = given
  BY <1>2 DEF PageIInv, CallOfPage
<1>4. /\ confirmed' = given /\ showCalls' = [showCalls EXCEPT ![PageCall] = Over(FALSE)]
      /\ UNCHANGED <<played, page, remembered, posts, submits, given>>
  BY <1>3 DEF FrameApplied, Applied, Current, Confirms, Settle
<1>5. showCalls'[PageCall].stage = "over"
  BY <1>4, PageCallAssumption DEF PageIInv, PageTyped, Over
<1>6. PageTyped'
  BY <1>4 DEF PageIInv, PageTyped
<1>7. page.waits # NoRequest
  BY <1>2 DEF ForExecutor, NoRequest
<1> QED BY <1>2, <1>4, <1>5, <1>6, <1>7
        DEF PageIInv, RequestsFit, CallOfPage, GivenIsOfSession, PageShowsGiven, BeforeSession,
            ForExecutor

LEMMA PagePlanPlays == PageIInv /\ PlanPlays => PageIInv'
<1> SUFFICES ASSUME PageIInv, PlanPlays PROVE PageIInv'
  OBVIOUS
<1>1. showCalls[PageCall].stage = "playing" /\ UNCHANGED pageVars
  BY DEF PlanPlays, PlanEnds
<1>2. page.waits.for \in ForExecutor
  BY <1>1 DEF PageIInv, CallOfPage, Waiting
<1>3. showCalls[PageCall].show = shows /\ showCalls[PageCall].frame = given
  BY <1>1, <1>2 DEF PageIInv, CallOfPage
<1>4. PICK stg \in Active : Call(PageCall, stg, given, shows')
  BY <1>3 DEF PlanPlays, PlanEnds, PlanFails, Current, Active
<1>5. /\ DOMAIN showCalls' = ShowCalls
      /\ showCalls'[PageCall].stage \in Active /\ showCalls'[PageCall].show = shows'
      /\ showCalls'[PageCall].frame = given
  BY <1>4, PageCallAssumption DEF PageIInv, PageTyped, Call
<1> QED BY <1>1, <1>2, <1>5
        DEF PageIInv, PageTyped, RequestsFit, CallOfPage, GivenIsOfSession, PageShowsGiven,
            pageVars

LEMMA PageSkips == PageIInv /\ SkipPresentation => PageIInv'
BY DEF PageIInv, PageTyped, RequestsFit, CallOfPage, GivenIsOfSession, PageShowsGiven,
       pageVars, SkipPresentation, SkipActive

LEMMA PageStep == PageIInv /\ [PlayerNext]_playerVars => PageIInv'
<1> SUFFICES ASSUME PageIInv, [PlayerNext]_playerVars PROVE PageIInv'
  OBVIOUS
<1>1. CASE UNCHANGED playerVars
  BY <1>1 DEF PageIInv, PageTyped, RequestsFit, CallOfPage, GivenIsOfSession, PageShowsGiven,
              playerVars, pageVars, executorVars
<1>2. CASE LoadPage \/ StartFails \/ MetadataArrives \/ SessionRead \/ OperationRead
  BY <1>2, PageLoads, PageStartFails, PageMetadata, PageSessionRead, PageOperationRead
<1>3. CASE SessionCreated \/ Restored \/ ResetSession \/ ResetFails
  BY <1>3, PageSessionCreated, PageRestored, PageResets, PageResetFails
<1>4. CASE Submit \/ (\E post \in posts : PostLands(post)) \/ ActionFails \/ TurnArrives
  BY <1>4, PageSubmits, PagePostLands, PageActionFails, PageTurnArrives
<1>5. CASE FrameApplied \/ PlanPlays \/ SkipPresentation \/ Presented
  BY <1>5, PageFrameApplied, PagePlanPlays, PageSkips, PagePresented
<1> QED BY <1>1, <1>2, <1>3, <1>4, <1>5 DEF PlayerNext

\* Whenever the page of the player is ready it shows, whole, the last frame it was
\* given, of its session and no newer than the turn it tells of: after any number of
\* reloads, resets, skips, failed plans, turns without a frame and lost answers (the
\* handlers of apps/player's app.js around the executor).
THEOREM ThePageShowsItsTurn == PlayerSpec => []TheTurnIsShown
<1>1. PageIInv => TheTurnIsShown
  BY DEF PageIInv, PageShowsGiven, GivenIsOfSession, TheTurnIsShown
<1> QED BY <1>1, PageInitially, PageStep, PTL DEF PlayerSpec

-----------------------------------------------------------------------------
(* The launcher.  Only the head of the chain is past having been asked for,  *)
(* one playtest at most has a player, and it has none from the moment the   *)
(* head is stopping a player or starting its own.                           *)

Stopping == {"stopping player", "stopping runtime"}
Starting ==
  {"starting", "reading", "importing", "runtime listens", "player listens", "giving up"}
Working == {"closing"} \cup Stopping \cup Starting
LaunchSteps == {"new", "asked", "over"} \cup Working

LaunchRecords ==
  [step : LaunchSteps, op : {"launch", "close", "close all"}, playtest : Playtests,
   database : Databases, closing : SUBSET Playtests, stops : LaunchCalls \cup {NoPlayer}]

ManagedTyped == managedPlayers \in [Playtests -> LaunchCalls \cup {NoPlayer}]

ChainTyped ==
  /\ playerChain \in Seq(LaunchCalls)
  /\ DOMAIN launchCalls = LaunchCalls
  /\ \A c \in LaunchCalls : launchCalls[c].step \in LaunchSteps
  /\ \A c \in LaunchCalls : launchCalls[c].step \in {"asked"} \cup Working =>
       launchCalls[c] \in LaunchRecords

ChainWorksAtHead ==
  /\ \A i \in 1 .. Len(playerChain) : launchCalls[playerChain[i]].step \in {"asked"} \cup Working
  /\ \A i, j \in 1 .. Len(playerChain) : playerChain[i] = playerChain[j] => i = j
  /\ \A c \in LaunchCalls : launchCalls[c].step \in Working =>
       playerChain # <<>> /\ playerChain[1] = c

OneIsManaged ==
  \A p, q \in Playtests : managedPlayers[p] # NoPlayer /\ managedPlayers[q] # NoPlayer => p = q

ManagedAreWhole ==
  \A p \in Playtests : managedPlayers[p] # NoPlayer =>
    /\ At(managedPlayers[p], "over")
    /\ Of({"player", "runtime"} \cup Handles, managedPlayers[p]) \subseteq opened

Manages(c) == \E p \in Playtests : managedPlayers[p] = c
WorkFits ==
  \A c \in LaunchCalls :
    /\ At(c, "closing") /\ launchCalls[c].op = "launch" => IdsManaged \subseteq launchCalls[c].closing
    /\ launchCalls[c].step \in Stopping \cup Starting => IdsManaged = {}
    /\ At(c, "runtime listens") => Of(Handles, c) \subseteq opened
    /\ At(c, "player listens") => Of({"runtime"} \cup Handles, c) \subseteq opened

ListenersAreKnown ==
  \A c \in LaunchCalls :
    /\ <<"player", c>> \in opened =>
         \/ Manages(c)
         \/ \E h \in LaunchCalls : At(h, "stopping player") /\ launchCalls[h].stops = c
    /\ <<"runtime", c>> \in opened =>
         \/ Manages(c) \/ At(c, "player listens") \/ At(c, "giving up")
         \/ \E h \in LaunchCalls : launchCalls[h].step \in Stopping /\ launchCalls[h].stops = c

LaunchIInv ==
  /\ ManagedTyped /\ ChainTyped /\ ChainWorksAtHead /\ OneIsManaged /\ ManagedAreWhole /\ WorkFits
  /\ ListenersAreKnown

LEMMA OfHas ==
  ASSUME NEW K, NEW c, NEW k, NEW d
  PROVE  <<k, d>> \in Of(K, c) <=> k \in K /\ d = c
BY DEF Of

LEMMA OfIsIn ==
  ASSUME NEW K, NEW c, NEW S
  PROVE  Of(K, c) \subseteq S <=> \A k \in K : <<k, c>> \in S
BY DEF Of

LEMMA LaunchInitially == LaunchInit => LaunchIInv
<1> SUFFICES ASSUME LaunchInit PROVE LaunchIInv
  OBVIOUS
<1>1. ManagedTyped /\ ChainTyped /\ ChainWorksAtHead
  <2>1. ManagedTyped
    BY DEF LaunchInit, ManagedTyped
  <2>2. ChainTyped
    <3>1. playerChain \in Seq(LaunchCalls) /\ DOMAIN launchCalls = LaunchCalls
      BY DEF LaunchInit
    <3>2. \A c \in LaunchCalls : launchCalls[c].step = "new"
      BY DEF LaunchInit
    <3> QED BY <3>1, <3>2 DEF ChainTyped, LaunchSteps, Working, Stopping, Starting
  <2>3. \A c \in LaunchCalls : launchCalls[c].step \notin Working
    BY DEF LaunchInit, Working, Stopping, Starting
  <2>4. 1 .. Len(playerChain) = {}
    BY DEF LaunchInit
  <2> QED BY <2>1, <2>2, <2>3, <2>4 DEF ChainWorksAtHead
<1>2. \A p \in Playtests : managedPlayers[p] = NoPlayer
  BY DEF LaunchInit
<1>3. \A c \in LaunchCalls : launchCalls[c].step = "new"
  BY DEF LaunchInit
<1>4. opened = {}
  BY DEF LaunchInit
<1> QED BY <1>1, <1>2, <1>3, <1>4
        DEF LaunchIInv, OneIsManaged, ManagedAreWhole, WorkFits, ListenersAreKnown, At, Stopping,
            Starting

LEMMA HeadWorks ==
  ASSUME LaunchIInv, NEW c \in LaunchCalls, Runs(c)
  PROVE  /\ playerChain # <<>> /\ playerChain[1] = c /\ Len(playerChain) \in Nat \ {0}
         /\ launchCalls[c].step \in {"asked"} \cup Working
         /\ launchCalls[c] \in LaunchRecords
         /\ \A d \in LaunchCalls : d # c => launchCalls[d].step \notin Working
<1>1. playerChain # <<>> /\ playerChain[1] = c /\ Len(playerChain) \in Nat \ {0}
  BY DEF Runs, LaunchIInv, ChainTyped
<1>2. launchCalls[c].step \in {"asked"} \cup Working
  <2>1. 1 \in 1 .. Len(playerChain)
    BY <1>1
  <2> QED BY <1>1, <2>1 DEF LaunchIInv, ChainWorksAtHead
<1> QED BY <1>1, <1>2 DEF LaunchIInv, ChainTyped, ChainWorksAtHead

\* The head of the chain goes on to another step.
LEMMA WorkGoesOn ==
  ASSUME LaunchIInv, NEW c \in LaunchCalls, Runs(c), NEW call \in LaunchRecords,
         call.step \in Working, launchCalls' = [launchCalls EXCEPT ![c] = call],
         UNCHANGED playerChain
  PROVE  /\ ChainTyped' /\ ChainWorksAtHead'
         /\ launchCalls'[c] = call
         /\ \A d \in LaunchCalls : d # c => launchCalls'[d] = launchCalls[d]
<1>1. /\ DOMAIN launchCalls' = LaunchCalls /\ launchCalls'[c] = call
      /\ \A d \in LaunchCalls : d # c => launchCalls'[d] = launchCalls[d]
  BY DEF LaunchIInv, ChainTyped
<1>2. ChainTyped'
  BY <1>1 DEF LaunchIInv, ChainTyped, LaunchRecords
<1>3. \A i \in 1 .. Len(playerChain) : playerChain[i] \in LaunchCalls
  BY DEF LaunchIInv, ChainTyped
<1>4. ChainWorksAtHead'
  BY <1>1, <1>3, HeadWorks DEF LaunchIInv, ChainWorksAtHead
<1> QED BY <1>1, <1>2, <1>4

\* The head of the chain is over, and the next one begins.
LEMMA WorkSettles ==
  ASSUME LaunchIInv, NEW c \in LaunchCalls, Runs(c), NEW answer, Settles(c, answer)
  PROVE  /\ ChainTyped' /\ ChainWorksAtHead'
         /\ launchCalls'[c].step = "over"
         /\ \A d \in LaunchCalls : d # c => launchCalls'[d] = launchCalls[d]
         /\ \A d \in LaunchCalls : launchCalls'[d].step \notin Working
<1>1. /\ DOMAIN launchCalls' = LaunchCalls /\ launchCalls'[c].step = "over"
      /\ \A d \in LaunchCalls : d # c => launchCalls'[d] = launchCalls[d]
  BY DEF LaunchIInv, ChainTyped, Settles
<1>2. /\ playerChain # <<>> /\ playerChain[1] = c
      /\ \A d \in LaunchCalls : d # c => launchCalls[d].step \notin Working
  BY HeadWorks
<1>3. PICK n \in Nat : Len(playerChain) = n + 1
  <2>1. Len(playerChain) \in Nat \ {0}
    BY HeadWorks
  <2> QED BY <2>1
<1>4. /\ playerChain' \in Seq(LaunchCalls) /\ Len(playerChain') = n
      /\ \A i \in 1 .. n : playerChain'[i] = playerChain[i + 1] /\ i + 1 \in 1 .. n + 1
      /\ 1 \in 1 .. n + 1
  BY <1>2, <1>3 DEF Settles, LaunchIInv, ChainTyped
<1>5. \A i \in 1 .. n : playerChain'[i] \in LaunchCalls \ {c}
  <2> SUFFICES ASSUME NEW i \in 1 .. n PROVE playerChain[i + 1] \in LaunchCalls \ {c}
    BY <1>4
  <2>1. i + 1 \in 1 .. n + 1 /\ i + 1 # 1
    OBVIOUS
  <2>2. playerChain[i + 1] # playerChain[1]
    BY <1>3, <1>4, <2>1 DEF LaunchIInv, ChainWorksAtHead
  <2>3. playerChain[i + 1] \in LaunchCalls
    BY <1>3, <2>1 DEF LaunchIInv, ChainTyped
  <2> QED BY <1>2, <2>2, <2>3
<1>6. ChainTyped'
  BY <1>1, <1>4 DEF LaunchIInv, ChainTyped, LaunchSteps, Working, Stopping, Starting
<1>7. \A d \in LaunchCalls : launchCalls'[d].step \notin Working
  BY <1>1, <1>2 DEF Working, Stopping, Starting
<1>8. \A i \in 1 .. n : launchCalls'[playerChain'[i]].step \in {"asked"} \cup Working
  <2> SUFFICES ASSUME NEW i \in 1 .. n
               PROVE  launchCalls'[playerChain'[i]].step \in {"asked"} \cup Working
    OBVIOUS
  <2>1. launchCalls[playerChain[i + 1]].step \in {"asked"} \cup Working
    BY <1>3, <1>4 DEF LaunchIInv, ChainWorksAtHead
  <2> QED BY <1>1, <1>4, <1>5, <2>1
<1>9. \A i, j \in 1 .. n : playerChain'[i] = playerChain'[j] => i = j
  <2> SUFFICES ASSUME NEW i \in 1 .. n, NEW j \in 1 .. n, playerChain'[i] = playerChain'[j]
               PROVE  i = j
    OBVIOUS
  <2>1. i + 1 = j + 1
    BY <1>3, <1>4 DEF LaunchIInv, ChainWorksAtHead
  <2> QED BY <2>1
<1>10. ChainWorksAtHead'
  BY <1>4, <1>7, <1>8, <1>9 DEF ChainWorksAtHead
<1> QED BY <1>1, <1>6, <1>7, <1>10

\* A call that neither stops nor starts a listener leaves those there are known.
LEMMA ListenersStayKnown ==
  ASSUME LaunchIInv, NEW c \in LaunchCalls, UNCHANGED managedPlayers,
         \A d \in LaunchCalls : d # c => launchCalls'[d] = launchCalls[d],
         launchCalls[c].step \notin Stopping \cup {"player listens", "giving up"},
         \A d \in LaunchCalls : \A k \in {"player", "runtime"} :
           <<k, d>> \in opened' => <<k, d>> \in opened
  PROVE  ListenersAreKnown'
<1> SUFFICES ASSUME NEW d \in LaunchCalls
             PROVE  /\ <<"player", d>> \in opened' =>
                         \/ Manages(d)'
                         \/ \E h \in LaunchCalls :
                               launchCalls'[h].step = "stopping player" /\ launchCalls'[h].stops = d
                    /\ <<"runtime", d>> \in opened' =>
                         \/ Manages(d)'
                         \/ launchCalls'[d].step \in {"player listens", "giving up"}
                         \/ \E h \in LaunchCalls :
                               launchCalls'[h].step \in Stopping /\ launchCalls'[h].stops = d
  BY DEF ListenersAreKnown, At
<1>1. Manages(d)' <=> Manages(d)
  BY DEF Manages
<1>2. ASSUME <<"player", d>> \in opened', ~Manages(d)
      PROVE  \E h \in LaunchCalls :
               launchCalls'[h].step = "stopping player" /\ launchCalls'[h].stops = d
  <2>1. PICK h \in LaunchCalls :
          launchCalls[h].step = "stopping player" /\ launchCalls[h].stops = d
    BY <1>2 DEF LaunchIInv, ListenersAreKnown, At
  <2>2. h # c
    BY <2>1 DEF Stopping
  <2> QED BY <2>1, <2>2
<1>3. ASSUME <<"runtime", d>> \in opened', ~Manages(d),
             launchCalls'[d].step \notin {"player listens", "giving up"}
      PROVE  \E h \in LaunchCalls :
               launchCalls'[h].step \in Stopping /\ launchCalls'[h].stops = d
  <2>1. launchCalls[d].step \notin {"player listens", "giving up"}
    BY <1>3
  <2>2. PICK h \in LaunchCalls : launchCalls[h].step \in Stopping /\ launchCalls[h].stops = d
    BY <1>3, <2>1 DEF LaunchIInv, ListenersAreKnown, At
  <2>3. h # c
    BY <2>2
  <2> QED BY <2>2, <2>3
<1> QED BY <1>1, <1>2, <1>3

LEMMA LaunchIsAsked ==
  ASSUME LaunchIInv, NEW c \in LaunchCalls, Asks(c)
  PROVE  LaunchIInv'
<1>1. /\ UNCHANGED <<managedPlayers, opened>>
      /\ launchCalls[c].step = "new"
      /\ launchCalls'[c] \in LaunchRecords /\ launchCalls'[c].step = "asked"
      /\ \A d \in LaunchCalls : d # c => launchCalls'[d] = launchCalls[d]
      /\ DOMAIN launchCalls' = LaunchCalls
      /\ playerChain' = Append(playerChain, c)
  <2>1. PICK op \in {"launch", "close", "close all"}, p \in Playtests, b \in Databases :
          launchCalls' = [launchCalls EXCEPT
            ![c] = [step |-> "asked", op |-> op, playtest |-> p, database |-> b,
                    closing |-> {}, stops |-> NoPlayer]]
    BY DEF Asks
  <2>2. [step |-> "asked", op |-> op, playtest |-> p, database |-> b, closing |-> {},
         stops |-> NoPlayer] \in LaunchRecords
    BY DEF LaunchRecords, LaunchSteps
  <2> QED BY <2>1, <2>2 DEF Asks, At, LaunchIInv, ChainTyped
<1>2. PICK n \in Nat : Len(playerChain) = n
  BY DEF LaunchIInv, ChainTyped
<1>3. /\ playerChain' \in Seq(LaunchCalls) /\ Len(playerChain') = n + 1
      /\ playerChain'[n + 1] = c
      /\ \A i \in 1 .. n : playerChain'[i] = playerChain[i] /\ playerChain[i] \in LaunchCalls
  BY <1>1, <1>2 DEF LaunchIInv, ChainTyped
<1>4. ChainTyped'
  BY <1>1, <1>3 DEF LaunchIInv, ChainTyped, Working, Stopping, Starting, LaunchSteps
<1>5. \A i \in 1 .. n : playerChain[i] # c
  BY <1>1, <1>2 DEF LaunchIInv, ChainWorksAtHead, Working, Stopping, Starting
<1>6. \A i \in 1 .. n + 1 : launchCalls'[playerChain'[i]].step \in {"asked"} \cup Working
  <2> SUFFICES ASSUME NEW i \in 1 .. n + 1
               PROVE  launchCalls'[playerChain'[i]].step \in {"asked"} \cup Working
    OBVIOUS
  <2>1. CASE i = n + 1
    BY <1>1, <1>3, <2>1
  <2>2. CASE i # n + 1
    <3>1. i \in 1 .. n
      BY <2>2
    <3> QED BY <1>1, <1>2, <1>3, <1>5, <3>1 DEF LaunchIInv, ChainWorksAtHead
  <2> QED BY <2>1, <2>2
<1>7. \A i, j \in 1 .. n + 1 : playerChain'[i] = playerChain'[j] => i = j
  <2> SUFFICES ASSUME NEW i \in 1 .. n + 1, NEW j \in 1 .. n + 1,
                      playerChain'[i] = playerChain'[j]
               PROVE  i = j
    OBVIOUS
  <2>1. CASE i \in 1 .. n /\ j \in 1 .. n
    BY <1>2, <1>3, <2>1 DEF LaunchIInv, ChainWorksAtHead
  <2>2. CASE i = n + 1 /\ j \in 1 .. n
    BY <1>3, <1>5, <2>2
  <2>3. CASE j = n + 1 /\ i \in 1 .. n
    BY <1>3, <1>5, <2>3
  <2>4. (i = n + 1 \/ i \in 1 .. n) /\ (j = n + 1 \/ j \in 1 .. n)
    OBVIOUS
  <2> QED BY <2>1, <2>2, <2>3, <2>4
<1>8. \A d \in LaunchCalls : launchCalls'[d].step \in Working =>
        playerChain' # <<>> /\ playerChain'[1] = d
  <2> SUFFICES ASSUME NEW d \in LaunchCalls, launchCalls'[d].step \in Working
               PROVE  playerChain' # <<>> /\ playerChain'[1] = d
    OBVIOUS
  <2>1. d # c /\ launchCalls[d].step \in Working
    BY <1>1 DEF Working, Stopping, Starting
  <2>2. playerChain # <<>> /\ playerChain[1] = d
    BY <2>1 DEF LaunchIInv, ChainWorksAtHead
  <2>3. n # 0
    BY <1>2, <2>2 DEF LaunchIInv, ChainTyped
  <2>4. 1 \in 1 .. n
    BY <2>3
  <2> QED BY <1>3, <2>2, <2>4
<1>9. ChainWorksAtHead'
  BY <1>3, <1>6, <1>7, <1>8 DEF ChainWorksAtHead
<1>10. ManagedTyped' /\ OneIsManaged' /\ ManagedAreWhole'
  BY <1>1 DEF LaunchIInv, ManagedTyped, OneIsManaged, ManagedAreWhole, At
<1>11. WorkFits'
  BY <1>1 DEF LaunchIInv, WorkFits, At, Stopping, Starting, IdsManaged
<1>12. ListenersAreKnown'
  <2>1. launchCalls[c].step \notin Stopping \cup {"player listens", "giving up"}
    BY <1>1 DEF Stopping
  <2> QED BY <1>1, <2>1, ListenersStayKnown
<1> QED BY <1>4, <1>9, <1>10, <1>11, <1>12 DEF LaunchIInv

LEMMA LaunchBegins ==
  ASSUME LaunchIInv, NEW c \in LaunchCalls, Begins(c)
  PROVE  LaunchIInv'
<1>1. Runs(c) /\ launchCalls[c].step = "asked" /\ UNCHANGED <<managedPlayers, opened>>
  BY DEF Begins, On, At
<1>2. ManagedTyped' /\ OneIsManaged'
  BY <1>1 DEF LaunchIInv, ManagedTyped, OneIsManaged
<1>3. CASE \E answer : Settles(c, answer)
  <2>1. /\ ChainTyped' /\ ChainWorksAtHead' /\ launchCalls'[c].step = "over"
        /\ \A d \in LaunchCalls : d # c => launchCalls'[d] = launchCalls[d]
        /\ \A d \in LaunchCalls : launchCalls'[d].step \notin Working
    BY <1>1, <1>3, WorkSettles
  <2>2. ManagedAreWhole'
    BY <1>1, <2>1 DEF LaunchIInv, ManagedAreWhole, At, ManagedTyped
  <2>3. WorkFits'
    BY <2>1 DEF WorkFits, At, Working, Stopping, Starting
  <2>4. ListenersAreKnown'
    BY <1>1, <2>1, ListenersStayKnown DEF Stopping
  <2> QED BY <1>2, <2>1, <2>2, <2>3, <2>4 DEF LaunchIInv
<1>4. CASE ~\E answer : Settles(c, answer)
  <2> DEFINE ids == IF launchCalls[c].op = "close" THEN {launchCalls[c].playtest} \cap IdsManaged
                    ELSE IdsManaged
             call == [launchCalls[c] EXCEPT !.step = "closing", !.closing = ids]
  <2>1. launchCalls' = [launchCalls EXCEPT ![c].step = "closing", ![c].closing = ids]
        /\ UNCHANGED playerChain
    BY <1>4 DEF Begins
  <2>2. launchCalls[c] \in LaunchRecords
    BY <1>1, HeadWorks
  <2>3. call \in LaunchRecords /\ call.step = "closing" /\ call.closing = ids
        /\ call.op = launchCalls[c].op
    BY <2>2 DEF LaunchRecords, LaunchSteps, Working, IdsManaged
  <2>4. launchCalls' = [launchCalls EXCEPT ![c] = call]
    BY <2>1, <2>2 DEF LaunchIInv, ChainTyped, LaunchRecords
  <2>5. call.op = "launch" => call.closing = IdsManaged
    BY <2>3
  <2> HIDE DEF call, ids
  <2>6. /\ ChainTyped' /\ ChainWorksAtHead' /\ launchCalls'[c] = call
        /\ \A d \in LaunchCalls : d # c => launchCalls'[d] = launchCalls[d]
    BY <1>1, <2>1, <2>3, <2>4, WorkGoesOn DEF Working
  <2>7. ManagedAreWhole'
    BY <1>1, <2>3, <2>6 DEF LaunchIInv, ManagedAreWhole, At, ManagedTyped
  <2>8. WorkFits'
    BY <1>1, <2>3, <2>5, <2>6 DEF LaunchIInv, WorkFits, At, Stopping, Starting, IdsManaged
  <2>9. ListenersAreKnown'
    BY <1>1, <2>6, ListenersStayKnown DEF Stopping
  <2> QED BY <1>2, <2>6, <2>7, <2>8, <2>9 DEF LaunchIInv
<1> QED BY <1>3, <1>4

LEMMA WorkProceeds ==
  ASSUME LaunchIInv, NEW c \in LaunchCalls, Runs(c), NEW step \in Working, Proceeds(c, step)
  PROVE  /\ ChainTyped' /\ ChainWorksAtHead'
         /\ launchCalls'[c] = [launchCalls[c] EXCEPT !.step = step]
         /\ launchCalls'[c].step = step /\ launchCalls'[c].stops = launchCalls[c].stops
         /\ launchCalls'[c].op = launchCalls[c].op
         /\ launchCalls'[c].closing = launchCalls[c].closing
         /\ \A d \in LaunchCalls : d # c => launchCalls'[d] = launchCalls[d]
<1> DEFINE call == [launchCalls[c] EXCEPT !.step = step]
<1>1. launchCalls[c] \in LaunchRecords
  BY HeadWorks
<1>2. /\ call \in LaunchRecords /\ call.step = step /\ call.stops = launchCalls[c].stops
      /\ call.op = launchCalls[c].op /\ call.closing = launchCalls[c].closing
  BY <1>1 DEF LaunchRecords, LaunchSteps
<1>3. launchCalls' = [launchCalls EXCEPT ![c] = call] /\ UNCHANGED playerChain
  BY DEF Proceeds
<1> HIDE DEF call
<1>4. /\ ChainTyped' /\ ChainWorksAtHead' /\ launchCalls'[c] = call
      /\ \A d \in LaunchCalls : d # c => launchCalls'[d] = launchCalls[d]
  BY <1>2, <1>3, WorkGoesOn
<1> QED BY <1>2, <1>4 DEF call

LEMMA HeadIsNotManaged ==
  ASSUME LaunchIInv, NEW c \in LaunchCalls, Runs(c)
  PROVE  ~Manages(c)
<1>1. launchCalls[c].step # "over"
  BY HeadWorks DEF Working, Stopping, Starting
<1> QED BY <1>1, NoPlayerAssumption DEF LaunchIInv, ManagedAreWhole, At, Manages

\* Past its closing the head works on its own: there is no player in the map, and the
\* only servers are those it stops or starts.
LEMMA HeadWorksAlone ==
  ASSUME LaunchIInv, NEW c \in LaunchCalls, Runs(c), launchCalls[c].step \in Stopping \cup Starting
  PROVE  /\ IdsManaged = {} /\ \A d \in LaunchCalls : ~Manages(d)
         /\ \A d \in LaunchCalls : <<"player", d>> \in opened =>
              launchCalls[c].step = "stopping player" /\ launchCalls[c].stops = d
         /\ \A d \in LaunchCalls : <<"runtime", d>> \in opened =>
              \/ launchCalls[c].step \in Stopping /\ launchCalls[c].stops = d
              \/ launchCalls[c].step \in {"player listens", "giving up"} /\ d = c
<1>1. IdsManaged = {}
  BY DEF LaunchIInv, WorkFits
<1>2. \A d \in LaunchCalls : ~Manages(d)
  BY <1>1, NoPlayerAssumption DEF Manages, IdsManaged
<1>3. \A d \in LaunchCalls : launchCalls[d].step \in Working => d = c
  BY HeadWorks
<1>4. ASSUME NEW d \in LaunchCalls, <<"player", d>> \in opened
      PROVE  launchCalls[c].step = "stopping player" /\ launchCalls[c].stops = d
  <2>1. PICK h \in LaunchCalls :
          launchCalls[h].step = "stopping player" /\ launchCalls[h].stops = d
    BY <1>2, <1>4 DEF LaunchIInv, ListenersAreKnown, At
  <2> QED BY <1>3, <2>1 DEF Working, Stopping
<1>5. ASSUME NEW d \in LaunchCalls, <<"runtime", d>> \in opened
      PROVE  \/ launchCalls[c].step \in Stopping /\ launchCalls[c].stops = d
             \/ launchCalls[c].step \in {"player listens", "giving up"} /\ d = c
  <2>1. CASE launchCalls[d].step \in {"player listens", "giving up"}
    BY <1>3, <2>1 DEF Working, Starting
  <2>2. CASE launchCalls[d].step \notin {"player listens", "giving up"}
    <3>1. PICK h \in LaunchCalls : launchCalls[h].step \in Stopping /\ launchCalls[h].stops = d
      BY <1>2, <1>5, <2>2 DEF LaunchIInv, ListenersAreKnown, At
    <3> QED BY <1>3, <3>1 DEF Working
  <2> QED BY <2>1, <2>2
<1> QED BY <1>1, <1>2, <1>4, <1>5

LEMMA NobodyStaysManaged ==
  ASSUME LaunchIInv, NEW c \in LaunchCalls, Runs(c), UNCHANGED managedPlayers,
         launchCalls[c].step \in Stopping \cup Starting
  PROVE  ManagedTyped' /\ OneIsManaged' /\ ManagedAreWhole' /\ IdsManaged' = {}
<1>1. IdsManaged = {}
  BY HeadWorksAlone
<1>2. \A p \in Playtests : managedPlayers'[p] = NoPlayer
  BY <1>1 DEF IdsManaged
<1> QED BY <1>2 DEF LaunchIInv, ManagedTyped, OneIsManaged, ManagedAreWhole, IdsManaged

LEMMA WorkFitsAtHead ==
  ASSUME LaunchIInv, NEW c \in LaunchCalls, Runs(c),
         \A d \in LaunchCalls : d # c => launchCalls'[d] = launchCalls[d],
         At(c, "closing")' /\ launchCalls'[c].op = "launch" => (IdsManaged \subseteq launchCalls[c].closing)',
         launchCalls'[c].step \in Stopping \cup Starting => IdsManaged' = {},
         launchCalls'[c].step = "runtime listens" => Of(Handles, c) \subseteq opened',
         launchCalls'[c].step = "player listens" => Of({"runtime"} \cup Handles, c) \subseteq opened'
  PROVE  WorkFits'
<1>1. \A d \in LaunchCalls : d # c => launchCalls'[d].step \notin Working
  BY HeadWorks
<1> QED BY <1>1 DEF WorkFits, At, Working, Stopping, Starting

LEMMA NothingWorksFits ==
  ASSUME \A d \in LaunchCalls : launchCalls'[d].step \notin Working
  PROVE  WorkFits'
BY DEF WorkFits, At, Working, Stopping, Starting

\* The head is over, or goes on, past its closing.
LEMMA AloneItSettles ==
  ASSUME LaunchIInv, NEW c \in LaunchCalls, Runs(c), launchCalls[c].step \in Stopping \cup Starting,
         UNCHANGED managedPlayers, NEW answer, Settles(c, answer),
         \A d \in LaunchCalls : <<"player", d>> \notin opened' /\ <<"runtime", d>> \notin opened'
  PROVE  LaunchIInv'
<1>1. ListenersAreKnown'
  BY DEF ListenersAreKnown
<1> QED BY <1>1, WorkSettles, NobodyStaysManaged, NothingWorksFits DEF LaunchIInv

LEMMA AloneItProceeds ==
  ASSUME LaunchIInv, NEW c \in LaunchCalls, Runs(c), launchCalls[c].step \in Stopping \cup Starting,
         UNCHANGED managedPlayers, NEW step \in Working, Proceeds(c, step),
         \A d \in LaunchCalls : <<"player", d>> \notin opened',
         \A d \in LaunchCalls : <<"runtime", d>> \in opened' =>
           \/ step \in Stopping /\ launchCalls[c].stops = d
           \/ step \in {"player listens", "giving up"} /\ d = c,
         step = "runtime listens" => Of(Handles, c) \subseteq opened',
         step = "player listens" => Of({"runtime"} \cup Handles, c) \subseteq opened'
  PROVE  LaunchIInv'
<1>1. /\ ChainTyped' /\ ChainWorksAtHead' /\ launchCalls'[c].step = step
      /\ launchCalls'[c].stops = launchCalls[c].stops
      /\ \A d \in LaunchCalls : d # c => launchCalls'[d] = launchCalls[d]
  BY WorkProceeds
<1>2. ManagedTyped' /\ OneIsManaged' /\ ManagedAreWhole' /\ IdsManaged' = {}
  BY NobodyStaysManaged
<1>3. ListenersAreKnown'
  BY <1>1 DEF ListenersAreKnown, At
<1>4. WorkFits'
  BY <1>1, <1>2, WorkFitsAtHead
<1> QED BY <1>1, <1>2, <1>3, <1>4 DEF LaunchIInv

LEMMA LaunchPlayerStops ==
  ASSUME LaunchIInv, NEW c \in LaunchCalls, PlayerStops(c)
  PROVE  LaunchIInv'
<1>1. Runs(c) /\ launchCalls[c].step = "stopping player" /\ UNCHANGED managedPlayers
  BY DEF PlayerStops, On, At
<1>2. launchCalls[c].step \in Stopping \cup Starting
  BY <1>1 DEF Stopping
<1>3. \A k, d : <<k, d>> \in opened' <=>
                  <<k, d>> \in opened /\ ~(k = "player" /\ d = launchCalls[c].stops)
  <2> TAKE k, d
  <2>1. <<k, d>> \in Of({"player"}, launchCalls[c].stops)
          <=> k \in {"player"} /\ d = launchCalls[c].stops
    BY OfHas
  <2>2. <<k, d>> \in opened' <=>
          <<k, d>> \in opened /\ <<k, d>> \notin Of({"player"}, launchCalls[c].stops)
    BY DEF PlayerStops
  <2> QED BY <2>1, <2>2
<1>4. \A d \in LaunchCalls : <<"player", d>> \notin opened'
  BY <1>1, <1>2, <1>3, HeadWorksAlone
<1>5. \A d \in LaunchCalls : <<"runtime", d>> \in opened' => launchCalls[c].stops = d
  BY <1>1, <1>2, <1>3, HeadWorksAlone
<1>6. "stopping runtime" \in Working /\ "stopping runtime" \in Stopping
  BY DEF Working, Stopping
<1> QED BY <1>1, <1>2, <1>4, <1>5, <1>6, AloneItProceeds DEF PlayerStops

LEMMA LaunchRuntimeStops ==
  ASSUME LaunchIInv, NEW c \in LaunchCalls, RuntimeStops(c)
  PROVE  LaunchIInv'
<1>1. Runs(c) /\ launchCalls[c].step = "stopping runtime" /\ UNCHANGED managedPlayers
  BY DEF RuntimeStops, On, At
<1>2. launchCalls[c].step \in Stopping \cup Starting
  BY <1>1 DEF Stopping
<1>3. PICK left \in SUBSET Handles :
        /\ opened' = opened \ Of({"runtime"} \cup (Handles \ left), launchCalls[c].stops)
        /\ IF left = {} THEN Proceeds(c, "closing") ELSE Settles(c, "thrown")
  BY DEF RuntimeStops
<1>4. /\ \A k, d : <<k, d>> \in opened' => <<k, d>> \in opened
      /\ <<"runtime", launchCalls[c].stops>> \notin opened'
  BY <1>3, OfHas
<1>5. \A d \in LaunchCalls : <<"player", d>> \notin opened' /\ <<"runtime", d>> \notin opened'
  BY <1>1, <1>2, <1>4, HeadWorksAlone
<1>6. "closing" \in Working
  BY DEF Working
<1>7. CASE Proceeds(c, "closing")
  BY <1>1, <1>2, <1>5, <1>6, <1>7, AloneItProceeds
<1>8. CASE Settles(c, "thrown")
  BY <1>1, <1>2, <1>5, <1>8, AloneItSettles
<1> QED BY <1>3, <1>7, <1>8

LEMMA LaunchOpensControl ==
  ASSUME LaunchIInv, NEW c \in LaunchCalls, OpensControl(c)
  PROVE  LaunchIInv'
<1>1. Runs(c) /\ launchCalls[c].step = "starting" /\ UNCHANGED managedPlayers
  BY DEF OpensControl, On, At
<1>2. launchCalls[c].step \in Stopping \cup Starting
  BY <1>1 DEF Starting
<1>3. \A k \in {"player", "runtime"} : \A d : <<k, d>> \in opened' => <<k, d>> \in opened
  BY OfHas DEF OpensControl
<1>4. \A d \in LaunchCalls : <<"player", d>> \notin opened' /\ <<"runtime", d>> \notin opened'
  BY <1>1, <1>2, <1>3, HeadWorksAlone DEF Stopping
<1>5. "reading" \in Working
  BY DEF Working, Starting
<1>6. CASE Proceeds(c, "reading")
  BY <1>1, <1>2, <1>4, <1>5, <1>6, AloneItProceeds
<1>7. CASE Settles(c, "thrown")
  BY <1>1, <1>2, <1>4, <1>7, AloneItSettles
<1> QED BY <1>6, <1>7 DEF OpensControl

LEMMA LaunchReadsPlaytest ==
  ASSUME LaunchIInv, NEW c \in LaunchCalls, ReadsPlaytest(c)
  PROVE  LaunchIInv'
<1>1. Runs(c) /\ launchCalls[c].step = "reading" /\ UNCHANGED managedPlayers
  BY DEF ReadsPlaytest, On, At
<1>2. launchCalls[c].step \in Stopping \cup Starting
  BY <1>1 DEF Starting
<1>3. \A k \in {"player", "runtime"} : \A d : <<k, d>> \in opened' => <<k, d>> \in opened
  BY OfHas DEF ReadsPlaytest
<1>4. \A d \in LaunchCalls : <<"player", d>> \notin opened' /\ <<"runtime", d>> \notin opened'
  BY <1>1, <1>2, <1>3, HeadWorksAlone DEF Stopping
<1>5. "importing" \in Working
  BY DEF Working, Starting
<1>6. CASE Proceeds(c, "importing")
  BY <1>1, <1>2, <1>4, <1>5, <1>6, AloneItProceeds
<1>7. CASE Settles(c, "refused")
  BY <1>1, <1>2, <1>4, <1>7, AloneItSettles
<1> QED BY <1>6, <1>7 DEF ReadsPlaytest

LEMMA LaunchOpensStorage ==
  ASSUME LaunchIInv, NEW c \in LaunchCalls, OpensStorage(c)
  PROVE  LaunchIInv'
<1>1. Runs(c) /\ launchCalls[c].step = "importing" /\ UNCHANGED managedPlayers
  BY DEF OpensStorage, On, At
<1>2. launchCalls[c].step \in Stopping \cup Starting
  BY <1>1 DEF Starting
<1>3. ASSUME \A k \in {"player", "runtime"} : \A d : <<k, d>> \in opened' => <<k, d>> \in opened
      PROVE  \A d \in LaunchCalls : <<"player", d>> \notin opened' /\ <<"runtime", d>> \notin opened'
  BY <1>1, <1>2, <1>3, HeadWorksAlone DEF Stopping
<1>4. CASE Settles(c, "refused") /\ \E some \in {{}, {"raw"}, {"raw", "guest"}} :
             opened' = (opened \ Of({"control"}, c)) \cup Of(some, c)
  <2>1. PICK some \in {{}, {"raw"}, {"raw", "guest"}} :
             opened' = (opened \ Of({"control"}, c)) \cup Of(some, c)
    BY <1>4
  <2>2. "player" \notin some /\ "runtime" \notin some
    OBVIOUS
  <2>3. \A k \in {"player", "runtime"} : \A d : <<k, d>> \in opened' => <<k, d>> \in opened
    BY <2>1, <2>2, OfHas
  <2> QED BY <1>1, <1>2, <1>3, <1>4, <2>3, AloneItSettles
<1>5. CASE opened' = opened \cup Of(Handles, c) /\ Proceeds(c, "runtime listens")
  <2>1. "player" \notin Handles /\ "runtime" \notin Handles
    BY DEF Handles
  <2>2. \A k \in {"player", "runtime"} : \A d : <<k, d>> \in opened' => <<k, d>> \in opened
    BY <1>5, <2>1, OfHas
  <2>3. "runtime listens" \in Working /\ Of(Handles, c) \subseteq opened'
    BY <1>5 DEF Working, Starting
  <2> QED BY <1>1, <1>2, <1>3, <1>5, <2>2, <2>3, AloneItProceeds
<1> QED BY <1>4, <1>5 DEF OpensStorage

LEMMA LaunchRuntimeListens ==
  ASSUME LaunchIInv, NEW c \in LaunchCalls, RuntimeListens(c)
  PROVE  LaunchIInv'
<1>1. Runs(c) /\ launchCalls[c].step = "runtime listens" /\ UNCHANGED managedPlayers
  BY DEF RuntimeListens, On, At
<1>2. launchCalls[c].step \in Stopping \cup Starting
  BY <1>1 DEF Starting
<1>3. /\ \A d \in LaunchCalls : <<"player", d>> \notin opened /\ <<"runtime", d>> \notin opened
      /\ Of(Handles, c) \subseteq opened
  BY <1>1, <1>2, HeadWorksAlone DEF Stopping, LaunchIInv, WorkFits, At
<1>4. CASE opened' = opened \cup Of({"runtime"}, c) /\ Proceeds(c, "player listens")
  <2>1. \A k, d : <<k, d>> \in opened' <=> <<k, d>> \in opened \/ (k = "runtime" /\ d = c)
    <3> TAKE k, d
    <3>1. <<k, d>> \in Of({"runtime"}, c) <=> k \in {"runtime"} /\ d = c
      BY OfHas
    <3>2. <<k, d>> \in opened' <=> <<k, d>> \in opened \/ <<k, d>> \in Of({"runtime"}, c)
      BY <1>4
    <3> QED BY <3>1, <3>2
  <2>2. Of({"runtime"} \cup Handles, c) \subseteq opened'
    BY <1>3, <2>1, OfIsIn
  <2>3. /\ \A d \in LaunchCalls : <<"player", d>> \notin opened'
        /\ \A d \in LaunchCalls : <<"runtime", d>> \in opened' => d = c
    BY <1>3, <2>1
  <2>4. "player listens" \in Working
    BY DEF Working, Starting
  <2> QED BY <1>1, <1>2, <1>4, <2>2, <2>3, <2>4, AloneItProceeds
<1>5. CASE opened' = opened \ Of(Handles, c) /\ Settles(c, "refused")
  BY <1>1, <1>2, <1>3, <1>5, AloneItSettles
<1> QED BY <1>4, <1>5 DEF RuntimeListens

LEMMA LaunchGivesUp ==
  ASSUME LaunchIInv, NEW c \in LaunchCalls, GivesUp(c)
  PROVE  LaunchIInv'
<1>1. Runs(c) /\ launchCalls[c].step = "giving up" /\ UNCHANGED managedPlayers
  BY DEF GivesUp, On, At
<1>2. launchCalls[c].step \in Stopping \cup Starting
  BY <1>1 DEF Starting
<1>3. \A d \in LaunchCalls : <<"player", d>> \notin opened /\ (<<"runtime", d>> \in opened => d = c)
  BY <1>1, <1>2, HeadWorksAlone DEF Stopping
<1>4. /\ \A k, d : <<k, d>> \in opened' => <<k, d>> \in opened
      /\ <<"runtime", c>> \notin opened'
  BY OfHas DEF GivesUp
<1> QED BY <1>1, <1>2, <1>3, <1>4, AloneItSettles DEF GivesUp

LEMMA LaunchPlayerListens ==
  ASSUME LaunchIInv, NEW c \in LaunchCalls, PlayerListens(c)
  PROVE  LaunchIInv'
<1>1. Runs(c) /\ launchCalls[c].step = "player listens"
  BY DEF PlayerListens, On, At
<1>2. launchCalls[c].step \in Stopping \cup Starting
  BY <1>1 DEF Starting
<1>3. /\ \A d \in LaunchCalls : <<"player", d>> \notin opened /\ (<<"runtime", d>> \in opened => d = c)
      /\ Of({"runtime"} \cup Handles, c) \subseteq opened
      /\ IdsManaged = {}
  BY <1>1, <1>2, HeadWorksAlone DEF Stopping, LaunchIInv, WorkFits, At
<1>4. CASE Proceeds(c, "giving up") /\ UNCHANGED <<managedPlayers, opened>>
  <2>1. "giving up" \in Working
    BY DEF Working, Starting
  <2> QED BY <1>1, <1>2, <1>3, <1>4, <2>1, AloneItProceeds
<1>5. CASE /\ opened' = opened \cup Of({"player"}, c)
           /\ managedPlayers' = [managedPlayers EXCEPT ![launchCalls[c].playtest] = c]
           /\ Settles(c, c)
  <2> DEFINE p == launchCalls[c].playtest
  <2>1. p \in Playtests
    BY <1>1, HeadWorks DEF LaunchRecords
  <2>2. /\ ChainTyped' /\ ChainWorksAtHead' /\ launchCalls'[c].step = "over"
        /\ \A d \in LaunchCalls : launchCalls'[d].step \notin Working
    BY <1>1, <1>5, WorkSettles
  <2>3. \A q \in Playtests : managedPlayers'[q] = IF q = p THEN c ELSE NoPlayer
    BY <1>3, <1>5 DEF LaunchIInv, ManagedTyped, IdsManaged
  <2>4. ManagedTyped'
    BY <1>5, <2>1 DEF LaunchIInv, ManagedTyped
  <2>5. \A k, d : <<k, d>> \in opened' <=> <<k, d>> \in opened \/ (k = "player" /\ d = c)
    <3> TAKE k, d
    <3>1. <<k, d>> \in Of({"player"}, c) <=> k \in {"player"} /\ d = c
      BY OfHas
    <3>2. <<k, d>> \in opened' <=> <<k, d>> \in opened \/ <<k, d>> \in Of({"player"}, c)
      BY <1>5
    <3> QED BY <3>1, <3>2
  <2>6. Of({"player", "runtime"} \cup Handles, c) \subseteq opened'
    BY <1>3, <2>5, OfIsIn
  <2> HIDE DEF p
  <2>7. OneIsManaged' /\ ManagedAreWhole'
    BY <2>2, <2>3, <2>6 DEF OneIsManaged, ManagedAreWhole, At
  <2>8. Manages(c)'
    BY <2>1, <2>3 DEF Manages
  <2>9. ListenersAreKnown'
    BY <1>3, <2>5, <2>8 DEF ListenersAreKnown
  <2> QED BY <2>2, <2>4, <2>7, <2>9, NothingWorksFits DEF LaunchIInv
<1> QED BY <1>4, <1>5 DEF PlayerListens

LEMMA LaunchCloses ==
  ASSUME LaunchIInv, NEW c \in LaunchCalls, Closed(c)
  PROVE  LaunchIInv'
<1>1. /\ Runs(c) /\ launchCalls[c].step = "closing" /\ launchCalls[c].closing = {}
      /\ UNCHANGED <<managedPlayers, opened>>
  BY DEF Closed, On, At
<1>2. launchCalls[c].step \notin Stopping \cup {"player listens", "giving up"}
  BY <1>1 DEF Stopping
<1>3. ManagedTyped' /\ OneIsManaged'
  BY <1>1 DEF LaunchIInv, ManagedTyped, OneIsManaged
<1>4. ASSUME \A d \in LaunchCalls : d # c => launchCalls'[d] = launchCalls[d]
      PROVE  ManagedAreWhole' /\ ListenersAreKnown'
  <2>1. ListenersAreKnown'
    BY <1>1, <1>2, <1>4, ListenersStayKnown
  <2>2. \A p \in Playtests : managedPlayers[p] # c
    BY <1>1, HeadIsNotManaged DEF Manages
  <2>3. ManagedAreWhole'
    BY <1>1, <1>4, <2>2 DEF LaunchIInv, ManagedAreWhole, ManagedTyped, At
  <2> QED BY <2>1, <2>3
<1>5. CASE Settles(c, "closed")
  BY <1>1, <1>3, <1>4, <1>5, WorkSettles, NothingWorksFits DEF LaunchIInv
<1>6. CASE launchCalls[c].op = "launch" /\ Proceeds(c, "starting")
  <2>1. "starting" \in Working
    BY DEF Working, Starting
  <2>2. /\ ChainTyped' /\ ChainWorksAtHead' /\ launchCalls'[c].step = "starting"
        /\ \A d \in LaunchCalls : d # c => launchCalls'[d] = launchCalls[d]
    BY <1>1, <1>6, <2>1, WorkProceeds
  <2>3. IdsManaged = {}
    BY <1>1, <1>6 DEF LaunchIInv, WorkFits, At
  <2>4. IdsManaged' = {}
    BY <1>1, <2>3 DEF IdsManaged
  <2>5. WorkFits'
    BY <1>1, <2>2, <2>4, WorkFitsAtHead DEF At
  <2> QED BY <1>3, <1>4, <2>2, <2>5 DEF LaunchIInv
<1> QED BY <1>5, <1>6 DEF Closed

LEMMA LaunchForgets ==
  ASSUME LaunchIInv, NEW c \in LaunchCalls, Forgets(c)
  PROVE  LaunchIInv'
<1>1. Runs(c) /\ launchCalls[c].step = "closing" /\ launchCalls[c] \in LaunchRecords
      /\ UNCHANGED <<playerChain, opened>>
  BY HeadWorks DEF Forgets, On, At
<1>2. PICK p \in launchCalls[c].closing :
        /\ launchCalls' = [launchCalls EXCEPT
             ![c].step = IF managedPlayers[p] = NoPlayer THEN "closing" ELSE "stopping player",
             ![c].closing = @ \ {p}, ![c].stops = managedPlayers[p]]
        /\ managedPlayers' = [managedPlayers EXCEPT ![p] = NoPlayer]
  BY DEF Forgets
<1>3. p \in Playtests
  BY <1>1 DEF LaunchRecords
<1> DEFINE m == managedPlayers[p]
           step == IF m = NoPlayer THEN "closing" ELSE "stopping player"
           call == [launchCalls[c] EXCEPT !.step = step, !.closing = @ \ {p}, !.stops = m]
<1>4. m \in LaunchCalls \cup {NoPlayer}
  BY <1>3 DEF LaunchIInv, ManagedTyped
<1>5. /\ call \in LaunchRecords /\ call.step = step /\ call.stops = m
      /\ call.op = launchCalls[c].op /\ call.closing = launchCalls[c].closing \ {p}
  BY <1>1, <1>4 DEF LaunchRecords, LaunchSteps, Working, Stopping
<1>6. launchCalls' = [launchCalls EXCEPT ![c] = call]
  BY <1>1, <1>2 DEF LaunchIInv, ChainTyped, LaunchRecords
<1>7. step \in Working /\ (m = NoPlayer => step = "closing")
      /\ (m # NoPlayer => step = "stopping player")
  BY DEF Working, Stopping
<1> HIDE DEF call, step
<1>8. /\ ChainTyped' /\ ChainWorksAtHead' /\ launchCalls'[c] = call
      /\ \A d \in LaunchCalls : d # c => launchCalls'[d] = launchCalls[d]
  BY <1>1, <1>5, <1>6, <1>7, WorkGoesOn
<1>9. ManagedTyped' /\ \A q \in Playtests : managedPlayers'[q] = IF q = p THEN NoPlayer
                                                                 ELSE managedPlayers[q]
  BY <1>2, <1>3 DEF LaunchIInv, ManagedTyped
<1>10. OneIsManaged'
  BY <1>9 DEF LaunchIInv, OneIsManaged
<1>11. ManagedAreWhole'
  <2>1. \A q \in Playtests : managedPlayers[q] # c
    BY <1>1, HeadIsNotManaged DEF Manages
  <2>2. \A q \in Playtests : managedPlayers[q] \in LaunchCalls \cup {NoPlayer}
    BY DEF LaunchIInv, ManagedTyped
  <2> QED BY <1>1, <1>8, <1>9, <2>1, <2>2 DEF LaunchIInv, ManagedAreWhole, At
<1>12. CASE m = NoPlayer
  <2>1. managedPlayers' = managedPlayers
    BY <1>2, <1>3, <1>12 DEF LaunchIInv, ManagedTyped
  <2>2. ListenersAreKnown'
    BY <1>1, <1>8, <2>1, ListenersStayKnown DEF Stopping
  <2>3. launchCalls[c].op = "launch" => IdsManaged \subseteq launchCalls[c].closing \ {p}
    BY <1>1, <1>12 DEF LaunchIInv, WorkFits, At, IdsManaged
  <2>4. IdsManaged' = IdsManaged
    BY <2>1 DEF IdsManaged
  <2>5. WorkFits'
    BY <1>1, <1>5, <1>7, <1>8, <1>12, <2>3, <2>4, WorkFitsAtHead DEF Stopping, Starting
  <2> QED BY <1>8, <1>9, <1>10, <1>11, <2>2, <2>5 DEF LaunchIInv
<1>13. CASE m # NoPlayer
  <2>1. IdsManaged' = {}
    BY <1>3, <1>9, <1>13 DEF LaunchIInv, OneIsManaged, IdsManaged
  <2>2. WorkFits'
    BY <1>1, <1>5, <1>7, <1>8, <1>13, <2>1, WorkFitsAtHead DEF At
  <2>3. \A d \in LaunchCalls : Manages(d) => d = m
    BY <1>3, <1>13, NoPlayerAssumption DEF LaunchIInv, OneIsManaged, Manages
  <2>4. \A d \in LaunchCalls : launchCalls[d].step \notin Stopping \cup Starting
    BY <1>1, HeadWorks DEF Working, Stopping, Starting
  <2>5. ASSUME NEW d \in LaunchCalls, <<"player", d>> \in opened \/ <<"runtime", d>> \in opened
        PROVE  d = m
    BY <2>3, <2>4, <2>5 DEF LaunchIInv, ListenersAreKnown, At, Stopping, Starting
  <2>6. launchCalls'[c].step = "stopping player" /\ launchCalls'[c].stops = m
    BY <1>5, <1>7, <1>8, <1>13
  <2>7. ListenersAreKnown'
    BY <1>1, <2>5, <2>6 DEF ListenersAreKnown, At, Stopping
  <2> QED BY <1>8, <1>9, <1>10, <1>11, <2>2, <2>7 DEF LaunchIInv
<1> QED BY <1>12, <1>13

LEMMA LaunchStep == LaunchIInv /\ [LaunchNext]_launchVars => LaunchIInv'
<1> SUFFICES ASSUME LaunchIInv, [LaunchNext]_launchVars PROVE LaunchIInv'
  OBVIOUS
<1>1. CASE UNCHANGED launchVars
  <2>1. ManagedTyped' /\ ChainTyped' /\ ChainWorksAtHead' /\ OneIsManaged' /\ ManagedAreWhole'
    BY <1>1 DEF launchVars, LaunchIInv, ManagedTyped, ChainTyped, ChainWorksAtHead, OneIsManaged,
                ManagedAreWhole, At
  <2>2. WorkFits'
    BY <1>1 DEF launchVars, LaunchIInv, WorkFits, At, IdsManaged
  <2>3. ListenersAreKnown'
    BY <1>1 DEF launchVars, LaunchIInv, ListenersAreKnown, At, Manages
  <2> QED BY <2>1, <2>2, <2>3 DEF LaunchIInv
<1>2. ASSUME NEW c \in LaunchCalls,
             \/ Asks(c) \/ Begins(c) \/ Forgets(c) \/ PlayerStops(c) \/ RuntimeStops(c)
             \/ Closed(c) \/ OpensControl(c)
      PROVE  LaunchIInv'
  BY <1>2, LaunchIsAsked, LaunchBegins, LaunchForgets, LaunchPlayerStops, LaunchRuntimeStops,
     LaunchCloses, LaunchOpensControl
<1>3. ASSUME NEW c \in LaunchCalls,
             \/ ReadsPlaytest(c) \/ OpensStorage(c) \/ RuntimeListens(c) \/ PlayerListens(c)
             \/ GivesUp(c)
      PROVE  LaunchIInv'
  BY <1>3, LaunchReadsPlaytest, LaunchOpensStorage, LaunchRuntimeListens, LaunchPlayerListens,
     LaunchGivesUp
<1> QED BY <1>1, <1>2, <1>3 DEF LaunchNext

\* A player that listens is in the map or being stopped by the one at work; both are one.
LEMMA OneListens == LaunchIInv => OnePlayerListens
<1> SUFFICES ASSUME LaunchIInv PROVE OnePlayerListens
  OBVIOUS
<1> DEFINE playing == {c \in LaunchCalls : <<"player", c>> \in opened}
           known == {managedPlayers[p] : p \in IdsManaged}
           serving == {c \in LaunchCalls : Of({"player", "runtime"}, c) \cap opened # {}}
<1>1. \A c, d \in playing : c = d
  <2>1. \A c, d \in LaunchCalls : Manages(c) /\ Manages(d) => c = d
    BY NoPlayerAssumption DEF LaunchIInv, OneIsManaged, Manages
  <2>2. ASSUME NEW h \in LaunchCalls, At(h, "stopping player")
        PROVE  \A c \in playing : c = launchCalls[h].stops
    <3>1. Runs(h)
      <4>1. launchCalls[h].step \in Working
        BY <2>2 DEF At, Working, Stopping
      <4> QED BY <4>1 DEF LaunchIInv, ChainWorksAtHead, Runs, ChainTyped
    <3> QED BY <2>2, <3>1, HeadWorksAlone DEF At, Stopping
  <2>3. \A c \in playing : Manages(c) \/ \E h \in LaunchCalls : At(h, "stopping player")
    BY DEF LaunchIInv, ListenersAreKnown
  <2> QED BY <2>1, <2>2, <2>3
<1>2. Cardinality(playing) <= 1
  <2>1. CASE playing = {}
    <3>1. Cardinality(playing) = 0
      BY <2>1, FS_EmptySet
    <3> QED BY <3>1
  <2>2. CASE playing # {}
    <3>1. PICK c \in playing : TRUE
      BY <2>2
    <3>2. playing = {c}
      BY <1>1, <3>1
    <3>3. Cardinality(playing) = 1
      BY <3>2, FS_Singleton
    <3> QED BY <3>3
  <2> QED BY <2>1, <2>2
<1>3. \A c \in known : Of({"player", "runtime"} \cup Handles, c) \subseteq opened
  BY DEF LaunchIInv, ManagedAreWhole, IdsManaged
<1>4. playerChain = <<>> => serving \subseteq known
  <2> SUFFICES ASSUME playerChain = <<>>, NEW c \in LaunchCalls,
                      Of({"player", "runtime"}, c) \cap opened # {}
               PROVE  c \in known
    OBVIOUS
  <2>1. \A d \in LaunchCalls : launchCalls[d].step \notin Working
    BY DEF LaunchIInv, ChainWorksAtHead
  <2>2. <<"player", c>> \in opened \/ <<"runtime", c>> \in opened
    <3>1. PICK s : s \in Of({"player", "runtime"}, c) /\ s \in opened
      OBVIOUS
    <3> QED BY <3>1 DEF Of
  <2>3. Manages(c)
    BY <2>1, <2>2 DEF LaunchIInv, ListenersAreKnown, At, Working, Stopping, Starting
  <2> QED BY <2>3, NoPlayerAssumption DEF Manages, IdsManaged
<1> QED BY <1>2, <1>3, <1>4 DEF OnePlayerListens

\* However launches and closings of players are asked for, and whichever step of one
\* fails: at most one player listens, a player in the map is whole, and when no
\* operation is left no server listens outside the map (launchFrozenPlayer,
\* closePlayer and closeAllPlayers of apps/player's launch.ts on their one chain).
THEOREM OnePlayerAtATime == LaunchSpec => []OnePlayerListens
BY LaunchInitially, LaunchStep, OneListens, PTL DEF LaunchSpec

-----------------------------------------------------------------------------
(* The Studio.  An edit that was submitted is at one place: with the        *)
(* handler that sends it, in the conflict that is offered again, or it is   *)
(* let go; and once it has landed, the handler that still carries it only   *)
(* reads.  An edit is named by the click that submits it, so one of a click *)
(* still to come is nowhere.                                                *)

Requests == {"draft", "versions", "assistant", "quests", "access", "compare", "trace",
             "restore", "references", "validate", "playtest", "launch", "author", "apply",
             "copy", "export", "logout", "build", "publish"}

\* The edit of this handler has landed: what it does now cannot make it a conflict.
OnlyReads(call) ==
  /\ call.fresh = 0
  /\ \/ call.todo = <<"save">> /\ call.state = "answered" /\ call.answer[1] \in {"ok", "error"}
     \/ call.todo \in {<<"versions", "assistant">>, <<"assistant">>}

\* What a handler that saves has still to send: the edit, or what is read afterwards.
SaveReads == {<<"draft", "versions", "assistant", "compare">>,
              <<"versions", "assistant", "compare">>, <<"assistant", "compare">>, <<"compare">>,
              <<"versions", "assistant">>, <<"assistant">>}

HandlerFits(call) ==
  \/ call = NotUsed
  \/ /\ {"op", "todo", "end", "state", "answer"} \subseteq DOMAIN call
     /\ call.op = "save" =>
          /\ {"edit", "fresh"} \subseteq DOMAIN call /\ call.edit \in Nat
          /\ call.todo \in SaveReads \/ (call.todo = <<"save">> /\ call.fresh = 0)
     /\ call.op # "save" => call.todo \in Seq(Requests) \ {<<>>}

Landed(e) == \E i \in DOMAIN server.landed : server.landed[i] = e
Carries(h, e) == handlers[h].op = "save" /\ handlers[h].edit = e

StudioFits ==
  /\ DOMAIN handlers = Handlers /\ \A h \in Handlers : HandlerFits(handlers[h])
  /\ "landed" \in DOMAIN server /\ server.landed \in Seq(Nat)
  /\ "conflict" \in DOMAIN ui /\ clicks \in Nat
  /\ ui.conflict # NotUsed => ui.conflict.edit \in Nat

Nowhere(e) ==
  /\ ~Landed(e) /\ \A h \in Handlers : ~Carries(h, e)
  /\ ui.conflict # NotUsed => ui.conflict.edit # e

OnePlace(e) ==
  /\ \A h, i \in Handlers : Carries(h, e) /\ Carries(i, e) => h = i
  /\ \A h \in Handlers : Carries(h, e) /\ Landed(e) => OnlyReads(handlers[h])
  /\ ui.conflict # NotUsed /\ ui.conflict.edit = e =>
       ~Landed(e) /\ \A h \in Handlers : ~Carries(h, e)
  /\ \A i, j \in DOMAIN server.landed :
       server.landed[i] = e /\ server.landed[j] = e => i = j
  /\ e > clicks => Nowhere(e)

StudioIInv == StudioFits /\ \A e \in Nat : OnePlace(e)

Counts == clicks' \in {clicks, clicks + 1}

LEMMA StudioInitially == StudioInit => StudioIInv
<1> SUFFICES ASSUME StudioInit PROVE StudioIInv OBVIOUS
<1>1. server.landed = <<>> /\ "landed" \in DOMAIN server BY DEF StudioInit
<1>2. \A h \in Handlers : handlers[h] = NotUsed BY DEF StudioInit
<1>3. "conflict" \in DOMAIN ui /\ ui.conflict = NotUsed
  BY DEF StudioInit, Cleared, Joined, With
<1>4. <<>> \in Seq(Nat) /\ DOMAIN <<>> = {} BY EmptySeq
<1>5. StudioFits BY <1>1, <1>2, <1>3, <1>4 DEF StudioFits, HandlerFits, StudioInit
<1>6. ASSUME NEW e \in Nat PROVE Nowhere(e)
  BY <1>1, <1>2, <1>3, <1>4 DEF Nowhere, Carries, Landed, NotUsed
<1> QED BY <1>1, <1>2, <1>3, <1>4, <1>5, <1>6 DEF StudioIInv, OnePlace, Carries, Landed, NotUsed

LEMMA Counting ==
  ASSUME StudioIInv, Counts
  PROVE  clicks' \in Nat /\ \A e \in Nat : e > clicks' => e > clicks /\ Nowhere(e)
BY DEF StudioIInv, StudioFits, OnePlace, Counts

\* A handler goes on, with its edit or without one, or ends; no edit lands.
GoesOnAs(h, call) ==
  /\ HandlerFits(call)
  /\ call.op = "save" => Carries(h, call.edit)
                         /\ (OnlyReads(handlers[h]) => OnlyReads(call))

LEMMA HandlerGoesOn ==
  ASSUME StudioIInv, Counts, NEW h \in Handlers, NEW call, GoesOnAs(h, call),
         handlers' = [handlers EXCEPT ![h] = call],
         "landed" \in DOMAIN server', server'.landed = server.landed,
         "conflict" \in DOMAIN ui', ui'.conflict \in {ui.conflict, NotUsed}
  PROVE  StudioIInv'
<1>1. /\ handlers'[h] = call
      /\ \A i \in Handlers : i # h => handlers'[i] = handlers[i]
      /\ DOMAIN handlers' = Handlers
  BY DEF StudioIInv, StudioFits
<1>2. StudioFits'
  BY <1>1, Counting DEF StudioIInv, StudioFits, HandlerFits, GoesOnAs
<1>3. ASSUME NEW e \in Nat PROVE OnePlace(e)'
  <2>1. \A i \in Handlers : Carries(i, e)' => Carries(i, e)
    BY <1>1 DEF Carries, GoesOnAs
  <2>2. Landed(e)' <=> Landed(e) BY DEF Landed
  <2>3. ASSUME NEW i \in Handlers, Carries(i, e)', Landed(e)' PROVE OnlyReads(handlers[i])'
    <3>1. OnlyReads(handlers[i]) BY <2>1, <2>2, <2>3 DEF StudioIInv, OnePlace
    <3>2. CASE i # h BY <1>1, <3>1, <3>2 DEF OnlyReads
    <3>3. CASE i = h
      <4>1. OnlyReads(call) BY <1>1, <2>3, <3>1, <3>3 DEF GoesOnAs, Carries
      <4> QED BY <1>1, <3>3, <4>1 DEF OnlyReads
    <3> QED BY <3>2, <3>3
  <2>4. \A i, j \in Handlers : Carries(i, e)' /\ Carries(j, e)' => i = j
    BY <2>1 DEF StudioIInv, OnePlace
  <2>5. ui'.conflict # NotUsed /\ ui'.conflict.edit = e =>
          ~Landed(e)' /\ \A i \in Handlers : ~Carries(i, e)'
    BY <2>1, <2>2 DEF StudioIInv, OnePlace
  <2>6. \A i, j \in DOMAIN server'.landed :
          server'.landed[i] = e /\ server'.landed[j] = e => i = j
    BY DEF StudioIInv, OnePlace
  <2>7. e > clicks' => Nowhere(e)'
    BY <2>1, <2>2, Counting DEF Nowhere
  <2> QED BY <2>3, <2>4, <2>5, <2>6, <2>7 DEF OnePlace
<1> QED BY <1>2, <1>3 DEF StudioIInv

\* Only what is shown changes.
LEMMA OnlyShown ==
  ASSUME StudioIInv, Counts, UNCHANGED handlers,
         "landed" \in DOMAIN server', server'.landed = server.landed,
         "conflict" \in DOMAIN ui', ui'.conflict \in {ui.conflict, NotUsed}
  PROVE  StudioIInv'
<1>1. StudioFits' BY Counting DEF StudioIInv, StudioFits, HandlerFits
<1>2. ASSUME NEW e \in Nat PROVE OnePlace(e)'
  <2>1. e > clicks' => Nowhere(e)'
    BY Counting DEF Nowhere, Carries, Landed
  <2> QED BY <2>1 DEF StudioIInv, OnePlace, Carries, Landed, OnlyReads
<1> QED BY <1>1, <1>2 DEF StudioIInv

\* A handler starts that carries no edit.
LEMMA OtherHandlerStarts ==
  ASSUME StudioIInv, Counts, NEW h \in Handlers, NEW call, NEW todo, NEW u,
         Starts(h, call, todo, u), "op" \in DOMAIN call, call.op # "save",
         {"todo", "state", "answer"} \cap DOMAIN call = {}, todo \in Seq(Requests) \ {<<>>},
         "conflict" \in DOMAIN u, u.conflict \in {ui.conflict, NotUsed}
  PROVE  StudioIInv'
<1>1. PICK x : x = Joined(call, [todo |-> todo, end |-> "idle", state |-> "sent", answer |-> <<>>])
  OBVIOUS
<1>2. handlers' = [handlers EXCEPT ![h] = x] /\ UNCHANGED server
  BY <1>1 DEF Starts, Sends, Clicked
<1>3. /\ {"op", "todo", "end", "state", "answer"} \subseteq DOMAIN x
      /\ x.op # "save" /\ x.todo = todo
  BY <1>1 DEF Joined
<1>4. GoesOnAs(h, x) BY <1>3 DEF GoesOnAs, HandlerFits
<1>5. "conflict" \in DOMAIN ui' /\ ui'.conflict = u.conflict
  BY DEF Starts, Sends, Asked
<1> QED BY <1>2, <1>4, <1>5, HandlerGoesOn DEF StudioIInv, StudioFits

\* A handler starts with an edit that is nowhere else.
LEMMA EditStarts ==
  ASSUME StudioIInv, Counts, NEW h \in Handlers, NEW e \in Nat, NEW form, NEW u,
         Starts(h, SaveCall(e, form), <<"save">>, u),
         "conflict" \in DOMAIN u, u.conflict \in {ui.conflict, NotUsed},
         ~Landed(e), \A i \in Handlers : ~Carries(i, e),
         u.conflict # NotUsed => u.conflict.edit # e, e <= clicks'
  PROVE  StudioIInv'
<1>1. PICK call : call = SaveCall(e, form) OBVIOUS
<1>2. PICK x : x = Joined(call, [todo |-> <<"save">>, end |-> "idle", state |-> "sent",
                                 answer |-> <<>>])
  OBVIOUS
<1>3. handlers' = [handlers EXCEPT ![h] = x] /\ UNCHANGED server
  BY <1>1, <1>2 DEF Starts, Sends, Clicked
<1>4. /\ {"op", "todo", "end", "state", "answer", "edit", "fresh"} \subseteq DOMAIN x
      /\ x.op = "save" /\ x.edit = e /\ x.todo = <<"save">> /\ x.fresh = 0
  BY <1>1, <1>2 DEF Joined, SaveCall
<1>5. /\ handlers'[h] = x
      /\ \A i \in Handlers : i # h => handlers'[i] = handlers[i]
      /\ DOMAIN handlers' = Handlers
  BY <1>3 DEF StudioIInv, StudioFits
<1>6. "conflict" \in DOMAIN ui' /\ ui'.conflict = u.conflict
  BY DEF Starts, Sends, Asked
<1>7. StudioFits'
  BY <1>3, <1>4, <1>5, <1>6, Counting DEF StudioIInv, StudioFits, HandlerFits
<1>8. ASSUME NEW f \in Nat PROVE OnePlace(f)'
  <2>1. Landed(f)' <=> Landed(f) BY <1>3 DEF Landed
  <2>2. \A i \in Handlers : Carries(i, f)' => Carries(i, f) \/ (i = h /\ f = e)
    BY <1>4, <1>5 DEF Carries
  <2>3. \A i, j \in Handlers : Carries(i, f)' /\ Carries(j, f)' => i = j
    BY <2>2 DEF StudioIInv, OnePlace
  <2>4. ASSUME NEW i \in Handlers, Carries(i, f)', Landed(f)' PROVE OnlyReads(handlers[i])'
    <3>1. Carries(i, f) BY <2>1, <2>2, <2>4
    <3>2. i # h BY <3>1 DEF Carries, Starts, NotUsed
    <3> QED BY <1>5, <2>1, <2>4, <3>1, <3>2 DEF StudioIInv, OnePlace, OnlyReads
  <2>5. ui'.conflict # NotUsed /\ ui'.conflict.edit = f =>
          ~Landed(f)' /\ \A i \in Handlers : ~Carries(i, f)'
    BY <1>6, <2>1, <2>2 DEF StudioIInv, OnePlace
  <2>6. \A i, j \in DOMAIN server'.landed :
          server'.landed[i] = f /\ server'.landed[j] = f => i = j
    BY <1>3 DEF StudioIInv, OnePlace
  <2>7. e # f \/ ~(f > clicks') BY Counting
  <2>8. f > clicks' => Nowhere(f)'
    BY <1>6, <2>1, <2>2, <2>7, Counting DEF Nowhere
  <2> QED BY <2>3, <2>4, <2>5, <2>6, <2>8 DEF OnePlace
<1> QED BY <1>7, <1>8 DEF StudioIInv

\* An edit lands: it had not landed before, because its handler still sent it.
LEMMA EditLands ==
  ASSUME StudioIInv, Counts, NEW h \in Handlers, NEW q, NEW answer,
         handlers[h].op = "save", handlers[h].state = "sent", Head(handlers[h].todo) = "save",
         server' = [server EXCEPT !.revision[q] = @ + 1,
                                  !.landed = Append(@, handlers[h].edit)],
         Answers(h, <<"ok", answer>>), UNCHANGED ui
  PROVE  StudioIInv'
<1>1. PICK e : e = handlers[h].edit OBVIOUS
<1>2. PICK x : x = [handlers[h] EXCEPT !.state = "answered", !.answer = <<"ok", answer>>]
  OBVIOUS
<1>3. PICK landed : landed = server.landed OBVIOUS
<1>4. landed \in Seq(Nat) /\ e \in Nat
  BY <1>1, <1>3 DEF StudioIInv, StudioFits, HandlerFits, NotUsed
<1>5. server'.landed = Append(landed, e) /\ "landed" \in DOMAIN server'
  BY <1>1, <1>3 DEF StudioIInv, StudioFits
<1>6. /\ DOMAIN landed = 1 .. Len(landed) /\ Len(landed) \in Nat
      /\ DOMAIN Append(landed, e) = 1 .. Len(landed) + 1
      /\ \A i \in 1 .. Len(landed) : Append(landed, e)[i] = landed[i]
      /\ Append(landed, e)[Len(landed) + 1] = e
      /\ Append(landed, e) \in Seq(Nat)
  BY <1>4, AppendProperties, LenProperties
<1>7. /\ handlers'[h] = x
      /\ \A i \in Handlers : i # h => handlers'[i] = handlers[i]
      /\ DOMAIN handlers' = Handlers
  BY <1>2 DEF Answers, StudioIInv, StudioFits
<1>8. /\ DOMAIN x = DOMAIN handlers[h]
      /\ \A f \in DOMAIN x : f \notin {"state", "answer"} => x[f] = handlers[h][f]
  BY <1>2
<1>9. /\ {"op", "todo", "end", "state", "answer", "edit", "fresh"} \subseteq DOMAIN handlers[h]
  BY DEF StudioIInv, StudioFits, HandlerFits, NotUsed
<1>10. x.op = "save" /\ x.edit = e /\ x.todo = handlers[h].todo /\ x.fresh = handlers[h].fresh
       /\ x.state = "answered" /\ x.answer = <<"ok", answer>>
  BY <1>1, <1>2, <1>9
<1>11. ~OnlyReads(handlers[h])
  <2>1. Head(<<"versions", "assistant">>) = "versions" /\ Head(<<"assistant">>) = "assistant"
    OBVIOUS
  <2> QED BY <2>1 DEF OnlyReads
<1>12. handlers[h].todo = <<"save">> /\ handlers[h].fresh = 0
  <2>1. /\ Head(<<"draft", "versions", "assistant", "compare">>) = "draft"
        /\ Head(<<"versions", "assistant", "compare">>) = "versions"
        /\ Head(<<"assistant", "compare">>) = "assistant" /\ Head(<<"compare">>) = "compare"
        /\ Head(<<"versions", "assistant">>) = "versions" /\ Head(<<"assistant">>) = "assistant"
    OBVIOUS
  <2>2. handlers[h].todo \notin SaveReads BY <2>1 DEF SaveReads
  <2> QED BY <2>2 DEF StudioIInv, StudioFits, HandlerFits, NotUsed
<1>13. StudioFits'
  BY <1>1, <1>4, <1>5, <1>6, <1>7, <1>8, <1>9, <1>10, <1>12, Counting DEF StudioIInv, StudioFits, HandlerFits
<1>14. ASSUME NEW f \in Nat PROVE OnePlace(f)'
  <2>1. \A i \in Handlers : Carries(i, f)' <=> Carries(i, f)
    BY <1>1, <1>7, <1>10 DEF Carries
  <2>2. Landed(f)' <=> Landed(f) \/ f = e
    BY <1>3, <1>5, <1>6 DEF Landed
  <2>3. f = e => Carries(h, f) /\ ~Landed(f)
    <3>1. f = e => Carries(h, f) BY <1>1 DEF Carries
    <3> QED BY <3>1, <1>11 DEF StudioIInv, OnePlace
  <2>4. \A i, j \in Handlers : Carries(i, f)' /\ Carries(j, f)' => i = j
    BY <2>1 DEF StudioIInv, OnePlace
  <2>5. ASSUME NEW i \in Handlers, Carries(i, f)', Landed(f)' PROVE OnlyReads(handlers[i])'
    <3>0. Carries(i, f) BY <2>1, <2>5
    <3>1. CASE i # h
      <4>1. f # e BY <2>3, <3>0, <3>1 DEF StudioIInv, OnePlace
      <4>2. OnlyReads(handlers[i]) BY <2>2, <2>5, <3>0, <4>1 DEF StudioIInv, OnePlace
      <4> QED BY <1>7, <3>1, <4>2 DEF OnlyReads
    <3>2. CASE i = h
      <4>1. f = e BY <1>1, <3>0, <3>2 DEF Carries
      <4> QED BY <1>7, <1>10, <1>12, <3>2 DEF OnlyReads
    <3> QED BY <3>1, <3>2
  <2>6. ui'.conflict # NotUsed /\ ui'.conflict.edit = f =>
          ~Landed(f)' /\ \A i \in Handlers : ~Carries(i, f)'
    BY <2>1, <2>2, <2>3 DEF StudioIInv, OnePlace
  <2>7. \A i, j \in DOMAIN server'.landed :
          server'.landed[i] = f /\ server'.landed[j] = f => i = j
    BY <1>3, <1>5, <1>6, <2>3 DEF StudioIInv, OnePlace, Landed
  <2>8. f > clicks' => Nowhere(f)'
    BY <2>1, <2>2, <2>3, Counting DEF Nowhere
  <2> QED BY <2>4, <2>5, <2>6, <2>7, <2>8 DEF OnePlace
<1> QED BY <1>13, <1>14 DEF StudioIInv

LEMMA JoinedLists ==
  ASSUME NEW S, NEW s \in Seq(S), NEW t \in Seq(S), NEW u \in Seq(S),
         Len(u) = Len(s) + Len(t),
         \A i \in 1 .. Len(s) : u[i] = s[i],
         \A i \in 1 .. Len(t) : u[Len(s) + i] = t[i]
  PROVE  s \o t = u
<1>1. /\ s \o t \in Seq(S) /\ Len(s \o t) = Len(s) + Len(t)
      /\ \A i \in 1 .. Len(s) + Len(t) :
           (s \o t)[i] = IF i <= Len(s) THEN s[i] ELSE t[i - Len(s)]
  BY ConcatProperties
<1>2. Len(s) \in Nat /\ Len(t) \in Nat BY LenProperties
<1>3. ASSUME NEW i \in 1 .. Len(s) + Len(t) PROVE (s \o t)[i] = u[i]
  <2>1. CASE i <= Len(s) BY <1>1, <1>2, <2>1
  <2>2. CASE ~(i <= Len(s))
    <3>1. i - Len(s) \in 1 .. Len(t) /\ i = Len(s) + (i - Len(s)) BY <1>2, <2>2
    <3>2. u[Len(s) + (i - Len(s))] = t[i - Len(s)] BY <3>1
    <3> QED BY <1>1, <2>2, <3>1, <3>2
  <2> QED BY <2>1, <2>2
<1> QED BY <1>1, <1>3, SeqEqual

LEMMA ShortLists ==
  ASSUME NEW a, NEW b, NEW c, NEW d
  PROVE  /\ <<a>> \o <<c, d>> = <<a, c, d>>
         /\ <<a, b>> \o <<c, d>> = <<a, b, c, d>>
         /\ <<a, b, c>> \o <<d>> = <<a, b, c, d>>
<1>1. PICK S : S = {a, b, c, d} OBVIOUS
<1>2. PICK s1, s2, s3, t1, t2, u3, u4 :
        /\ s1 = <<a>> /\ s2 = <<a, b>> /\ s3 = <<a, b, c>> /\ t1 = <<d>> /\ t2 = <<c, d>>
        /\ u3 = <<a, c, d>> /\ u4 = <<a, b, c, d>>
  OBVIOUS
<1>3. /\ s1 \in Seq(S) /\ s2 \in Seq(S) /\ s3 \in Seq(S) /\ t1 \in Seq(S) /\ t2 \in Seq(S)
      /\ u3 \in Seq(S) /\ u4 \in Seq(S)
      /\ Len(s1) = 1 /\ Len(s2) = 2 /\ Len(s3) = 3 /\ Len(t1) = 1 /\ Len(t2) = 2
      /\ Len(u3) = 3 /\ Len(u4) = 4
  BY <1>1, <1>2
<1>4. s1 \o t2 = u3
  <2>1. \A i \in 1 .. Len(s1) : u3[i] = s1[i] BY <1>2, <1>3
  <2>2. \A i \in 1 .. Len(t2) : u3[Len(s1) + i] = t2[i] BY <1>2, <1>3
  <2>3. Len(u3) = Len(s1) + Len(t2) BY <1>3
  <2> QED BY <1>3, <2>1, <2>2, <2>3, JoinedLists
<1>5. s2 \o t2 = u4
  <2>1. \A i \in 1 .. Len(s2) : u4[i] = s2[i] BY <1>2, <1>3
  <2>2. \A i \in 1 .. Len(t2) : u4[Len(s2) + i] = t2[i] BY <1>2, <1>3
  <2>3. Len(u4) = Len(s2) + Len(t2) BY <1>3
  <2> QED BY <1>3, <2>1, <2>2, <2>3, JoinedLists
<1>6. s3 \o t1 = u4
  <2>1. \A i \in 1 .. Len(s3) : u4[i] = s3[i] BY <1>2, <1>3
  <2>2. \A i \in 1 .. Len(t1) : u4[Len(s3) + i] = t1[i] BY <1>2, <1>3
  <2>3. Len(u4) = Len(s3) + Len(t1) BY <1>3
  <2> QED BY <1>3, <2>1, <2>2, <2>3, JoinedLists
<1> QED BY <1>2, <1>4, <1>5, <1>6

\* What a handler sends after its write was answered.
LEMMA RefreshLists ==
  /\ <<"draft">> \o Refresh = <<"draft", "versions", "assistant">>
  /\ <<"draft">> \o Refresh \o <<"compare">> = <<"draft", "versions", "assistant", "compare">>
  /\ <<"quests">> \o Refresh = <<"quests", "versions", "assistant">>
  /\ <<"draft", "quests">> \o Refresh = <<"draft", "quests", "versions", "assistant">>
<1>1. <<"draft">> \o Refresh = <<"draft", "versions", "assistant">>
  BY ShortLists DEF Refresh
<1>2. <<"draft", "versions", "assistant">> \o <<"compare">>
        = <<"draft", "versions", "assistant", "compare">>
  BY ShortLists
<1>3. <<"quests">> \o Refresh = <<"quests", "versions", "assistant">>
  BY ShortLists DEF Refresh
<1>4. <<"draft", "quests">> \o Refresh = <<"draft", "quests", "versions", "assistant">>
  BY ShortLists DEF Refresh
<1> QED BY <1>1, <1>2, <1>3, <1>4

\* A click that is not about an edit.
LEMMA OtherClicks ==
  ASSUME StudioIInv, Counts, NEW h \in Handlers,
         \/ SelectProject(h) \/ \E q \in Quests : SelectQuest(h, q)
         \/ ConfirmRestore(h) \/ ConfirmReleaseBuild(h) \/ ConfirmPublication(h)
         \/ CreateCurrentPlaytest(h) \/ RefreshPlaytestEvidence(h) \/ LaunchCurrentPlayer(h)
         \/ ValidateCurrentDraft(h) \/ AskAuthorAssistant(h) \/ ApplyAuthorProposal(h)
         \/ \E q \in Quests : CloneSelectedQuest(h, q) \/ ImportQuestFile(h, q)
         \/ ExportQuest(h) \/ PrepareDeleteBlock(h) \/ Logout(h)
  PROVE  StudioIInv'
<1>0. "conflict" \in DOMAIN ui /\ "landed" \in DOMAIN server BY DEF StudioIInv, StudioFits
<1>1. ASSUME SelectProject(h) PROVE StudioIInv'
  <2>1. PICK call : call = [op |-> "project", quest |-> None] OBVIOUS
  <2>2. PICK u : u = With(ui, Joined(Cleared, [quest |-> None, draft |-> NotUsed, phase |-> "busy"])) OBVIOUS
  <2>3. Starts(h, call, <<"quests">>, u) BY <1>1, <2>1, <2>2 DEF SelectProject
  <2>4. "op" \in DOMAIN call /\ call.op # "save" /\ {"todo", "state", "answer"} \cap DOMAIN call = {}
    BY <2>1
  <2>5. "conflict" \in DOMAIN u /\ u.conflict \in {ui.conflict, NotUsed} BY <1>0, <2>2 DEF With, Joined, Cleared
  <2>6. <<"quests">> \in Seq(Requests) \ {<<>>} BY DEF Requests
  <2> QED BY <2>3, <2>4, <2>5, <2>6, OtherHandlerStarts
<1>2. ASSUME NEW q \in Quests, SelectQuest(h, q) PROVE StudioIInv'
  <2>1. PICK call : call = [op |-> "select", quest |-> q] OBVIOUS
  <2>2. PICK u : u = Selected(ui, q) OBVIOUS
  <2>3. Starts(h, call, <<"draft", "versions", "assistant">>, u) BY <1>2, <2>1, <2>2 DEF SelectQuest
  <2>4. "op" \in DOMAIN call /\ call.op # "save" /\ {"todo", "state", "answer"} \cap DOMAIN call = {}
    BY <2>1
  <2>5. "conflict" \in DOMAIN u /\ u.conflict \in {ui.conflict, NotUsed} BY <1>0, <2>2 DEF With, Joined, Cleared, Selected
  <2>6. <<"draft", "versions", "assistant">> \in Seq(Requests) \ {<<>>} BY DEF Requests
  <2> QED BY <2>3, <2>4, <2>5, <2>6, OtherHandlerStarts
<1>3. ASSUME CreateCurrentPlaytest(h) PROVE StudioIInv'
  <2>1. PICK call : call = [op |-> "playtest", quest |-> ui.quest, of |-> ui.validation] OBVIOUS
  <2>2. PICK u : u = [ui EXCEPT !.phase = "freezing"] OBVIOUS
  <2>3. Starts(h, call, <<"playtest">>, u) BY <1>3, <2>1, <2>2 DEF CreateCurrentPlaytest
  <2>4. "op" \in DOMAIN call /\ call.op # "save" /\ {"todo", "state", "answer"} \cap DOMAIN call = {}
    BY <2>1
  <2>5. "conflict" \in DOMAIN u /\ u.conflict \in {ui.conflict, NotUsed} BY <1>0, <2>2
  <2>6. <<"playtest">> \in Seq(Requests) \ {<<>>} BY DEF Requests
  <2> QED BY <2>3, <2>4, <2>5, <2>6, OtherHandlerStarts
<1>4. ASSUME RefreshPlaytestEvidence(h) PROVE StudioIInv'
  <2>1. PICK call : call = [op |-> "trace", quest |-> ui.quest, of |-> ui.playtest] OBVIOUS
  <2>2. PICK u : u = ui OBVIOUS
  <2>3. Starts(h, call, <<"trace">>, u) BY <1>4, <2>1, <2>2 DEF RefreshPlaytestEvidence
  <2>4. "op" \in DOMAIN call /\ call.op # "save" /\ {"todo", "state", "answer"} \cap DOMAIN call = {}
    BY <2>1
  <2>5. "conflict" \in DOMAIN u /\ u.conflict \in {ui.conflict, NotUsed} BY <1>0, <2>2
  <2>6. <<"trace">> \in Seq(Requests) \ {<<>>} BY DEF Requests
  <2> QED BY <2>3, <2>4, <2>5, <2>6, OtherHandlerStarts
<1>5. ASSUME LaunchCurrentPlayer(h) PROVE StudioIInv'
  <2>1. PICK call : call = [op |-> "launch", quest |-> ui.quest, of |-> ui.playtest] OBVIOUS
  <2>2. PICK u : u = ui OBVIOUS
  <2>3. Starts(h, call, <<"launch">>, u) BY <1>5, <2>1, <2>2 DEF LaunchCurrentPlayer
  <2>4. "op" \in DOMAIN call /\ call.op # "save" /\ {"todo", "state", "answer"} \cap DOMAIN call = {}
    BY <2>1
  <2>5. "conflict" \in DOMAIN u /\ u.conflict \in {ui.conflict, NotUsed} BY <1>0, <2>2
  <2>6. <<"launch">> \in Seq(Requests) \ {<<>>} BY DEF Requests
  <2> QED BY <2>3, <2>4, <2>5, <2>6, OtherHandlerStarts
<1>6. ASSUME ValidateCurrentDraft(h) PROVE StudioIInv'
  <2>1. PICK call : call = [op |-> "validate", quest |-> ui.quest, revision |-> ui.draft.revision] OBVIOUS
  <2>2. PICK u : u = [ui EXCEPT !.phase = "validating"] OBVIOUS
  <2>3. Starts(h, call, <<"validate">>, u) BY <1>6, <2>1, <2>2 DEF ValidateCurrentDraft
  <2>4. "op" \in DOMAIN call /\ call.op # "save" /\ {"todo", "state", "answer"} \cap DOMAIN call = {}
    BY <2>1
  <2>5. "conflict" \in DOMAIN u /\ u.conflict \in {ui.conflict, NotUsed} BY <1>0, <2>2
  <2>6. <<"validate">> \in Seq(Requests) \ {<<>>} BY DEF Requests
  <2> QED BY <2>3, <2>4, <2>5, <2>6, OtherHandlerStarts
<1>7. ASSUME AskAuthorAssistant(h) PROVE StudioIInv'
  <2>1. PICK call : call = [op |-> "author", quest |-> ui.quest] OBVIOUS
  <2>2. PICK u : u = [ui EXCEPT !.phase = "assistant"] OBVIOUS
  <2>3. Starts(h, call, <<"author", "assistant">>, u) BY <1>7, <2>1, <2>2 DEF AskAuthorAssistant
  <2>4. "op" \in DOMAIN call /\ call.op # "save" /\ {"todo", "state", "answer"} \cap DOMAIN call = {}
    BY <2>1
  <2>5. "conflict" \in DOMAIN u /\ u.conflict \in {ui.conflict, NotUsed} BY <1>0, <2>2
  <2>6. <<"author", "assistant">> \in Seq(Requests) \ {<<>>} BY DEF Requests
  <2> QED BY <2>3, <2>4, <2>5, <2>6, OtherHandlerStarts
<1>8. ASSUME NEW new \in Quests, CloneSelectedQuest(h, new) PROVE StudioIInv'
  <2>1. PICK call : call = CopyCall(new) OBVIOUS
  <2>2. PICK u : u = [ui EXCEPT !.phase = "busy"] OBVIOUS
  <2>3. Starts(h, call, <<"copy", "quests">>, u) BY <1>8, <2>1, <2>2 DEF CloneSelectedQuest
  <2>4. "op" \in DOMAIN call /\ call.op # "save" /\ {"todo", "state", "answer"} \cap DOMAIN call = {}
    BY <2>1 DEF CopyCall
  <2>5. "conflict" \in DOMAIN u /\ u.conflict \in {ui.conflict, NotUsed} BY <1>0, <2>2
  <2>6. <<"copy", "quests">> \in Seq(Requests) \ {<<>>} BY DEF Requests
  <2> QED BY <2>3, <2>4, <2>5, <2>6, OtherHandlerStarts
<1>9. ASSUME NEW new \in Quests, ImportQuestFile(h, new) PROVE StudioIInv'
  <2>1. PICK call : call = CopyCall(new) OBVIOUS
  <2>2. PICK u : u = [ui EXCEPT !.phase = "busy"] OBVIOUS
  <2>3. Starts(h, call, <<"copy", "quests">>, u) BY <1>9, <2>1, <2>2 DEF ImportQuestFile
  <2>4. "op" \in DOMAIN call /\ call.op # "save" /\ {"todo", "state", "answer"} \cap DOMAIN call = {}
    BY <2>1 DEF CopyCall
  <2>5. "conflict" \in DOMAIN u /\ u.conflict \in {ui.conflict, NotUsed} BY <1>0, <2>2
  <2>6. <<"copy", "quests">> \in Seq(Requests) \ {<<>>} BY DEF Requests
  <2> QED BY <2>3, <2>4, <2>5, <2>6, OtherHandlerStarts
<1>10. ASSUME ExportQuest(h) PROVE StudioIInv'
  <2>1. PICK call : call = [op |-> "export", quest |-> ui.quest] OBVIOUS
  <2>2. PICK u : u = ui OBVIOUS
  <2>3. Starts(h, call, <<"export">>, u) BY <1>10, <2>1, <2>2 DEF ExportQuest
  <2>4. "op" \in DOMAIN call /\ call.op # "save" /\ {"todo", "state", "answer"} \cap DOMAIN call = {}
    BY <2>1
  <2>5. "conflict" \in DOMAIN u /\ u.conflict \in {ui.conflict, NotUsed} BY <1>0, <2>2
  <2>6. <<"export">> \in Seq(Requests) \ {<<>>} BY DEF Requests
  <2> QED BY <2>3, <2>4, <2>5, <2>6, OtherHandlerStarts
<1>11. ASSUME PrepareDeleteBlock(h) PROVE StudioIInv'
  <2>1. PICK call : call = [op |-> "references", quest |-> ui.quest, revision |-> ui.draft.revision] OBVIOUS
  <2>2. PICK u : u = ui OBVIOUS
  <2>3. Starts(h, call, <<"references">>, u) BY <1>11, <2>1, <2>2 DEF PrepareDeleteBlock
  <2>4. "op" \in DOMAIN call /\ call.op # "save" /\ {"todo", "state", "answer"} \cap DOMAIN call = {}
    BY <2>1
  <2>5. "conflict" \in DOMAIN u /\ u.conflict \in {ui.conflict, NotUsed} BY <1>0, <2>2
  <2>6. <<"references">> \in Seq(Requests) \ {<<>>} BY DEF Requests
  <2> QED BY <2>3, <2>4, <2>5, <2>6, OtherHandlerStarts
<1>12. ASSUME Logout(h) PROVE StudioIInv'
  <2>1. PICK call : call = [op |-> "logout", quest |-> None] OBVIOUS
  <2>2. PICK u : u = ui OBVIOUS
  <2>3. Starts(h, call, <<"logout", "access">>, u) BY <1>12, <2>1, <2>2 DEF Logout
  <2>4. "op" \in DOMAIN call /\ call.op # "save" /\ {"todo", "state", "answer"} \cap DOMAIN call = {}
    BY <2>1
  <2>5. "conflict" \in DOMAIN u /\ u.conflict \in {ui.conflict, NotUsed} BY <1>0, <2>2
  <2>6. <<"logout", "access">> \in Seq(Requests) \ {<<>>} BY DEF Requests
  <2> QED BY <2>3, <2>4, <2>5, <2>6, OtherHandlerStarts
<1>13. ASSUME ConfirmRestore(h) PROVE StudioIInv'
  <2>1. CASE ui.restore.base # ui.draft.revision
    BY <1>0, <1>13, <2>1, OnlyShown DEF ConfirmRestore, OnlyShows, Clicked
  <2>2. CASE ~(ui.restore.base # ui.draft.revision)
    <3>1. PICK call : call = [op |-> "restore", quest |-> ui.quest, base |-> ui.restore.base] OBVIOUS
    <3>2. PICK u : u = [ui EXCEPT !.phase = "busy"] OBVIOUS
    <3>3. Starts(h, call, <<"restore">>, u) BY <1>13, <2>2, <3>1, <3>2 DEF ConfirmRestore
    <3>4. "op" \in DOMAIN call /\ call.op # "save" /\ {"todo", "state", "answer"} \cap DOMAIN call = {}
      BY <3>1
    <3>5. "conflict" \in DOMAIN u /\ u.conflict \in {ui.conflict, NotUsed} BY <1>0, <3>2
    <3>6. <<"restore">> \in Seq(Requests) \ {<<>>} BY DEF Requests
    <3> QED BY <3>3, <3>4, <3>5, <3>6, OtherHandlerStarts
  <2> QED BY <2>1, <2>2
<1>14. ASSUME ConfirmReleaseBuild(h) PROVE StudioIInv'
  <2>1. CASE ~Validated \/ ui.validation # ui.build.validation
    BY <1>0, <1>14, <2>1, OnlyShown DEF ConfirmReleaseBuild, OnlyShows, Clicked
  <2>2. CASE ~(~Validated \/ ui.validation # ui.build.validation)
    <3>1. PICK call : call = [op |-> "build", quest |-> ui.quest, release |-> ui.build.release] OBVIOUS
    <3>2. PICK u : u = [ui EXCEPT !.phase = "busy"] OBVIOUS
    <3>3. Starts(h, call, <<"build">>, u) BY <1>14, <2>2, <3>1, <3>2 DEF ConfirmReleaseBuild
    <3>4. "op" \in DOMAIN call /\ call.op # "save" /\ {"todo", "state", "answer"} \cap DOMAIN call = {}
      BY <3>1
    <3>5. "conflict" \in DOMAIN u /\ u.conflict \in {ui.conflict, NotUsed} BY <1>0, <3>2
    <3>6. <<"build">> \in Seq(Requests) \ {<<>>} BY DEF Requests
    <3> QED BY <3>3, <3>4, <3>5, <3>6, OtherHandlerStarts
  <2> QED BY <2>1, <2>2
<1>15. ASSUME ConfirmPublication(h) PROVE StudioIInv'
  <2>1. CASE \/ ui.versions.current # ui.report.from.current
               \/ ui.report.release \notin ui.versions.releases
               \/ ui.versions.quest # ui.report.from.quest
    BY <1>0, <1>15, <2>1, OnlyShown DEF ConfirmPublication, OnlyShows, Clicked
  <2>2. CASE ~(\/ ui.versions.current # ui.report.from.current
               \/ ui.report.release \notin ui.versions.releases
               \/ ui.versions.quest # ui.report.from.quest)
    <3>1. PICK call : call = [op |-> "publish", quest |-> ui.quest, release |-> ui.report.release, expected |-> ui.report.from.current] OBVIOUS
    <3>2. PICK u : u = [ui EXCEPT !.phase = "busy"] OBVIOUS
    <3>3. Starts(h, call, <<"publish">>, u) BY <1>15, <2>2, <3>1, <3>2 DEF ConfirmPublication
    <3>4. "op" \in DOMAIN call /\ call.op # "save" /\ {"todo", "state", "answer"} \cap DOMAIN call = {}
      BY <3>1
    <3>5. "conflict" \in DOMAIN u /\ u.conflict \in {ui.conflict, NotUsed} BY <1>0, <3>2
    <3>6. <<"publish">> \in Seq(Requests) \ {<<>>} BY DEF Requests
    <3> QED BY <3>3, <3>4, <3>5, <3>6, OtherHandlerStarts
  <2> QED BY <2>1, <2>2
<1>16. ASSUME ApplyAuthorProposal(h) PROVE StudioIInv'
  <2>1. CASE Starts(h, [op |-> "apply", quest |-> ui.quest, base |-> ui.assistant.revision],
                  <<"apply">>, [ui EXCEPT !.phase = "assistant"])
    <3>1. PICK call : call = [op |-> "apply", quest |-> ui.quest, base |-> ui.assistant.revision] OBVIOUS
    <3>2. PICK u : u = [ui EXCEPT !.phase = "assistant"] OBVIOUS
    <3>3. Starts(h, call, <<"apply">>, u) BY <1>16, <2>1, <3>1, <3>2 DEF ApplyAuthorProposal
    <3>4. "op" \in DOMAIN call /\ call.op # "save" /\ {"todo", "state", "answer"} \cap DOMAIN call = {}
      BY <3>1
    <3>5. "conflict" \in DOMAIN u /\ u.conflict \in {ui.conflict, NotUsed} BY <1>0, <3>2
    <3>6. <<"apply">> \in Seq(Requests) \ {<<>>} BY DEF Requests
    <3> QED BY <3>3, <3>4, <3>5, <3>6, OtherHandlerStarts
  <2>2. CASE Starts(h, [op |-> "apply", quest |-> ui.quest, end |-> "conflict"], <<"assistant">>, ui)
    <3>1. PICK call : call = [op |-> "apply", quest |-> ui.quest, end |-> "conflict"] OBVIOUS
    <3>2. PICK u : u = ui OBVIOUS
    <3>3. Starts(h, call, <<"assistant">>, u) BY <1>16, <2>2, <3>1, <3>2 DEF ApplyAuthorProposal
    <3>4. "op" \in DOMAIN call /\ call.op # "save" /\ {"todo", "state", "answer"} \cap DOMAIN call = {}
      BY <3>1
    <3>5. "conflict" \in DOMAIN u /\ u.conflict \in {ui.conflict, NotUsed} BY <1>0, <3>2
    <3>6. <<"assistant">> \in Seq(Requests) \ {<<>>} BY DEF Requests
    <3> QED BY <3>3, <3>4, <3>5, <3>6, OtherHandlerStarts
  <2> QED BY <1>16, <2>1, <2>2 DEF ApplyAuthorProposal
<1> QED BY <1>1, <1>2, <1>3, <1>4, <1>5, <1>6, <1>7, <1>8, <1>9, <1>10, <1>11, <1>12, <1>13, <1>14, <1>15, <1>16

LEMMA ClickIsNew ==
  ASSUME StudioIInv, Clicked
  PROVE  ThisEdit \in Nat /\ Nowhere(ThisEdit) /\ ThisEdit <= clicks'
<1>1. clicks \in Nat /\ clicks' = clicks + 1 BY DEF StudioIInv, StudioFits, Clicked
<1>2. ThisEdit \in Nat /\ ThisEdit > clicks /\ ThisEdit <= clicks' BY <1>1 DEF ThisEdit
<1> QED BY <1>2 DEF StudioIInv, OnePlace

\* A form, a conflict that is sent again, and the removal of a block.
LEMMA EditClicks ==
  ASSUME StudioIInv, Counts, NEW h \in Handlers,
         SaveChanges(h) \/ RetryConflict(h) \/ ConfirmDeleteBlock(h)
  PROVE  StudioIInv'
<1>0. "conflict" \in DOMAIN ui /\ "landed" \in DOMAIN server BY DEF StudioIInv, StudioFits
<1>1. CASE SaveChanges(h)
  <2>1. PICK u : u = [ui EXCEPT !.phase = "busy"] OBVIOUS
  <2>2. "conflict" \in DOMAIN u /\ u.conflict = ui.conflict BY <1>0, <2>1
  <2>3. PICK e : e = ThisEdit OBVIOUS
  <2>4. Starts(h, SaveCall(e, TRUE), <<"save">>, u) BY <1>1, <2>1, <2>3 DEF SaveChanges
  <2>5. e \in Nat /\ Nowhere(e) /\ e <= clicks' BY <2>3, <2>4, ClickIsNew DEF Starts
  <2> QED BY <2>2, <2>4, <2>5, EditStarts DEF Nowhere
<1>2. CASE RetryConflict(h)
  <2>1. PICK u : u = [ui EXCEPT !.conflict = NotUsed, !.phase = "busy"] OBVIOUS
  <2>2. "conflict" \in DOMAIN u /\ u.conflict = NotUsed BY <1>0, <2>1
  <2>3. PICK e : e = ui.conflict.edit OBVIOUS
  <2>4. Starts(h, SaveCall(e, FALSE), <<"save">>, u) /\ ui.conflict # NotUsed
    BY <1>2, <2>1, <2>3 DEF RetryConflict, RetryOf
  <2>5. e \in Nat BY <2>3, <2>4 DEF StudioIInv, StudioFits
  <2>6. ~Landed(e) /\ \A i \in Handlers : ~Carries(i, e)
    BY <2>3, <2>4, <2>5 DEF StudioIInv, OnePlace
  <2>7. e <= clicks'
    <3>1. ~(e > clicks) BY <2>3, <2>4, <2>5 DEF StudioIInv, OnePlace, Nowhere
    <3>2. clicks \in Nat /\ clicks' = clicks + 1
      BY <2>4 DEF Starts, Clicked, StudioIInv, StudioFits
    <3> QED BY <2>5, <3>1, <3>2
  <2> QED BY <2>2, <2>4, <2>5, <2>6, <2>7, EditStarts
<1>3. CASE ConfirmDeleteBlock(h)
  <2>1. CASE ui.draft.revision # ui.deletion.base
    BY <1>0, <1>3, <2>1, OnlyShown DEF ConfirmDeleteBlock, OnlyShows, Clicked
  <2>2. CASE ~(ui.draft.revision # ui.deletion.base)
    <3>1. PICK u : u = [ui EXCEPT !.deletion = NotUsed, !.phase = "busy"] OBVIOUS
    <3>2. "conflict" \in DOMAIN u /\ u.conflict = ui.conflict BY <1>0, <3>1
    <3>3. PICK e : e = ThisEdit OBVIOUS
    <3>4. Starts(h, SaveCall(e, FALSE), <<"save">>, u)
      BY <1>3, <2>2, <3>1, <3>3 DEF ConfirmDeleteBlock
    <3>5. e \in Nat /\ Nowhere(e) /\ e <= clicks' BY <3>3, <3>4, ClickIsNew DEF Starts
    <3> QED BY <3>2, <3>4, <3>5, EditStarts DEF Nowhere
  <2> QED BY <2>1, <2>2
<1> QED BY <1>1, <1>2, <1>3

\* An answer comes for a request that lands no edit, or is lost.
LEMMA AnswerComes ==
  ASSUME StudioIInv, Counts, NEW h \in Handlers, handlers[h] # NotUsed, NEW outcome, Answers(h, outcome),
         \/ handlers[h].state = "sent" \/ outcome = <<"error">>,
         UNCHANGED ui, "landed" \in DOMAIN server', server'.landed = server.landed
  PROVE  StudioIInv'
<1>1. PICK old : old = handlers[h] OBVIOUS
<1>2. PICK x : x = [old EXCEPT !.state = "answered", !.answer = outcome] OBVIOUS
<1>3. handlers' = [handlers EXCEPT ![h] = x] BY <1>1, <1>2 DEF Answers
<1>4. HandlerFits(old) /\ old # NotUsed BY <1>1 DEF StudioIInv, StudioFits
<1>5. /\ DOMAIN x = DOMAIN old /\ x.op = old.op /\ x.todo = old.todo
      /\ x.state = "answered" /\ x.answer = outcome
      /\ old.op = "save" => x.edit = old.edit /\ x.fresh = old.fresh
  BY <1>2, <1>4 DEF HandlerFits
<1>6. HandlerFits(x) BY <1>4, <1>5 DEF HandlerFits
<1>7. OnlyReads(old) /\ old.op = "save" => OnlyReads(x)
  <2>1. CASE outcome = <<"error">> BY <1>5, <2>1 DEF OnlyReads
  <2>2. CASE old.state = "sent" BY <1>5, <2>2 DEF OnlyReads
  <2> QED BY <1>1, <2>1, <2>2
<1>8. GoesOnAs(h, x) BY <1>1, <1>5, <1>6, <1>7 DEF GoesOnAs, Carries
<1>9. "conflict" \in DOMAIN ui' /\ ui'.conflict = ui.conflict BY DEF StudioIInv, StudioFits
<1> QED BY <1>3, <1>8, <1>9, HandlerGoesOn

LEMMA ServeKeeps ==
  ASSUME StudioIInv, Counts, NEW h \in Handlers, Serve(h)
  PROVE  StudioIInv'
<1>0. "landed" \in DOMAIN server BY DEF StudioIInv, StudioFits
<1>1. handlers[h] # NotUsed /\ handlers[h].state = "sent" /\ UNCHANGED ui BY DEF Serve
<1>2. PICK q : q = handlers[h].quest OBVIOUS
<1>3. CASE \E outcome : Answers(h, outcome) /\ "landed" \in DOMAIN server'
                        /\ server'.landed = server.landed
  BY <1>1, <1>3, AnswerComes
<1>4. CASE /\ Head(handlers[h].todo) = "save"
           /\ server' = [server EXCEPT !.revision[q] = @ + 1,
                                       !.landed = Append(@, handlers[h].edit)]
           /\ Answers(h, <<"ok", Next1(q)>>)
  <2>1. handlers[h].op = "save"
    <3>1. ASSUME handlers[h].op # "save" PROVE FALSE
      <4>1. handlers[h].todo \in Seq(Requests) \ {<<>>}
        BY <1>1, <3>1 DEF StudioIInv, StudioFits, HandlerFits
      <4>2. Head(handlers[h].todo) \in Requests BY <4>1, HeadTailProperties
      <4> QED BY <1>4, <4>2 DEF Requests
    <3> QED BY <3>1
  <2> QED BY <1>1, <1>4, <2>1, EditLands
<1>5. ASSUME NEW outcome, Answers(h, outcome), NewRevision(q) PROVE StudioIInv'
  <2>1. "landed" \in DOMAIN server' /\ server'.landed = server.landed
    BY <1>0, <1>5 DEF NewRevision
  <2> QED BY <1>3, <1>5, <2>1
<1>6. ASSUME NEW outcome, Answers(h, outcome), NEW r,
             \/ server' = [server EXCEPT !.releases[q] = r]
             \/ server' = [server EXCEPT !.current[q] = r]
      PROVE  StudioIInv'
  <2>1. "landed" \in DOMAIN server' /\ server'.landed = server.landed BY <1>0, <1>6
  <2> QED BY <1>3, <1>6, <2>1
<1>7. ASSUME NEW outcome, Answers(h, outcome), UNCHANGED server PROVE StudioIInv'
  BY <1>0, <1>3, <1>7
<1>8. CASE \/ \E value : Reads(h, value)
           \/ Refuses(h)
  BY <1>7, <1>8 DEF Reads, Refuses
<1>9. CASE \E r, outcome : server' = [server EXCEPT !.releases[q] = r] /\ Answers(h, outcome)
  BY <1>6, <1>9
<1>10. CASE \E r, outcome : server' = [server EXCEPT !.current[q] = r] /\ Answers(h, outcome)
  BY <1>6, <1>10
<1>11. CASE NewRevision(q) /\ \E outcome : Answers(h, outcome)
  BY <1>5, <1>11
<1>12. \/ (\E value : Reads(h, value)) \/ Refuses(h)
       \/ NewRevision(q) /\ \E outcome : Answers(h, outcome)
       \/ /\ Head(handlers[h].todo) = "save"
          /\ server' = [server EXCEPT !.revision[q] = @ + 1,
                                      !.landed = Append(@, handlers[h].edit)]
          /\ Answers(h, <<"ok", Next1(q)>>)
       \/ \E r, outcome : server' = [server EXCEPT !.releases[q] = r] /\ Answers(h, outcome)
       \/ \E r, outcome : server' = [server EXCEPT !.current[q] = r] /\ Answers(h, outcome)
  BY <1>2 DEF Serve
<1> QED BY <1>4, <1>8, <1>9, <1>10, <1>11, <1>12

\* What a handler waits for tells what it is.
LEMMA WhatItWaitsFor ==
  ASSUME StudioIInv, NEW h \in Handlers, handlers[h] # NotUsed
  PROVE  /\ handlers[h].op # "save" => Head(handlers[h].todo) \in Requests
         /\ handlers[h].op = "save" =>
              \/ Head(handlers[h].todo) = "save" /\ handlers[h].todo = <<"save">>
              \/ /\ Head(handlers[h].todo) = "draft"
                 /\ handlers[h].todo = <<"draft", "versions", "assistant", "compare">>
              \/ /\ Head(handlers[h].todo) \in {"versions", "assistant", "compare"}
                 /\ handlers[h].todo \in SaveReads
<1>1. HandlerFits(handlers[h]) BY DEF StudioIInv, StudioFits
<1>2. handlers[h].op # "save" => Head(handlers[h].todo) \in Requests
  BY <1>1, HeadTailProperties DEF HandlerFits
<1>3. /\ Head(<<"draft", "versions", "assistant", "compare">>) = "draft"
      /\ Head(<<"versions", "assistant", "compare">>) = "versions"
      /\ Head(<<"assistant", "compare">>) = "assistant" /\ Head(<<"compare">>) = "compare"
      /\ Head(<<"versions", "assistant">>) = "versions" /\ Head(<<"assistant">>) = "assistant"
      /\ Head(<<"save">>) = "save"
  OBVIOUS
<1> QED BY <1>1, <1>2, <1>3 DEF HandlerFits, SaveReads

LEMMA EndsKeeps ==
  ASSUME StudioIInv, Counts, NEW h \in Handlers, NEW u, Ends(h, u), UNCHANGED server,
         "conflict" \in DOMAIN u, u.conflict \in {ui.conflict, NotUsed}
  PROVE  StudioIInv'
<1>1. GoesOnAs(h, NotUsed) BY DEF GoesOnAs, HandlerFits, NotUsed
<1> QED BY <1>1, HandlerGoesOn DEF Ends, StudioIInv, StudioFits

\* A handler sends the next request: any that lands nothing, or, if it carries an
\* edit, what it reads after that.
LEMMA ContinuesKeeps ==
  ASSUME StudioIInv, Counts, NEW h \in Handlers, handlers[h] # NotUsed, NEW todo, NEW end, NEW u,
         Continues(h, todo, end, u), UNCHANGED server,
         handlers[h].op # "save" => todo \in Seq(Requests) \ {<<>>},
         handlers[h].op = "save" =>
           /\ todo \in SaveReads
           /\ OnlyReads(handlers[h]) => todo \in {<<"versions", "assistant">>, <<"assistant">>},
         "conflict" \in DOMAIN u, u.conflict \in {ui.conflict, NotUsed}
  PROVE  StudioIInv'
<1>1. PICK old : old = handlers[h] OBVIOUS
<1>2. PICK x : x = [old EXCEPT !.todo = todo, !.end = end, !.state = "sent", !.answer = <<>>]
  OBVIOUS
<1>3. handlers' = [handlers EXCEPT ![h] = x] BY <1>1, <1>2 DEF Continues
<1>4. HandlerFits(old) /\ old # NotUsed BY <1>1 DEF StudioIInv, StudioFits
<1>5. /\ DOMAIN x = DOMAIN old /\ x.op = old.op /\ x.todo = todo
      /\ old.op = "save" => x.edit = old.edit /\ x.fresh = old.fresh
  BY <1>2, <1>4 DEF HandlerFits
<1>6. HandlerFits(x) BY <1>1, <1>4, <1>5 DEF HandlerFits
<1>7. GoesOnAs(h, x) BY <1>1, <1>5, <1>6 DEF GoesOnAs, Carries, OnlyReads
<1>8. "conflict" \in DOMAIN ui' /\ ui'.conflict = u.conflict BY DEF Continues, Asked
<1> QED BY <1>3, <1>7, <1>8, HandlerGoesOn DEF StudioIInv, StudioFits

\* A handler ends and offers its edit as a conflict: it has not landed.
LEMMA ConflictIsOffered ==
  ASSUME StudioIInv, Counts, NEW h \in Handlers, handlers[h].op = "save", ~OnlyReads(handlers[h]),
         handlers' = [handlers EXCEPT ![h] = NotUsed], UNCHANGED server,
         "conflict" \in DOMAIN ui', ui'.conflict = [op |-> "conflict", edit |-> handlers[h].edit]
  PROVE  StudioIInv'
<1>1. /\ handlers'[h] = NotUsed
      /\ \A i \in Handlers : i # h => handlers'[i] = handlers[i]
      /\ DOMAIN handlers' = Handlers
  BY DEF StudioIInv, StudioFits
<1>2. HandlerFits(handlers[h]) /\ handlers[h] # NotUsed
  BY DEF StudioIInv, StudioFits, NotUsed
<1>3. StudioFits'
  BY <1>1, <1>2, Counting DEF StudioIInv, StudioFits, HandlerFits
<1>4. ASSUME NEW f \in Nat PROVE OnePlace(f)'
  <2>1. \A i \in Handlers : Carries(i, f)' => i # h /\ Carries(i, f)
    BY <1>1 DEF Carries, NotUsed
  <2>2. Landed(f)' <=> Landed(f) BY DEF Landed
  <2>3. ASSUME NEW i \in Handlers, Carries(i, f)', Landed(f)' PROVE OnlyReads(handlers[i])'
    <3>1. OnlyReads(handlers[i]) /\ i # h BY <2>1, <2>2, <2>3 DEF StudioIInv, OnePlace
    <3> QED BY <1>1, <3>1 DEF OnlyReads
  <2>4. \A i, j \in Handlers : Carries(i, f)' /\ Carries(j, f)' => i = j
    BY <2>1 DEF StudioIInv, OnePlace
  <2>5. ASSUME ui'.conflict.edit = f
        PROVE  ~Landed(f)' /\ \A i \in Handlers : ~Carries(i, f)'
    <3>1. Carries(h, f) BY <2>5 DEF Carries
    <3> QED BY <2>1, <2>2, <3>1 DEF StudioIInv, OnePlace
  <2>6. \A i, j \in DOMAIN server'.landed :
          server'.landed[i] = f /\ server'.landed[j] = f => i = j
    BY DEF StudioIInv, OnePlace
  <2>7. f > clicks' => Nowhere(f)'
    <3>1. f > clicks' => Nowhere(f) BY Counting
    <3>2. Nowhere(f) => f # handlers[h].edit BY DEF Nowhere, Carries
    <3> QED BY <2>1, <2>2, <3>1, <3>2 DEF Nowhere
  <2> QED BY <2>3, <2>4, <2>5, <2>6, <2>7 DEF OnePlace
<1> QED BY <1>3, <1>4 DEF StudioIInv

\* A handler goes on to its next request, or ends.
LEMMA UiGoesKeeps ==
  ASSUME StudioIInv, Counts, NEW h \in Handlers, handlers[h] # NotUsed, NEW u, UiGoes(h, u),
         Head(handlers[h].todo) # "save", UNCHANGED server,
         "conflict" \in DOMAIN u, u.conflict = ui.conflict
  PROVE  StudioIInv'
<1>0. PICK old : old = handlers[h] OBVIOUS
<1>1. HandlerFits(old) BY <1>0 DEF StudioIInv, StudioFits
<1>2. old.op = "save" => old.todo \in SaveReads BY <1>0, WhatItWaitsFor DEF SaveReads
<1>3. CASE Len(old.todo) = 1
  <2>1. Ends(h, Finished(old, u)) BY <1>0, <1>3 DEF UiGoes
  <2>2. CASE old.op = "save" /\ old.fresh # 0
    <3>1. ~OnlyReads(old) BY <2>2 DEF OnlyReads
    <3>2. "conflict" \in DOMAIN Finished(old, u)
          /\ Finished(old, u).conflict = [op |-> "conflict", edit |-> old.edit]
      BY <2>2 DEF Finished
    <3> QED BY <1>0, <2>1, <2>2, <3>1, <3>2, ConflictIsOffered DEF Ends
  <2>3. CASE ~(old.op = "save" /\ old.fresh # 0)
    <3>1. "conflict" \in DOMAIN Finished(old, u)
          /\ Finished(old, u).conflict \in {ui.conflict, NotUsed}
      BY <2>3 DEF Finished, With, Joined, Cleared
    <3> QED BY <2>1, <3>1, EndsKeeps
  <2> QED BY <2>2, <2>3
<1>4. CASE Len(old.todo) # 1
  <2>1. PICK todo : todo = Tail(old.todo) OBVIOUS
  <2>2. PICK end : end = old.end OBVIOUS
  <2>3. Continues(h, todo, end, u) BY <1>0, <1>4, <2>1, <2>2 DEF UiGoes
  <2>4. old.op # "save" => todo \in Seq(Requests) \ {<<>>}
    <3> SUFFICES ASSUME old.op # "save" PROVE todo \in Seq(Requests) \ {<<>>} OBVIOUS
    <3>1. old.todo \in Seq(Requests) \ {<<>>} BY <1>0, <1>1 DEF HandlerFits
    <3>2. todo \in Seq(Requests) /\ Len(todo) = Len(old.todo) - 1 BY <2>1, <3>1, HeadTailProperties
    <3>3. Len(old.todo) \in Nat /\ Len(old.todo) # 0 BY <3>1, EmptySeq, LenProperties
    <3>4. Len(todo) # 0 BY <1>4, <3>2, <3>3
    <3> QED BY <3>2, <3>4, EmptySeq
  <2>5. /\ Tail(<<"draft", "versions", "assistant", "compare">>)
             = <<"versions", "assistant", "compare">>
        /\ Tail(<<"versions", "assistant", "compare">>) = <<"assistant", "compare">>
        /\ Tail(<<"assistant", "compare">>) = <<"compare">>
        /\ Tail(<<"versions", "assistant">>) = <<"assistant">>
        /\ Len(<<"compare">>) = 1 /\ Len(<<"assistant">>) = 1
    OBVIOUS
  <2>6. old.op = "save" => todo \in SaveReads
    BY <1>2, <1>4, <2>1, <2>5 DEF SaveReads
  <2>7. old.op = "save" /\ OnlyReads(old) => todo \in {<<"versions", "assistant">>, <<"assistant">>}
    <3>1. Head(<<"save">>) = "save" OBVIOUS
    <3> QED BY <1>0, <1>4, <2>1, <2>5, <3>1 DEF OnlyReads
  <2> QED BY <1>0, <2>3, <2>4, <2>6, <2>7, ContinuesKeeps
<1> QED BY <1>3, <1>4

LEMMA DraftArrivesKeeps ==
  ASSUME StudioIInv, Counts, NEW h \in Handlers, handlers[h] # NotUsed, NEW a, DraftArrives(h, a),
         Head(handlers[h].todo) = "draft", UNCHANGED server
  PROVE  StudioIInv'
<1>0. "conflict" \in DOMAIN ui BY DEF StudioIInv, StudioFits
<1>1. CASE handlers[h].op # "save"
  <2>1. PICK u : u = [ui EXCEPT !.draft = a] OBVIOUS
  <2>2. UiGoes(h, u) BY <1>1, <2>1 DEF DraftArrives
  <2>3. "conflict" \in DOMAIN u /\ u.conflict = ui.conflict BY <1>0, <2>1
  <2> QED BY <2>2, <2>3, UiGoesKeeps
<1>2. CASE handlers[h].op = "save"
  <2>1. PICK old : old = handlers[h] OBVIOUS
  <2>2. old.todo = <<"draft", "versions", "assistant", "compare">>
    BY <1>2, <2>1, WhatItWaitsFor
  <2>3. Tail(<<"draft", "versions", "assistant", "compare">>)
             = <<"versions", "assistant", "compare">>
    OBVIOUS
  <2>4. PICK x : x = [handlers[h] EXCEPT !.todo = Tail(handlers[h].todo), !.state = "sent",
                                         !.answer = <<>>, !.fresh = a.revision]
    OBVIOUS
  <2>5. handlers' = [handlers EXCEPT ![h] = x] BY <1>2, <2>4 DEF DraftArrives
  <2>6. HandlerFits(old) BY <2>1 DEF StudioIInv, StudioFits
  <2>7. DOMAIN x = DOMAIN old /\ x.op = "save" /\ x.edit = old.edit
        /\ x.todo = <<"versions", "assistant", "compare">>
    BY <1>2, <2>1, <2>2, <2>3, <2>4, <2>6 DEF HandlerFits, NotUsed
  <2>8. HandlerFits(x) BY <1>2, <2>1, <2>6, <2>7 DEF HandlerFits, SaveReads, NotUsed
  <2>9. ~OnlyReads(old)
    <3>1. /\ Len(<<"draft", "versions", "assistant", "compare">>) = 4 /\ Len(<<"save">>) = 1
          /\ Len(<<"versions", "assistant">>) = 2 /\ Len(<<"assistant">>) = 1
      OBVIOUS
    <3> QED BY <2>2, <3>1 DEF OnlyReads
  <2>10. GoesOnAs(h, x) BY <1>2, <2>1, <2>7, <2>8, <2>9 DEF GoesOnAs, Carries
  <2>11. "conflict" \in DOMAIN ui' /\ ui'.conflict = ui.conflict
    BY <1>0, <1>2 DEF DraftArrives, Asked
  <2> QED BY <2>5, <2>10, <2>11, HandlerGoesOn DEF StudioIInv, StudioFits
<1> QED BY <1>1, <1>2

LEMMA ReadLostKeeps ==
  ASSUME StudioIInv, Counts, NEW h \in Handlers, handlers[h] # NotUsed, NEW request,
         ReadLost(h, request), UNCHANGED server
  PROVE  StudioIInv'
<1>0. "conflict" \in DOMAIN ui BY DEF StudioIInv, StudioFits
<1>1. CASE \/ Ends(h, ui) \/ Ends(h, [ui EXCEPT !.phase = "idle"]) \/ Ends(h, Failed(ui))
  BY <1>0, <1>1, EndsKeeps DEF Failed
<1>2. CASE handlers[h].op = "apply" /\ Continues(h, <<"assistant">>, "error", ui)
  <2>1. <<"assistant">> \in Seq(Requests) \ {<<>>} BY DEF Requests
  <2> QED BY <1>0, <1>2, <2>1, ContinuesKeeps
<1> QED BY <1>1, <1>2 DEF ReadLost

LEMMA ReadArrivesKeeps ==
  ASSUME StudioIInv, Counts, NEW h \in Handlers, handlers[h] # NotUsed, NEW a,
         NEW request \in Reading, request = Head(handlers[h].todo),
         ReadArrives(h, request, a), UNCHANGED server
  PROVE  StudioIInv'
<1>0. "conflict" \in DOMAIN ui BY DEF StudioIInv, StudioFits
<1>1. request # "save" BY DEF Reading
<1>2. CASE request = "draft" /\ DraftArrives(h, a[2])
  BY <1>2, DraftArrivesKeeps
<1>3. CASE ReadLost(h, request)
  BY <1>3, ReadLostKeeps
<1>4. ASSUME NEW shown, \/ UiGoes(h, [ui EXCEPT !.versions = shown])
                        \/ UiGoes(h, [ui EXCEPT !.assistant = shown])
                        \/ UiGoes(h, [ui EXCEPT !.trace = shown])
                        \/ UiGoes(h, ui)
      PROVE  StudioIInv'
  <2>1. PICK u : /\ u \in {[ui EXCEPT !.versions = shown], [ui EXCEPT !.assistant = shown],
                           [ui EXCEPT !.trace = shown], ui}
                 /\ UiGoes(h, u)
    BY <1>4
  <2>2. "conflict" \in DOMAIN u /\ u.conflict = ui.conflict BY <1>0, <2>1
  <2> QED BY <1>1, <2>1, <2>2, UiGoesKeeps
<1>5. CASE /\ handlers[h].op = "copy"
           /\ Continues(h, <<"draft">> \o Refresh, "idle", Selected(ui, handlers[h].quest))
  <2>1. PICK u : u = Selected(ui, handlers[h].quest) OBVIOUS
  <2>2. Continues(h, <<"draft", "versions", "assistant">>, "idle", u)
    BY <1>5, <2>1, RefreshLists
  <2>3. <<"draft", "versions", "assistant">> \in Seq(Requests) \ {<<>>} BY DEF Requests
  <2>4. "conflict" \in DOMAIN u /\ u.conflict = NotUsed
    BY <1>0, <2>1 DEF Selected, With, Joined, Cleared
  <2> QED BY <1>5, <2>2, <2>3, <2>4, ContinuesKeeps
<1> QED BY <1>2, <1>3, <1>4, <1>5 DEF ReadArrives

LEMMA RefusalKeeps ==
  ASSUME StudioIInv, Counts, NEW h \in Handlers, handlers[h] # NotUsed,
         NEW request, request = Head(handlers[h].todo), request \notin Reading,
         RequestRefused(h, request), UNCHANGED server
  PROVE  StudioIInv'
<1>0. "conflict" \in DOMAIN ui BY DEF StudioIInv, StudioFits
<1>1. CASE request \in {"author", "apply"}
  <2>1. handlers[h].op # "save" BY <1>1, WhatItWaitsFor
  <2>2. <<"assistant">> \in Seq(Requests) \ {<<>>} BY DEF Requests
  <2>3. Continues(h, <<"assistant">>, "error", ui) BY <1>1 DEF RequestRefused
  <2> QED BY <1>0, <2>1, <2>2, <2>3, ContinuesKeeps
<1>2. CASE request \notin {"author", "apply"}
  <2>1. PICK u : u \in {[ui EXCEPT !.player = NotUsed], Failed(ui)} /\ Ends(h, u)
    BY <1>2 DEF RequestRefused
  <2>2. "conflict" \in DOMAIN u /\ u.conflict = ui.conflict BY <1>0, <2>1 DEF Failed
  <2> QED BY <2>1, <2>2, EndsKeeps
<1> QED BY <1>1, <1>2

LEMMA ConflictKeeps ==
  ASSUME StudioIInv, Counts, NEW h \in Handlers, handlers[h] # NotUsed,
         NEW request, request = Head(handlers[h].todo), request \notin Reading,
         handlers[h].state = "answered", handlers[h].answer[1] = "conflict",
         Conflicted(h, request), UNCHANGED server
  PROVE  StudioIInv'
<1>0. "conflict" \in DOMAIN ui BY DEF StudioIInv, StudioFits
<1>1. CASE request = "save"
  <2>1. handlers[h].op = "save" /\ handlers[h].todo = <<"save">>
    BY <1>1, WhatItWaitsFor DEF Requests
  <2>2. ~OnlyReads(handlers[h])
    <3>1. Len(<<"save">>) = 1 /\ Len(<<"versions", "assistant">>) = 2
          /\ Head(<<"save">>) = "save" /\ Head(<<"assistant">>) = "assistant"
      OBVIOUS
    <3> QED BY <2>1, <3>1 DEF OnlyReads
  <2>3. Continues(h, <<"draft", "versions", "assistant", "compare">>, "conflict", ui)
    BY <1>1, RefreshLists DEF Conflicted
  <2> QED BY <1>0, <2>1, <2>2, <2>3, ContinuesKeeps DEF SaveReads
<1>2. CASE request # "save"
  <2>1. handlers[h].op # "save" BY <1>2, WhatItWaitsFor DEF Reading
  <2>2. CASE request = "restore"
    <3>1. PICK u : u = With(ui, NoIntents) OBVIOUS
    <3>2. Continues(h, <<"draft", "versions", "assistant">>, "conflict", u)
      BY <2>2, <3>1, RefreshLists DEF Conflicted
    <3>3. <<"draft", "versions", "assistant">> \in Seq(Requests) \ {<<>>} BY DEF Requests
    <3>4. "conflict" \in DOMAIN u /\ u.conflict = ui.conflict
      BY <1>0, <3>1 DEF With, NoIntents
    <3> QED BY <2>1, <3>2, <3>3, <3>4, ContinuesKeeps
  <2>3. CASE request = "apply"
    <3>1. Continues(h, <<"draft", "quests", "versions", "assistant">>, "conflict", ui)
      BY <2>3, RefreshLists DEF Conflicted
    <3>2. <<"draft", "quests", "versions", "assistant">> \in Seq(Requests) \ {<<>>}
      BY DEF Requests
    <3> QED BY <1>0, <2>1, <3>1, <3>2, ContinuesKeeps
  <2>4. CASE request = "publish"
    <3>1. PICK u : u = [ui EXCEPT !.report = NotUsed, !.receipt = NotUsed] OBVIOUS
    <3>2. Continues(h, <<"versions">>, "conflict", u) BY <2>4, <3>1 DEF Conflicted
    <3>3. <<"versions">> \in Seq(Requests) \ {<<>>} BY DEF Requests
    <3>4. "conflict" \in DOMAIN u /\ u.conflict = ui.conflict BY <1>0, <3>1
    <3> QED BY <2>1, <3>2, <3>3, <3>4, ContinuesKeeps
  <2> QED BY <1>2, <2>2, <2>3, <2>4 DEF Conflicted
<1> QED BY <1>1, <1>2

LEMMA AcceptanceKeeps ==
  ASSUME StudioIInv, Counts, NEW h \in Handlers, handlers[h] # NotUsed,
         NEW request, request = Head(handlers[h].todo), request \notin Reading,
         NEW outcome, NEW a, Accepted(h, request, outcome, a), UNCHANGED server
  PROVE  StudioIInv'
<1>0. "conflict" \in DOMAIN ui BY DEF StudioIInv, StudioFits
<1>1. PICK landed : landed = With(ui, Joined(NoIntents, [draft |-> a, conflict |-> NotUsed]))
  OBVIOUS
<1>2. "conflict" \in DOMAIN landed /\ landed.conflict = NotUsed
  BY <1>0, <1>1 DEF With, Joined, NoIntents
<1>3. CASE request = "save"
  <2>1. handlers[h].op = "save" BY <1>3, WhatItWaitsFor DEF Requests
  <2>2. PICK u : u = [landed EXCEPT !.phase = "idle"] OBVIOUS
  <2>3. "conflict" \in DOMAIN u /\ u.conflict = NotUsed BY <1>2, <2>2
  <2>4. Continues(h, <<"versions", "assistant">>, "idle", u)
    BY <1>1, <1>3, <2>2 DEF Accepted, Refresh
  <2>5. <<"versions", "assistant">> \in SaveReads BY DEF SaveReads
  <2> QED BY <2>1, <2>3, <2>4, <2>5, ContinuesKeeps
<1>4. CASE request # "save"
  <2>1. handlers[h].op # "save" BY <1>4, WhatItWaitsFor DEF Reading
  <2>2. CASE request = "restore"
    <3>1. Continues(h, <<"quests", "versions", "assistant">>, "idle", landed)
      BY <1>1, <2>2, RefreshLists DEF Accepted
    <3>2. <<"quests", "versions", "assistant">> \in Seq(Requests) \ {<<>>} BY DEF Requests
    <3> QED BY <1>2, <2>1, <3>1, <3>2, ContinuesKeeps
  <2>3. CASE request = "apply" /\ outcome = "ok"
    <3>1. PICK u : u = [landed EXCEPT !.deletion = NotUsed] OBVIOUS
    <3>2. Continues(h, <<"quests", "versions", "assistant">>, "idle", u)
      BY <1>1, <2>3, <3>1, RefreshLists DEF Accepted
    <3>3. <<"quests", "versions", "assistant">> \in Seq(Requests) \ {<<>>} BY DEF Requests
    <3>4. "conflict" \in DOMAIN u /\ u.conflict = NotUsed BY <1>2, <3>1
    <3> QED BY <2>1, <3>2, <3>3, <3>4, ContinuesKeeps
  <2>4. CASE request = "apply" /\ outcome = "audit"
    <3>1. Continues(h, <<"draft", "quests", "versions", "assistant">>, "error", ui)
      BY <2>4, RefreshLists DEF Accepted
    <3>2. <<"draft", "quests", "versions", "assistant">> \in Seq(Requests) \ {<<>>}
      BY DEF Requests
    <3> QED BY <1>0, <2>1, <3>1, <3>2, ContinuesKeeps
  <2>5. CASE request \in {"build", "publish"}
    <3>1. PICK receipt :
            receipt = [op |-> "receipt", quest |-> handlers[h].quest,
                       release |-> handlers[h].release]
      OBVIOUS
    <3>2. PICK u : /\ u \in {[ui EXCEPT !.build = NotUsed],
                             [ui EXCEPT !.report = NotUsed, !.receipt = receipt]}
                   /\ Continues(h, <<"versions">>, "idle", u)
      BY <2>5, <3>1 DEF Accepted
    <3>3. <<"versions">> \in Seq(Requests) \ {<<>>} BY DEF Requests
    <3>4. "conflict" \in DOMAIN u /\ u.conflict = ui.conflict BY <1>0, <3>2
    <3> QED BY <2>1, <3>2, <3>3, <3>4, ContinuesKeeps
  <2>6. CASE request \in {"validate", "references", "launch"}
    <3>1. PICK phase, deletion : 
            /\ phase = IF a.op = "invalid" THEN "error" ELSE "idle"
            /\ deletion = [op |-> "deletion", base |-> a.revision]
      OBVIOUS
    <3>2. PICK u : /\ u \in {[ui EXCEPT !.validation = a, !.phase = phase],
                             [ui EXCEPT !.deletion = deletion, !.phase = "idle"],
                             [ui EXCEPT !.player = a]}
                   /\ Ends(h, u)
      BY <2>6, <3>1 DEF Accepted
    <3>3. "conflict" \in DOMAIN u /\ u.conflict = ui.conflict BY <1>0, <3>2
    <3> QED BY <3>2, <3>3, EndsKeeps
  <2>7. CASE request = "playtest"
    <3>1. PICK old : old = handlers[h] OBVIOUS
    <3>2. PICK x : x = [old EXCEPT !.op = "trace", !.todo = <<"trace">>,
                                   !.state = "sent", !.answer = <<>>]
      OBVIOUS
    <3>3. /\ handlers' = [handlers EXCEPT ![h] = x]
          /\ ui' = [ui EXCEPT !.playtest = a, !.trace = NotUsed]
      BY <2>7, <3>1, <3>2 DEF Accepted
    <3>4. HandlerFits(old) /\ old # NotUsed BY <3>1 DEF StudioIInv, StudioFits
    <3>5. DOMAIN x = DOMAIN old /\ x.op = "trace" /\ x.todo = <<"trace">>
      BY <3>2, <3>4 DEF HandlerFits
    <3>6. <<"trace">> \in Seq(Requests) \ {<<>>} BY DEF Requests
    <3>7. GoesOnAs(h, x) BY <3>4, <3>5, <3>6 DEF GoesOnAs, HandlerFits
    <3>8. "conflict" \in DOMAIN ui' /\ ui'.conflict = ui.conflict BY <1>0, <3>3
    <3> QED BY <3>3, <3>7, <3>8, HandlerGoesOn DEF StudioIInv, StudioFits
  <2>8. CASE request \in {"author", "copy", "export", "logout"}
    <3>1. UiGoes(h, ui) BY <2>8 DEF Accepted
    <3> QED BY <1>0, <1>4, <3>1, UiGoesKeeps
  <2> QED BY <1>4, <2>2, <2>3, <2>4, <2>5, <2>6, <2>7, <2>8 DEF Accepted
<1> QED BY <1>3, <1>4

LEMMA ArrivesKeeps ==
  ASSUME StudioIInv, Counts, NEW h \in Handlers, Arrives(h)
  PROVE  StudioIInv'
<1>1. PICK request, a : request = Head(handlers[h].todo) /\ a = handlers[h].answer OBVIOUS
<1>2. handlers[h] # NotUsed /\ handlers[h].state = "answered" /\ UNCHANGED server
  BY DEF Arrives
<1>3. CASE request \in Reading /\ ReadArrives(h, request, a)
  BY <1>1, <1>2, <1>3, ReadArrivesKeeps
<1>4. CASE request \notin Reading /\ RequestRefused(h, request)
  BY <1>1, <1>2, <1>4, RefusalKeeps
<1>5. CASE request \notin Reading /\ a[1] = "conflict" /\ Conflicted(h, request)
  BY <1>1, <1>2, <1>5, ConflictKeeps
<1>6. CASE request \notin Reading /\ Accepted(h, request, a[1], a[2])
  BY <1>1, <1>2, <1>6, AcceptanceKeeps
<1> QED BY <1>1, <1>3, <1>4, <1>5, <1>6 DEF Arrives

\* What the author does with what is shown.
LEMMA ShowingKeeps ==
  ASSUME StudioIInv, Counts,
         \/ CancelConflict \/ CancelIntent
         \/ \E n \in 0 .. MaxDraft + MaxClicks : PrepareRestore(n)
         \/ \E r \in Releases : PrepareReleaseBuild(r) \/ PreparePublicationReport(r)
  PROVE  StudioIInv'
<1>0. "conflict" \in DOMAIN ui /\ "landed" \in DOMAIN server BY DEF StudioIInv, StudioFits
<1>1. UNCHANGED <<server, handlers>>
  BY DEF CancelConflict, CancelIntent, PrepareRestore, PrepareReleaseBuild,
         PreparePublicationReport, OnlyShows, Clicked
<1>2. "conflict" \in DOMAIN ui' /\ ui'.conflict \in {ui.conflict, NotUsed}
  BY <1>0 DEF CancelConflict, CancelIntent, PrepareRestore, PrepareReleaseBuild,
              PreparePublicationReport, OnlyShows
<1> QED BY <1>0, <1>1, <1>2, OnlyShown

\* A step is one click or none.
LEMMA StudioCounts ==
  ASSUME [StudioNext]_studioVars
  PROVE  Counts
<1>1. Clicked => Counts BY DEF Clicked, Counts
<1>2. UNCHANGED clicks => Counts BY DEF Counts
<1>3. ASSUME NEW h, NEW call, NEW todo, NEW u, Starts(h, call, todo, u) PROVE Counts
  BY <1>1, <1>3 DEF Starts
<1>4. ASSUME NEW u, OnlyShows(u) PROVE Counts
  BY <1>1, <1>4 DEF OnlyShows
<1>5. ASSUME NEW h \in Handlers,
             \/ SelectProject(h) \/ \E q \in Quests : SelectQuest(h, q)
             \/ CreateCurrentPlaytest(h) \/ RefreshPlaytestEvidence(h) \/ LaunchCurrentPlayer(h)
             \/ ValidateCurrentDraft(h) \/ AskAuthorAssistant(h) \/ ApplyAuthorProposal(h)
             \/ \E q \in Quests : CloneSelectedQuest(h, q) \/ ImportQuestFile(h, q)
             \/ ExportQuest(h) \/ PrepareDeleteBlock(h) \/ Logout(h)
      PROVE  Counts
  BY <1>3, <1>5 DEF SelectProject, SelectQuest, CreateCurrentPlaytest, RefreshPlaytestEvidence,
     LaunchCurrentPlayer, ValidateCurrentDraft, AskAuthorAssistant, ApplyAuthorProposal,
     CloneSelectedQuest, ImportQuestFile, ExportQuest, PrepareDeleteBlock, Logout
<1>6. ASSUME NEW h \in Handlers,
             \/ SaveChanges(h) \/ RetryConflict(h) \/ ConfirmDeleteBlock(h)
             \/ ConfirmRestore(h) \/ ConfirmReleaseBuild(h) \/ ConfirmPublication(h)
      PROVE  Counts
  BY <1>3, <1>4, <1>6 DEF SaveChanges, RetryConflict, RetryOf, ConfirmDeleteBlock, ConfirmRestore,
     ConfirmReleaseBuild, ConfirmPublication
<1>7. CASE \/ CancelConflict \/ CancelIntent
           \/ \E n : PrepareRestore(n)
           \/ \E r : PrepareReleaseBuild(r) \/ PreparePublicationReport(r)
  BY <1>4, <1>7 DEF CancelConflict, CancelIntent, PrepareRestore, PrepareReleaseBuild,
     PreparePublicationReport
<1>8. CASE \/ \E h \in Handlers : Serve(h) \/ Lose(h) \/ Arrives(h)
           \/ \E q \in Quests : OtherAuthor(q)
           \/ UNCHANGED studioVars
  BY <1>2, <1>8 DEF Serve, Lose, Arrives, OtherAuthor, studioVars
<1> QED BY <1>5, <1>6, <1>7, <1>8 DEF StudioNext

LEMMA StudioStepKeeps ==
  ASSUME StudioIInv, [StudioNext]_studioVars
  PROVE  StudioIInv'
<1>0. "conflict" \in DOMAIN ui /\ "landed" \in DOMAIN server BY DEF StudioIInv, StudioFits
<1> USE StudioCounts
<1>1. CASE UNCHANGED studioVars
  BY <1>0, <1>1, OnlyShown DEF studioVars
<1>2. ASSUME NEW h \in Handlers, Lose(h) PROVE StudioIInv'
  BY <1>0, <1>2, AnswerComes DEF Lose
<1>3. ASSUME NEW q \in Quests, OtherAuthor(q) PROVE StudioIInv'
  <2>1. "landed" \in DOMAIN server' /\ server'.landed = server.landed
    BY <1>0, <1>3 DEF OtherAuthor, NewRevision
  <2> QED BY <1>0, <1>3, <2>1, OnlyShown DEF OtherAuthor
<1> QED BY <1>1, <1>2, <1>3, OtherClicks, EditClicks, ServeKeeps, ArrivesKeeps, ShowingKeeps
    DEF StudioNext

\* An edit lands at most once however often its author clicks and whatever is lost, and
\* a conflict that is offered to be sent again has not landed (saveChanges, retryConflict).
THEOREM SubmissionsLandOnce == StudioSpec => []EditsLandOnce
<1>1. StudioIInv /\ [StudioNext]_studioVars => StudioIInv' BY StudioStepKeeps
<1>2. StudioIInv => EditsLandOnce
  <2> SUFFICES ASSUME StudioIInv PROVE EditsLandOnce OBVIOUS
  <2>1. \A i \in DOMAIN server.landed : server.landed[i] \in Nat
    BY DEF StudioIInv, StudioFits
  <2>2. ui.conflict # NotUsed => ~Landed(ui.conflict.edit)
    BY DEF StudioIInv, StudioFits, OnePlace
  <2> QED BY <2>1, <2>2 DEF StudioIInv, OnePlace, Landed, EditsLandOnce
<1>3. StudioSpec => []StudioIInv BY <1>1, StudioInitially, PTL DEF StudioSpec
<1> QED BY <1>2, <1>3, PTL

-----------------------------------------------------------------------------
(* Plans: induction, and what a recursion defines                          *)

\* Induction on the natural numbers, by the least one that is not in a set.
LEMMA Induction ==
  ASSUME NEW S \in SUBSET Nat, 0 \in S, \A n \in S : n + 1 \in S
  PROVE  S = Nat
<1>1. SUFFICES ASSUME NEW m \in Nat, m \notin S PROVE FALSE
  OBVIOUS
<1> DEFINE T == {0..k : k \in (0..m) \ S}
           R == StrictSubsetOrdering(0..m)
<1>2. IsWellFoundedOn(R, FiniteSubsetsOf(0..m))
  BY FS_StrictSubsetOrderingWellFounded
<1>3. T \subseteq FiniteSubsetsOf(0..m)
  <2>1. \A k \in 0..m : 0..k \subseteq 0..m /\ IsFiniteSet(0..k)
    BY FS_Interval
  <2> QED BY <2>1 DEF FiniteSubsetsOf
<1>4. T # {}
  BY <1>1
<1> HIDE DEF T, R
<1>5. PICK x \in T : \A y \in T : <<y, x>> \notin R
  BY <1>2, <1>3, <1>4, WFMin
<1> USE DEF T
<1>6. PICK k \in (0..m) \ S : x = 0..k
  BY <1>5
<1>7. k # 0 /\ k - 1 \in 0..m /\ k - 1 \notin S
  BY <1>1, <1>6
<1>8. 0..(k - 1) \in T /\ <<0..(k - 1), 0..k>> \in R
  BY <1>3, <1>6, <1>7 DEF R, StrictSubsetOrdering
<1> QED BY <1>5, <1>6, <1>8

\* Of what recursion defines: if the value at a point depends on those of lower rank
\* alone, there is a function that satisfies the recursion.
IsRecursion(P, V, N, rank, G) ==
  /\ N \in Nat /\ rank \in [P -> 0..N] /\ G \in [[P -> V] -> [P -> V]]
  /\ \A f, h \in [P -> V] : \A x \in P :
       (\A y \in P : rank[y] < rank[x] => f[y] = h[y]) => G[f][x] = G[h][x]

\* A recursion whose values depend on those of lower rank alone defines a function.
LEMMA Recursion ==
  ASSUME NEW P, NEW V, NEW N, NEW rank, NEW G, IsRecursion(P, V, N, rank, G), NEW g \in [P -> V]
  PROVE  \E f \in [P -> V] : G[f] = f
<1> USE DEF IsRecursion
<1> DEFINE Fits(n) == \E f \in [P -> V] : \A x \in P : rank[x] < n => G[f][x] = f[x]
           S == {n \in Nat : Fits(n)}
<1>1. Fits(0)
  <2>1. \A x \in P : ~(rank[x] < 0)
    OBVIOUS
  <2> QED BY <2>1
<1>2. ASSUME NEW n \in Nat, Fits(n) PROVE Fits(n + 1)
  <2>1. PICK f \in [P -> V] : \A x \in P : rank[x] < n => G[f][x] = f[x]
    BY <1>2
  <2>2. PICK h \in [P -> V] : h = G[f]
    OBVIOUS
  <2>3. ASSUME NEW x \in P, rank[x] < n + 1 PROVE G[h][x] = h[x]
    <3>1. ASSUME NEW y \in P, rank[y] < rank[x] PROVE h[y] = f[y]
      <4>1. rank[y] \in Nat /\ rank[x] \in Nat
        OBVIOUS
      <4>2. rank[y] < n
        BY <2>3, <3>1, <4>1
      <4> QED BY <2>1, <2>2, <4>2
    <3> QED BY <2>2, <3>1
  <2> QED BY <2>3
<1> HIDE DEF Fits
<1>3. S = Nat
  <2>1. S \in SUBSET Nat /\ 0 \in S /\ \A n \in S : n + 1 \in S
    BY <1>1, <1>2
  <2> HIDE DEF S
  <2> QED BY <2>1, Induction
<1>4. Fits(N + 1)
  BY <1>3
<1>5. PICK f \in [P -> V] : \A x \in P : rank[x] < N + 1 => G[f][x] = f[x]
  BY <1>4 DEF Fits
<1>6. \A x \in P : G[f][x] = f[x]
  BY <1>5
<1>7. G[f] \in [P -> V]
  OBVIOUS
<1>8. G[f] = f
  BY <1>6, <1>7
<1> QED BY <1>8

-----------------------------------------------------------------------------
(* Plans: paths                                                            *)

Paths == Seq(Nat \ {0})
StartsWith(q, r) == Len(q) <= Len(r) /\ \A k \in 1..Len(q) : q[k] = r[k]

\* The path of a child.
LEMMA ChildIs ==
  ASSUME NEW q \in Paths, NEW i \in Nat \ {0}
  PROVE  /\ Child(q, i) \in Paths /\ Len(Child(q, i)) = Len(q) + 1 /\ Child(q, i) # <<>>
         /\ \A k \in 1..Len(q) : Child(q, i)[k] = q[k]
         /\ Child(q, i)[Len(q) + 1] = i
         /\ Front(Child(q, i)) = q /\ Last(Child(q, i)) = i
<1>1. /\ Child(q, i) \in Paths /\ Len(Child(q, i)) = Len(q) + 1
      /\ \A k \in 1..Len(q) : Child(q, i)[k] = q[k]
      /\ Child(q, i)[Len(q) + 1] = i
  BY AppendProperties DEF Child, Paths
<1> DEFINE c == Child(q, i)
<1> HIDE DEF c
<1>2. c \in Paths /\ Len(c) = Len(q) + 1 /\ (\A k \in 1..Len(q) : c[k] = q[k]) /\ c[Len(q) + 1] = i
  BY <1>1 DEF c
<1>3. Front(c) = q
  <2>1. Front(c) \in Paths /\ Len(Front(c)) = Len(q) /\ \A k \in 1..Len(q) : Front(c)[k] = c[k]
    BY <1>2, SubSeqProperties DEF Front, Paths
  <2> QED BY <1>2, <2>1, SeqEqual DEF Paths
<1>4. Last(c) = i /\ c # <<>>
  BY <1>2 DEF Last, Paths
<1> QED BY <1>2, <1>3, <1>4 DEF c

\* The path of the parent.
LEMMA FrontIs ==
  ASSUME NEW q \in Paths, q # <<>>
  PROVE  /\ Front(q) \in Paths /\ Len(Front(q)) = Len(q) - 1 /\ Last(q) = q[Len(q)] /\ Len(q) > 0
         /\ \A k \in 1..Len(q) - 1 : Front(q)[k] = q[k]
         /\ Child(Front(q), Last(q)) = q
<1>1. Len(q) \in Nat /\ Len(q) > 0 /\ Last(q) = q[Len(q)] /\ Last(q) \in Nat \ {0}
  BY EmptySeq DEF Paths, Last
<1>2. PICK n \in Nat : n = Len(q) - 1 /\ Len(q) = n + 1
  BY <1>1
<1>3. PICK u : u = Front(q)
  OBVIOUS
<1>4. u \in Paths /\ Len(u) = n /\ \A k \in 1..n : u[k] = q[k]
  <2>1. u = SubSeq(q, 1, n)
    BY <1>2, <1>3 DEF Front
  <2> QED BY <1>2, <2>1, SubSeqProperties DEF Paths
<1>5. PICK i \in Nat \ {0} : i = Last(q)
  BY <1>1
<1> DEFINE c == Child(u, i)
<1>6. c \in Paths /\ Len(c) = n + 1 /\ (\A k \in 1..n : c[k] = u[k]) /\ c[n + 1] = i
  BY <1>4, ChildIs
<1> HIDE DEF c
<1>7. \A k \in 1..n + 1 : c[k] = q[k]
  <2> TAKE k \in 1..n + 1
  <2>1. CASE k \in 1..n
    BY <1>4, <1>6, <2>1
  <2>2. CASE k = n + 1
    BY <1>1, <1>2, <1>5, <1>6, <2>2
  <2> QED BY <2>1, <2>2
<1>8. c = q
  BY <1>2, <1>6, <1>7, SeqEqual DEF Paths
<1> QED BY <1>1, <1>2, <1>3, <1>4, <1>5, <1>8 DEF c

\* The beginning of a path that starts with another.
LEMMA BeginningIs ==
  ASSUME NEW q \in Paths, NEW r \in Paths, StartsWith(q, r)
  PROVE  SubSeq(r, 1, Len(q)) = q
<1>1. PICK n \in Nat : n = Len(q) /\ n <= Len(r)
  BY DEF StartsWith, Paths
<1>2. PICK u : u = SubSeq(r, 1, n)
  OBVIOUS
<1>3. u \in Paths /\ Len(u) = n /\ \A k \in 1..n : u[k] = r[k]
  BY <1>1, <1>2, SubSeqProperties DEF Paths
<1>4. \A k \in 1..n : u[k] = q[k]
  BY <1>1, <1>3 DEF StartsWith
<1>5. u = q
  BY <1>1, <1>3, <1>4, SeqEqual DEF Paths
<1> QED BY <1>1, <1>2, <1>5

\* One path is on the way to another if they agree as long as the first goes.
LEMMA PrefixIs ==
  ASSUME NEW q \in Paths, NEW r \in Paths
  PROVE  IsPrefix(q, r) <=> StartsWith(q, r)
<1>1. SubSeq(q, 1, Len(q)) = q
  <2>1. /\ SubSeq(q, 1, Len(q)) \in Paths /\ Len(SubSeq(q, 1, Len(q))) = Len(q)
        /\ \A k \in 1..Len(q) : SubSeq(q, 1, Len(q))[k] = q[k]
    BY SubSeqProperties DEF Paths
  <2> QED BY <2>1, SeqEqual DEF Paths
<1>2. CASE Len(q) <= Len(r)
  <2>1. /\ SubSeq(r, 1, Len(q)) \in Paths /\ Len(SubSeq(r, 1, Len(q))) = Len(q)
        /\ \A k \in 1..Len(q) : SubSeq(r, 1, Len(q))[k] = r[k]
    BY <1>2, SubSeqProperties DEF Paths
  <2>2. (\A k \in 1..Len(q) : q[k] = r[k]) => q = SubSeq(r, 1, Len(q))
    BY <2>1, SeqEqual DEF Paths
  <2> QED BY <1>1, <1>2, <2>1, <2>2 DEF IsPrefix, StartsWith
<1>3. CASE ~(Len(q) <= Len(r))
  BY <1>3 DEF IsPrefix, StartsWith
<1> QED BY <1>2, <1>3

\* The nodes on the way from the root to a node.
LEMMA Ancestors ==
  ASSUME NEW plan, IsPlan(plan), NEW q \in DOMAIN plan, NEW k \in 0..Len(q)
  PROVE  /\ q \in Paths
         /\ SubSeq(q, 1, k) \in DOMAIN plan /\ SubSeq(q, 1, k) \in Paths
         /\ Len(SubSeq(q, 1, k)) = k /\ \A j \in 1..k : SubSeq(q, 1, k)[j] = q[j]
         /\ k # 0 => /\ ~IsLeaf(plan[SubSeq(q, 1, k - 1)])
                     /\ q[k] \in 1..plan[SubSeq(q, 1, k - 1)].children
<1> DEFINE up(n) == SubSeq(q, 1, n)
           S == {n \in Nat : n <= Len(q) => up(Len(q) - n) \in DOMAIN plan}
<1>1. q \in Paths /\ Len(q) \in Nat
  BY DEF IsPlan, Paths
<1>2. ASSUME NEW n \in 0..Len(q)
      PROVE  up(n) \in Paths /\ Len(up(n)) = n /\ \A j \in 1..n : up(n)[j] = q[j]
  BY <1>1, SubSeqProperties DEF Paths
<1>3. ASSUME NEW n \in 1..Len(q), up(n) \in DOMAIN plan
      PROVE  /\ up(n - 1) \in DOMAIN plan /\ ~IsLeaf(plan[up(n - 1)])
             /\ q[n] \in 1..plan[up(n - 1)].children
  <2>1. /\ up(n) \in Paths /\ Len(up(n)) = n /\ \A j \in 1..n : up(n)[j] = q[j]
        /\ up(n - 1) \in Paths /\ Len(up(n - 1)) = n - 1 /\ \A j \in 1..n - 1 : up(n - 1)[j] = q[j]
    <3>1. n \in 0..Len(q) /\ n - 1 \in 0..Len(q)
      BY <1>1
    <3> QED BY <1>2, <3>1
  <2> HIDE DEF up
  <2>2. up(n) # <<>>
    BY <1>1, <2>1
  <2>3. /\ Front(up(n)) \in Paths /\ Len(Front(up(n))) = n - 1 /\ Last(up(n)) = q[n]
        /\ \A j \in 1..n - 1 : Front(up(n))[j] = q[j]
    <3>1. PICK u \in Paths : u = up(n)
      BY <2>1
    <3>2. Len(u) = n /\ \A j \in 1..n : u[j] = q[j]
      BY <2>1, <3>1
    <3>3. Front(u) \in Paths /\ Len(Front(u)) = n - 1 /\ Last(u) = u[n] /\ \A j \in 1..n - 1 : Front(u)[j] = u[j]
      BY <2>2, <3>1, <3>2, FrontIs
    <3>4. u[n] = q[n] /\ \A j \in 1..n - 1 : u[j] = q[j]
      BY <1>1, <3>2
    <3> HIDE DEF up
    <3> QED BY <3>1, <3>3, <3>4
  <2>4. Front(up(n)) = up(n - 1)
    BY <1>1, <2>1, <2>3, SeqEqual DEF Paths
  <2> QED BY <1>3, <2>2, <2>3, <2>4 DEF IsPlan
<1>4. S = Nat
  <2>1. up(Len(q)) = q
    <3>1. /\ up(Len(q)) \in Paths /\ Len(up(Len(q))) = Len(q)
          /\ \A j \in 1..Len(q) : up(Len(q))[j] = q[j]
      BY <1>1, <1>2
    <3> HIDE DEF up
    <3> QED BY <1>1, <3>1, SeqEqual DEF Paths
  <2>2. 0 \in S
    <3>1. Len(q) - 0 = Len(q)
      BY <1>1
    <3> HIDE DEF up
    <3> QED BY <2>1, <3>1
  <2>3. ASSUME NEW n \in S PROVE n + 1 \in S
    <3> SUFFICES ASSUME n + 1 <= Len(q) PROVE up(Len(q) - (n + 1)) \in DOMAIN plan
      OBVIOUS
    <3>1. PICK m \in 1..Len(q) : m = Len(q) - n /\ m - 1 = Len(q) - (n + 1)
      BY <1>1
    <3>2. up(m) \in DOMAIN plan
      BY <1>1, <3>1
    <3> HIDE DEF up
    <3> QED BY <1>3, <3>1, <3>2
  <2> HIDE DEF S
  <2> QED BY <2>2, <2>3, Induction DEF S
<1>5. \A n \in 0..Len(q) : up(n) \in DOMAIN plan
  <2> TAKE n \in 0..Len(q)
  <2>1. PICK m \in Nat : m = Len(q) - n /\ m <= Len(q) /\ Len(q) - m = n
    BY <1>1
  <2>2. up(Len(q) - m) \in DOMAIN plan
    BY <1>4, <2>1
  <2> QED BY <2>1, <2>2
<1>6. k # 0 => k \in 1..Len(q)
  BY <1>1
<1> HIDE DEF up
<1>7. k # 0 => ~IsLeaf(plan[up(k - 1)]) /\ q[k] \in 1..plan[up(k - 1)].children
  BY <1>3, <1>5, <1>6
<1> QED BY <1>1, <1>2, <1>5, <1>7 DEF up

\* What is below a node is below one of its children.
LEMMA WayDown ==
  ASSUME NEW plan, IsPlan(plan), NEW q \in DOMAIN plan, NEW l \in DOMAIN plan, StartsWith(q, l), l # q
  PROVE  /\ q \in Paths /\ l \in Paths /\ Len(q) < Len(l) /\ ~IsLeaf(plan[q])
         /\ l[Len(q) + 1] \in 1..plan[q].children
         /\ StartsWith(Child(q, l[Len(q) + 1]), l)
<1>1. q \in Paths /\ l \in Paths /\ Len(q) \in Nat /\ Len(l) \in Nat
  BY DEF IsPlan, Paths
<1>2. Len(q) < Len(l)
  <2>1. Len(q) = Len(l) => q = l
    BY <1>1, SeqEqual DEF StartsWith, Paths
  <2> QED BY <1>1, <2>1 DEF StartsWith
<1> DEFINE u == SubSeq(l, 1, Len(q))
<1>3. /\ u \in Paths /\ Len(u) = Len(q) /\ \A j \in 1..Len(q) : u[j] = l[j]
      /\ ~IsLeaf(plan[u]) /\ l[Len(q) + 1] \in 1..plan[u].children
  <2>1. Len(q) + 1 \in 0..Len(l) /\ (Len(q) + 1) - 1 = Len(q) /\ Len(q) + 1 # 0 /\ Len(q) \in 0..Len(l)
    BY <1>1, <1>2
  <2> QED BY <2>1, Ancestors
<1> HIDE DEF u
<1>4. u = q
  BY <1>1, <1>3, SeqEqual DEF StartsWith, Paths
<1>5. plan[q].children \in Nat
  BY <1>3, <1>4 DEF IsPlan
<1>6. PICK i \in Nat \ {0} : i = l[Len(q) + 1]
  BY <1>3, <1>4, <1>5
<1>7. StartsWith(Child(q, i), l)
  <2>1. PICK c : c = Child(q, i)
    OBVIOUS
  <2>2. Len(c) = Len(q) + 1 /\ (\A k \in 1..Len(q) : c[k] = q[k]) /\ c[Len(q) + 1] = i
    BY <1>1, <2>1, ChildIs
  <2>3. \A k \in 1..Len(q) : q[k] = l[k]
    BY DEF StartsWith
  <2>4. ASSUME NEW k \in 1..Len(q) + 1 PROVE c[k] = l[k]
    <3>1. k \in 1..Len(q) \/ k = Len(q) + 1
      BY <1>1
    <3> QED BY <1>6, <2>2, <2>3, <3>1
  <2>5. Len(c) <= Len(l)
    BY <1>1, <1>2, <2>2
  <2> QED BY <2>1, <2>2, <2>4, <2>5 DEF StartsWith
<1> QED BY <1>1, <1>2, <1>3, <1>4, <1>6, <1>7

\* What is below a child is below its parent.
LEMMA WayUp ==
  ASSUME NEW q \in Paths, NEW i \in Nat \ {0}, NEW l \in Paths, StartsWith(Child(q, i), l)
  PROVE  StartsWith(q, l) /\ Len(l) > Len(q) /\ l[Len(q) + 1] = i
<1>1. Len(q) \in Nat /\ Len(l) \in Nat
  BY DEF Paths
<1>2. PICK c : c = Child(q, i)
  OBVIOUS
<1>3. Len(c) = Len(q) + 1 /\ (\A k \in 1..Len(q) : c[k] = q[k]) /\ c[Len(q) + 1] = i
  BY <1>2, ChildIs
<1>4. Len(c) <= Len(l) /\ \A k \in 1..Len(c) : c[k] = l[k]
  BY <1>2 DEF StartsWith
<1>5. Len(q) <= Len(l) /\ Len(l) > Len(q)
  BY <1>1, <1>3, <1>4
<1>6. ASSUME NEW k \in 1..Len(q) PROVE q[k] = l[k]
  <2>1. k \in 1..Len(c)
    BY <1>1, <1>3
  <2> QED BY <1>3, <1>4, <2>1
<1>7. l[Len(q) + 1] = i
  <2>1. Len(q) + 1 \in 1..Len(c)
    BY <1>1, <1>3
  <2> QED BY <1>3, <1>4, <2>1
<1> QED BY <1>5, <1>6, <1>7 DEF StartsWith

\* Of the commands below two children of a sequence, those of the elder come first.
LEMMA PrecedesAcross ==
  ASSUME NEW plan, NEW q \in Paths, plan[q].type = "sequence", NEW i \in Nat \ {0}, NEW j \in Nat \ {0}, i < j,
         NEW l \in Paths, NEW r \in Paths, StartsWith(Child(q, i), l), StartsWith(Child(q, j), r)
  PROVE  Precedes(plan, l, r)
<1> DEFINE k == Len(q) + 1
<1>1. /\ Len(q) \in Nat /\ Len(l) \in Nat /\ Len(r) \in Nat
      /\ DOMAIN l = 1..Len(l) /\ DOMAIN r = 1..Len(r)
  BY DEF Paths
<1>2. /\ StartsWith(q, l) /\ Len(l) > Len(q) /\ l[k] = i
      /\ StartsWith(q, r) /\ Len(r) > Len(q) /\ r[k] = j
  BY WayUp
<1>3. SubSeq(l, 1, k - 1) = q /\ SubSeq(r, 1, k - 1) = q
  <2>1. SubSeq(l, 1, Len(q)) = q /\ SubSeq(r, 1, Len(q)) = q
    BY <1>2, BeginningIs
  <2>2. k - 1 = Len(q)
    BY <1>1
  <2> QED BY <2>1, <2>2
<1>4. k \in (DOMAIN l) \cap (DOMAIN r)
  BY <1>1, <1>2
<1>5. l[k] < r[k]
  BY <1>2
<1> HIDE DEF k
<1> QED BY <1>3, <1>4, <1>5 DEF Precedes, PartAt

\* No command comes before itself.
LEMMA PrecedesIsStrict ==
  ASSUME NEW plan, NEW l \in Paths
  PROVE  ~Precedes(plan, l, l)
<1>1. \A k \in DOMAIN l : ~(l[k] < l[k])
  BY DEF Paths
<1> QED BY <1>1 DEF Precedes, PartAt

-----------------------------------------------------------------------------
(* Plans: the order in which applyNode comes to the points                 *)

\* A point is where a node is entered or left.  What is left of a way is dealt with before
\* it, the nodes on the way down are entered before, and those below are left before.
Left(r, q) ==
  \E k \in 1..Len(r) : k <= Len(q) /\ (\A j \in 1..k - 1 : r[j] = q[j]) /\ r[k] < q[k]

Earlier(y, x) ==
  \/ Left(y[1], x[1])
  \/ y[2] = "before" /\ StartsWith(y[1], x[1]) /\ (x[2] = "before" => y[1] # x[1])
  \/ x[2] = "after" /\ StartsWith(x[1], y[1]) /\ y[1] # x[1]

\* The rank of a point is the number of those that come earlier.
Down(plan, x) == {y \in Points(plan) : Earlier(y, x)}
RankOf(plan, x) == Cardinality(Down(plan, x))

Extends(c, q, i) ==
  /\ q \in Paths /\ c \in Paths /\ i \in Nat
  /\ Len(c) = Len(q) + 1 /\ c[Len(q) + 1] = i /\ \A k \in 1..Len(q) : c[k] = q[k]

\* What is found on the way down is found before what is below.
LEMMA EarlierDown ==
  ASSUME NEW c, NEW q, NEW i, Extends(c, q, i)
  PROVE  /\ Earlier(<<q, "before">>, <<c, "before">>)
         /\ \A r \in Paths : Left(r, q) => Left(r, c)
         /\ \A r \in Paths : StartsWith(r, q) => StartsWith(r, c) /\ r # c
<1>1. Len(q) \in Nat /\ Len(c) = Len(q) + 1 /\ \A k \in 1..Len(q) : c[k] = q[k]
  BY DEF Extends, Paths
<1>2. ASSUME NEW r \in Paths, Left(r, q) PROVE Left(r, c)
  <2>1. PICK k \in 1..Len(r) : k <= Len(q) /\ (\A j \in 1..k - 1 : r[j] = q[j]) /\ r[k] < q[k]
    BY <1>2 DEF Left
  <2>2. k <= Len(c) /\ c[k] = q[k] /\ \A j \in 1..k - 1 : c[j] = q[j]
    <3>1. Len(r) \in Nat
      BY DEF Paths
    <3> QED BY <1>1, <2>1, <3>1
  <2> QED BY <2>1, <2>2 DEF Left
<1>3. ASSUME NEW r \in Paths, StartsWith(r, q) PROVE StartsWith(r, c) /\ r # c
  <2>1. Len(r) \in Nat /\ Len(r) <= Len(q) /\ \A k \in 1..Len(r) : r[k] = q[k]
    BY <1>3 DEF StartsWith, Paths
  <2> QED BY <1>1, <2>1 DEF StartsWith
<1>4. StartsWith(q, q) /\ q \in Paths
  BY <1>1 DEF StartsWith, Extends
<1>5. Earlier(<<q, "before">>, <<c, "before">>)
  BY <1>3, <1>4 DEF Earlier
<1> QED BY <1>2, <1>3, <1>5

\* What is below a node is left before the node is.
LEMMA EarlierUp ==
  ASSUME NEW c, NEW q, NEW i, Extends(c, q, i)
  PROVE  /\ StartsWith(q, c) /\ c # q
         /\ \A r \in Paths : Left(r, c) => Left(r, q) \/ (StartsWith(q, r) /\ r # q)
         /\ \A r \in Paths : StartsWith(r, c) => StartsWith(r, q) \/ (r = c /\ StartsWith(q, r) /\ r # q)
         /\ \A r \in Paths : StartsWith(c, r) => StartsWith(q, r) /\ r # q
<1>1. /\ Len(q) \in Nat /\ Len(c) = Len(q) + 1 /\ \A k \in 1..Len(q) : c[k] = q[k]
      /\ c[Len(q) + 1] = i
  BY DEF Extends, Paths
<1>2. ASSUME NEW r \in Paths, Left(r, c) PROVE Left(r, q) \/ (StartsWith(q, r) /\ r # q)
  <2>1. PICK k \in 1..Len(r) : k <= Len(c) /\ (\A j \in 1..k - 1 : r[j] = c[j]) /\ r[k] < c[k]
    BY <1>2 DEF Left
  <2>2. Len(r) \in Nat
    BY DEF Paths
  <2>3. CASE k <= Len(q)
    BY <1>1, <2>1, <2>2, <2>3 DEF Left
  <2>4. CASE k = Len(q) + 1
    <3>1. \A j \in 1..Len(q) : r[j] = c[j]
      BY <1>1, <2>1, <2>4
    <3>2. Len(r) >= Len(q) + 1
      BY <1>1, <2>2, <2>4
    <3> QED BY <1>1, <2>2, <3>1, <3>2 DEF StartsWith
  <2> QED BY <1>1, <2>1, <2>2, <2>3, <2>4
<1>3. ASSUME NEW r \in Paths, StartsWith(r, c)
      PROVE  StartsWith(r, q) \/ (r = c /\ StartsWith(q, r) /\ r # q)
  <2>1. Len(r) \in Nat /\ Len(r) <= Len(q) + 1 /\ \A k \in 1..Len(r) : r[k] = c[k]
    BY <1>1, <1>3 DEF StartsWith, Paths
  <2>2. CASE Len(r) <= Len(q)
    BY <1>1, <2>1, <2>2 DEF StartsWith
  <2>3. CASE Len(r) = Len(q) + 1
    <3>1. r = c
      BY <1>1, <2>1, <2>3, SeqEqual DEF Extends, Paths
    <3> QED BY <1>1, <2>3, <3>1 DEF StartsWith
  <2> QED BY <1>1, <2>1, <2>2, <2>3
<1>4. ASSUME NEW r \in Paths, StartsWith(c, r) PROVE StartsWith(q, r) /\ r # q
  <2>1. Len(r) \in Nat /\ Len(q) + 1 <= Len(r) /\ \A k \in 1..Len(q) + 1 : c[k] = r[k]
    BY <1>1, <1>4 DEF StartsWith, Paths
  <2> QED BY <1>1, <2>1 DEF StartsWith
<1>5. StartsWith(q, c) /\ c # q
  BY <1>1 DEF StartsWith
<1> QED BY <1>2, <1>3, <1>4, <1>5

\* An elder child is left before a younger one is come to.
LEMMA EarlierBeside ==
  ASSUME NEW c, NEW d, NEW q, NEW i, NEW j, Extends(c, q, i), Extends(d, q, j), i < j
  PROVE  /\ Left(c, d)
         /\ \A r \in Paths : Left(r, c) => Left(r, d)
         /\ \A r \in Paths : StartsWith(r, c) => Left(r, d) \/ (StartsWith(r, d) /\ r # d)
         /\ \A r \in Paths : StartsWith(c, r) => Left(r, d)
<1>1. /\ Len(q) \in Nat /\ Len(c) = Len(q) + 1 /\ (\A k \in 1..Len(q) : c[k] = q[k]) /\ c[Len(q) + 1] = i
      /\ Len(d) = Len(q) + 1 /\ (\A k \in 1..Len(q) : d[k] = q[k]) /\ d[Len(q) + 1] = j
      /\ i \in Nat /\ j \in Nat
  BY DEF Extends, Paths
<1> DEFINE n == Len(q) + 1
<1>2. ASSUME NEW r \in Paths, StartsWith(c, r) PROVE Left(r, d)
  <2>1. Len(r) \in Nat /\ n <= Len(r) /\ \A k \in 1..n : c[k] = r[k]
    BY <1>1, <1>2 DEF StartsWith, Paths
  <2>2. n \in 1..Len(r) /\ n <= Len(d) /\ r[n] = i /\ d[n] = j
    BY <1>1, <2>1
  <2>3. \A k \in 1..n - 1 : r[k] = d[k]
    BY <1>1, <2>1
  <2> HIDE DEF n
  <2> QED BY <2>2, <2>3 DEF Left
<1>3. ASSUME NEW r \in Paths, Left(r, c) PROVE Left(r, d)
  <2>1. PICK k \in 1..Len(r) : k <= Len(c) /\ (\A m \in 1..k - 1 : r[m] = c[m]) /\ r[k] < c[k]
    BY <1>3 DEF Left
  <2>2. Len(r) \in Nat /\ r[k] \in Nat
    BY DEF Paths
  <2>3. (\A m \in 1..k - 1 : r[m] = d[m]) /\ k <= Len(d)
    BY <1>1, <2>1, <2>2
  <2>4. r[k] < d[k]
    <3>1. CASE k <= Len(q)
      BY <1>1, <2>1, <2>2, <3>1
    <3>2. CASE k = Len(q) + 1
      BY <1>1, <2>1, <2>2, <3>2
    <3> QED BY <1>1, <2>1, <2>2, <3>1, <3>2
  <2> QED BY <2>3, <2>4 DEF Left
<1>4. c \in Paths /\ StartsWith(c, c)
  BY <1>1 DEF StartsWith, Extends
<1>5. ASSUME NEW r \in Paths, StartsWith(r, c) PROVE Left(r, d) \/ (StartsWith(r, d) /\ r # d)
  <2>1. StartsWith(r, q) \/ r = c
    BY <1>5, EarlierUp
  <2>2. StartsWith(r, q) => StartsWith(r, d) /\ r # d
    BY EarlierDown
  <2> QED BY <1>2, <1>4, <2>1, <2>2
<1> QED BY <1>2, <1>3, <1>4, <1>5

\* No point comes before itself.
LEMMA EarlierIsStrict ==
  ASSUME NEW plan, IsPlan(plan), NEW x \in Points(plan)
  PROVE  ~Earlier(x, x)
<1>1. x[1] \in Paths
  BY DEF Points, IsPlan, Paths
<1>2. ~Left(x[1], x[1])
  <2>1. \A k \in 1..Len(x[1]) : x[1][k] \in Nat
    BY <1>1 DEF Paths
  <2> QED BY <2>1 DEF Left
<1>3. x[2] \in {"before", "after"}
  BY DEF Points
<1> QED BY <1>2, <1>3 DEF Earlier

\* There are finitely many points.
LEMMA PointsAreFinite ==
  ASSUME NEW plan, IsPlan(plan)
  PROVE  IsFiniteSet(Points(plan))
<1>1. ASSUME NEW a, NEW b PROVE IsFiniteSet({a, b})
  <2>1. IsFiniteSet({a}) /\ {a, b} = {a} \cup {b}
    BY FS_Singleton
  <2> QED BY <2>1, FS_AddElement
<1> QED BY <1>1, FS_Product DEF IsPlan, Points

\* What comes earlier has the lower rank.
LEMMA RankGrows ==
  ASSUME NEW plan, IsPlan(plan), NEW x \in Points(plan), NEW y \in Points(plan), Earlier(y, x),
         \A z \in Points(plan) : Earlier(z, y) => Earlier(z, x)
  PROVE  RankOf(plan, y) < RankOf(plan, x)
<1>1. IsFiniteSet(Points(plan))
  BY PointsAreFinite
<1>2. Down(plan, y) \subseteq Down(plan, x) /\ y \in Down(plan, x)
  BY DEF Down
<1>3. y \notin Down(plan, y)
  BY EarlierIsStrict DEF Down
<1>4. IsFiniteSet(Down(plan, x)) /\ IsFiniteSet(Down(plan, y))
  BY <1>1, FS_Subset DEF Down
<1>5. Cardinality(Down(plan, x)) \in Nat /\ Cardinality(Down(plan, y)) \in Nat
  BY <1>4, FS_CardinalityType
<1>6. Cardinality(Down(plan, y)) <= Cardinality(Down(plan, x))
  BY <1>2, <1>4, FS_Subset
<1>7. Cardinality(Down(plan, y)) # Cardinality(Down(plan, x))
  BY <1>2, <1>3, <1>4, FS_Subset
<1> QED BY <1>5, <1>6, <1>7 DEF RankOf

\* A rank is at most the number of points.
LEMMA RankIsBounded ==
  ASSUME NEW plan, IsPlan(plan)
  PROVE  /\ Cardinality(Points(plan)) \in Nat
         /\ \A x \in Points(plan) : RankOf(plan, x) \in 0..Cardinality(Points(plan))
<1>1. IsFiniteSet(Points(plan))
  BY PointsAreFinite
<1>2. Cardinality(Points(plan)) \in Nat
  BY <1>1, FS_CardinalityType
<1>3. ASSUME NEW x \in Points(plan) PROVE RankOf(plan, x) \in 0..Cardinality(Points(plan))
  <2>1. Down(plan, x) \in SUBSET Points(plan)
    BY DEF Down
  <2>2. IsFiniteSet(Down(plan, x)) /\ Cardinality(Down(plan, x)) <= Cardinality(Points(plan))
    BY <1>1, <2>1, FS_Subset
  <2>3. Cardinality(Down(plan, x)) \in Nat
    BY <2>2, FS_CardinalityType
  <2> QED BY <1>2, <2>2, <2>3 DEF RankOf
<1> QED BY <1>2, <1>3

\* What a node finds and leaves depends on points that come before.
LEMMA Dependencies ==
  ASSUME NEW plan, IsPlan(plan), NEW q \in DOMAIN plan
  PROVE  /\ RankOf(plan, <<q, "before">>) < RankOf(plan, <<q, "after">>)
         /\ ~IsLeaf(plan[q]) => \A i \in 1..plan[q].children :
              /\ Child(q, i) \in DOMAIN plan
              /\ RankOf(plan, <<q, "before">>) < RankOf(plan, <<Child(q, i), "before">>)
              /\ RankOf(plan, <<Child(q, i), "after">>) < RankOf(plan, <<q, "after">>)
              /\ \A j \in 1..plan[q].children : i < j =>
                   RankOf(plan, <<Child(q, i), "after">>) < RankOf(plan, <<Child(q, j), "before">>)
<1>1. q \in Paths /\ \A z \in Points(plan) : z[1] \in Paths /\ z[2] \in {"before", "after"}
  BY DEF IsPlan, Paths, Points
<1>2. \A r \in DOMAIN plan : <<r, "before">> \in Points(plan) /\ <<r, "after">> \in Points(plan)
  BY DEF Points
<1>3. StartsWith(q, q)
  BY <1>1 DEF StartsWith, Paths
<1>4. RankOf(plan, <<q, "before">>) < RankOf(plan, <<q, "after">>)
  <2>1. Earlier(<<q, "before">>, <<q, "after">>)
    BY <1>3 DEF Earlier
  <2>2. \A z \in Points(plan) : Earlier(z, <<q, "before">>) => Earlier(z, <<q, "after">>)
    BY DEF Earlier
  <2> QED BY <1>2, <2>1, <2>2, RankGrows
<1>5. ASSUME ~IsLeaf(plan[q]), NEW i \in 1..plan[q].children
      PROVE  Child(q, i) \in DOMAIN plan /\ Extends(Child(q, i), q, i)
  <2>1. plan[q].children \in Nat /\ Child(q, i) \in DOMAIN plan
    BY <1>5 DEF IsPlan
  <2>2. i \in Nat \ {0} /\ i \in Nat
    BY <2>1
  <2>3. /\ Child(q, i) \in Paths /\ Len(Child(q, i)) = Len(q) + 1
        /\ \A k \in 1..Len(q) : Child(q, i)[k] = q[k]
        /\ Child(q, i)[Len(q) + 1] = i
    BY <1>1, <2>2, ChildIs
  <2> QED BY <1>1, <2>1, <2>2, <2>3 DEF Extends
<1>6. ASSUME ~IsLeaf(plan[q]), NEW i \in 1..plan[q].children
      PROVE  /\ RankOf(plan, <<q, "before">>) < RankOf(plan, <<Child(q, i), "before">>)
             /\ RankOf(plan, <<Child(q, i), "after">>) < RankOf(plan, <<q, "after">>)
  <2>1. PICK c \in DOMAIN plan : c = Child(q, i) /\ Extends(c, q, i)
    BY <1>5, <1>6
  <2>2. Earlier(<<q, "before">>, <<c, "before">>)
    BY <2>1, EarlierDown
  <2>3. \A z \in Points(plan) : Earlier(z, <<q, "before">>) => Earlier(z, <<c, "before">>)
    BY <1>1, <2>1, EarlierDown DEF Earlier
  <2>4. Earlier(<<c, "after">>, <<q, "after">>)
    BY <2>1, EarlierUp DEF Earlier
  <2>5. ASSUME NEW z \in Points(plan), Earlier(z, <<c, "after">>) PROVE Earlier(z, <<q, "after">>)
    BY <1>1, <2>1, <2>5, EarlierUp DEF Earlier
  <2> QED BY <1>2, <2>1, <2>2, <2>3, <2>4, <2>5, RankGrows
<1>7. ASSUME ~IsLeaf(plan[q]), NEW i \in 1..plan[q].children, NEW j \in 1..plan[q].children, i < j
      PROVE  RankOf(plan, <<Child(q, i), "after">>) < RankOf(plan, <<Child(q, j), "before">>)
  <2>1. PICK c \in DOMAIN plan : c = Child(q, i) /\ Extends(c, q, i)
    BY <1>5, <1>7
  <2>2. PICK d \in DOMAIN plan : d = Child(q, j) /\ Extends(d, q, j)
    BY <1>5, <1>7
  <2>3. Earlier(<<c, "after">>, <<d, "before">>)
    BY <1>7, <2>1, <2>2, EarlierBeside DEF Earlier
  <2>4. ASSUME NEW z \in Points(plan), Earlier(z, <<c, "after">>) PROVE Earlier(z, <<d, "before">>)
    BY <1>1, <1>7, <2>1, <2>2, <2>4, EarlierBeside DEF Earlier
  <2> QED BY <1>2, <2>1, <2>2, <2>3, <2>4, RankGrows
<1> QED BY <1>4, <1>5, <1>6, <1>7

-----------------------------------------------------------------------------
(* Plans: states, commands and merges                                      *)

\* The values that can come up, and the states of them.
ValuesOf(plan, from) ==
  Int \cup {from[p] : p \in Properties}
    \cup UNION {{Writes(plan[l])[p] : p \in DOMAIN Writes(plan[l])} : l \in DOMAIN plan}

StatesOf(plan, from) ==
  {s \in [Properties -> ValuesOf(plan, from)] : \A p \in Properties : IsCount(p) => s[p] \in Int}

\* A state is never the lack of one.
LEMMA StateIsSome ==
  ASSUME NEW plan, NEW from, NEW s \in StatesOf(plan, from)
  PROVE  s # NoState /\ DOMAIN s = Properties
<1>1. <<"background", "scene">> \in Properties
  BY DEF Properties
<1>2. DOMAIN s = Properties
  BY DEF StatesOf
<1>3. DOMAIN NoState = {}
  BY DEF NoState
<1> QED BY <1>1, <1>2, <1>3

\* Commands write what is no count, and only the showing of an item counts.
LEMMA WritesAreNoCounts ==
  ASSUME NEW cmd, NEW p
  PROVE  /\ p \in DOMAIN Writes(cmd) => ~IsCount(p)
         /\ p \in Shown(cmd) => IsCount(p)
<1>1. ASSUME NEW kind, NEW x, NEW v, kind # "item", p \in DOMAIN Sets(kind, x, v) PROVE ~IsCount(p)
  BY <1>1 DEF Sets, Property, IsCount
<1>2. ASSUME p \in DOMAIN Writes(cmd) PROVE ~IsCount(p)
  <2>1. CASE cmd.type = "actor.show"
    <3>1. p \in {Property("visible", cmd.actor), Property("slot", cmd.actor)}
      BY <1>2, <2>1 DEF Writes
    <3> QED BY <3>1 DEF Property, IsCount
  <2>2. CASE cmd.type = "background.set"
    BY <1>1, <1>2, <2>2 DEF Writes
  <2>3. CASE cmd.type = "actor.hide"
    BY <1>1, <1>2, <2>3 DEF Writes
  <2>4. CASE cmd.type = "actor.move"
    BY <1>1, <1>2, <2>4 DEF Writes
  <2>5. CASE cmd.type = "actor.expression"
    BY <1>1, <1>2, <2>5 DEF Writes
  <2>6. CASE cmd.type = "dialogue.show"
    BY <1>1, <1>2, <2>6 DEF Writes
  <2>7. CASE cmd.type = "overlay.open"
    BY <1>1, <1>2, <2>7 DEF Writes
  <2>8. CASE cmd.type = "overlay.close"
    BY <1>1, <1>2, <2>8 DEF Writes
  <2>9. CASE cmd.type = "audio.play"
    BY <1>1, <1>2, <2>9 DEF Writes
  <2>10. CASE cmd.type = "audio.stop"
    BY <1>1, <1>2, <2>10 DEF Writes
  <2>11. CASE cmd.type \notin {"actor.show", "background.set", "actor.hide", "actor.move", "actor.expression",
                "dialogue.show", "overlay.open", "overlay.close", "audio.play", "audio.stop"}
    <3>1. Writes(cmd) = <<>>
      BY <2>11 DEF Writes
    <3> QED BY <1>2, <3>1
  <2> QED BY <2>1, <2>2, <2>3, <2>4, <2>5, <2>6, <2>7, <2>8, <2>9, <2>10, <2>11
<1>3. p \in Shown(cmd) => IsCount(p)
  BY DEF Shown, IsCount, Property
<1> QED BY <1>2, <1>3

\* What a command leaves, property by property.
LEMMA PerformIs ==
  ASSUME NEW state, DOMAIN state = Properties, NEW cmd
  PROVE  /\ DOMAIN Perform(state, cmd) = Properties
         /\ \A p \in Properties :
              /\ p \in Shown(cmd) => Perform(state, cmd)[p] = state[p] + 1
              /\ p \in DOMAIN Writes(cmd) => Perform(state, cmd)[p] = Writes(cmd)[p]
              /\ p \notin Shown(cmd) /\ p \notin DOMAIN Writes(cmd) => Perform(state, cmd)[p] = state[p]
<1>1. \A p : p \in Shown(cmd) => p \notin DOMAIN Writes(cmd)
  BY WritesAreNoCounts
<1> QED BY <1>1 DEF Perform

\* A command leaves a state.
LEMMA PerformKeepsStates ==
  ASSUME NEW plan, NEW from, NEW s \in StatesOf(plan, from), NEW l \in DOMAIN plan
  PROVE  Perform(s, plan[l]) \in StatesOf(plan, from)
<1>1. PICK t : t = Perform(s, plan[l])
  OBVIOUS
<1>2. /\ DOMAIN t = Properties
      /\ \A p \in Properties :
           /\ p \in Shown(plan[l]) => t[p] = s[p] + 1
           /\ p \in DOMAIN Writes(plan[l]) => t[p] = Writes(plan[l])[p]
           /\ p \notin Shown(plan[l]) /\ p \notin DOMAIN Writes(plan[l]) => t[p] = s[p]
  BY <1>1, StateIsSome, PerformIs
<1>3. /\ s \in [Properties -> ValuesOf(plan, from)]
      /\ \A p \in Properties : IsCount(p) => s[p] \in Int
  BY DEF StatesOf
<1>4. ASSUME NEW p \in Properties
      PROVE  t[p] \in ValuesOf(plan, from) /\ (IsCount(p) => t[p] \in Int)
  <2>1. CASE p \in Shown(plan[l])
    <3>1. IsCount(p)
      BY <2>1, WritesAreNoCounts
    <3>2. t[p] \in Int
      BY <1>2, <1>3, <2>1, <3>1
    <3> QED BY <3>2 DEF ValuesOf
  <2>2. CASE p \in DOMAIN Writes(plan[l])
    BY <1>2, <2>2, WritesAreNoCounts DEF ValuesOf
  <2>3. CASE p \notin Shown(plan[l]) /\ p \notin DOMAIN Writes(plan[l])
    BY <1>2, <1>3, <2>3
  <2> QED BY <2>1, <2>2, <2>3
<1>5. t \in [Properties -> ValuesOf(plan, from)]
  <2>1. t = [p \in Properties |-> t[p]]
    <3>1. Perform(s, plan[l]) = [p \in DOMAIN s |-> Perform(s, plan[l])[p]]
      BY DEF Perform
    <3> QED BY <1>1, <3>1, StateIsSome
  <2> QED BY <1>4, <2>1
<1> QED BY <1>1, <1>4, <1>5 DEF StatesOf

IsSum(sum, base, branches, p, n) ==
  /\ sum \in [0..n -> Int]
  /\ sum[0] = 0 /\ \A i \in 1..n : sum[i] = sum[i - 1] + (branches[i][p] - base[p])
  /\ Deltas(base, branches, p) = sum[n]

\* The sum of what the branches add.
LEMMA DeltasIs ==
  ASSUME NEW base, NEW p, NEW n \in Nat, NEW branches, DOMAIN branches = 1..n, Len(branches) = n,
         base[p] \in Int, \A i \in 1..n : branches[i][p] \in Int
  PROVE  \E sum : IsSum(sum, base, branches, p, n)
<1> DEFINE P == 0..n
           Add(f) == [i \in P |-> IF i = 0 THEN 0 ELSE f[i - 1] + (branches[i][p] - base[p])]
           G == [f \in [P -> Int] |-> Add(f)]
           rank == [i \in P |-> i]
           zero == [i \in P |-> 0]
<1>1. rank \in [P -> 0..n] /\ zero \in [P -> Int]
  OBVIOUS
<1>2. ASSUME NEW f \in [P -> Int] PROVE Add(f) \in [P -> Int]
  <2> SUFFICES ASSUME NEW i \in P, i # 0 PROVE f[i - 1] + (branches[i][p] - base[p]) \in Int
    OBVIOUS
  <2>1. i - 1 \in P /\ i \in 1..n
    OBVIOUS
  <2>2. f[i - 1] \in Int /\ branches[i][p] \in Int
    BY <2>1
  <2> QED BY <2>2
<1>3. G \in [[P -> Int] -> [P -> Int]] /\ \A f \in [P -> Int] : G[f] = Add(f)
  <2> HIDE DEF Add
  <2> QED BY <1>2
<1>4. ASSUME NEW f \in [P -> Int], NEW h \in [P -> Int], NEW x \in P,
             \A y \in P : rank[y] < rank[x] => f[y] = h[y]
      PROVE  G[f][x] = G[h][x]
  <2>1. x # 0 => f[x - 1] = h[x - 1]
    <3>1. x # 0 => x - 1 \in P /\ x - 1 < x
      OBVIOUS
    <3> QED BY <1>4, <3>1
  <2>2. Add(f)[x] = Add(h)[x]
    BY <2>1
  <2> HIDE DEF G, Add
  <2> QED BY <1>3, <2>2
<1> HIDE DEF G, rank, zero
<1>5. PICK f \in [P -> Int] : G[f] = f
  <2>1. \A g, h \in [P -> Int] : \A x \in P :
          (\A y \in P : rank[y] < rank[x] => g[y] = h[y]) => G[g][x] = G[h][x]
    BY <1>4
  <2>2. G \in [[P -> Int] -> [P -> Int]]
    BY <1>3
  <2>3. P = 0..n /\ rank \in [P -> 0..n] /\ zero \in [P -> Int]
    BY <1>1
  <2> HIDE DEF P
  <2>4. IsRecursion(P, Int, n, rank, G)
    BY <2>1, <2>2, <2>3 DEF IsRecursion
  <2>5. PICK V, N, Q : V = Int /\ N = n /\ Q = P
    OBVIOUS
  <2>6. IsRecursion(Q, V, N, rank, G) /\ zero \in [Q -> V]
    BY <2>3, <2>4, <2>5
  <2>7. \E h \in [Q -> V] : G[h] = h
    BY <2>6, Recursion
  <2> QED BY <2>5, <2>7
<1>6. f = Add(f)
  BY <1>3, <1>5
<1> DEFINE sum == CHOOSE g : g = [i \in 0..Len(branches) |->
                     IF i = 0 THEN 0 ELSE g[i - 1] + (branches[i][p] - base[p])]
<1>7. sum = Add(sum)
  <2>1. f = [i \in 0..Len(branches) |-> IF i = 0 THEN 0 ELSE f[i - 1] + (branches[i][p] - base[p])]
    BY <1>6
  <2> HIDE DEF Add
  <2>2. sum = [i \in 0..Len(branches) |-> IF i = 0 THEN 0 ELSE sum[i - 1] + (branches[i][p] - base[p])]
    BY <2>1
  <2> HIDE DEF sum
  <2> QED BY <2>2 DEF Add
<1>8. Deltas(base, branches, p) = sum[n]
  BY DEF Deltas
<1> HIDE DEF sum
<1>9. sum[0] = 0 /\ (\A i \in 1..n : sum[i] = sum[i - 1] + (branches[i][p] - base[p])) /\ DOMAIN sum = P
  BY <1>7
<1> DEFINE S == {i \in Nat : i <= n => sum[i] \in Int}
<1>10. S = Nat
  <2>1. 0 \in S
    BY <1>9
  <2>2. ASSUME NEW i \in S PROVE i + 1 \in S
    <3> SUFFICES ASSUME i + 1 <= n PROVE sum[i + 1] \in Int
      OBVIOUS
    <3>1. i + 1 \in 1..n /\ (i + 1) - 1 = i /\ sum[i] \in Int
      OBVIOUS
    <3>2. sum[i + 1] = sum[i] + (branches[i + 1][p] - base[p])
      BY <1>9, <3>1
    <3>3. branches[i + 1][p] \in Int
      BY <3>1
    <3> QED BY <3>1, <3>2, <3>3
  <2>3. S \in SUBSET Nat
    OBVIOUS
  <2> HIDE DEF S
  <2> QED BY <2>1, <2>2, <2>3, Induction
<1>11. sum = [i \in P |-> sum[i]]
  BY <1>7
<1>12. \A i \in P : sum[i] \in Int
  BY <1>10
<1>13. sum \in [0..n -> Int]
  BY <1>11, <1>12
<1> QED BY <1>8, <1>9, <1>13 DEF IsSum

\* What a merge leaves: of a property that no branch changed the value it had, of a
\* property that some changed the value of one of them, of an item all that was added.
LEMMA MergeIs ==
  ASSUME NEW plan, NEW from, NEW base \in StatesOf(plan, from), NEW n \in Nat, NEW branches,
         DOMAIN branches = 1..n, Len(branches) = n, \A i \in 1..n : branches[i] \in StatesOf(plan, from)
  PROVE  /\ Merge(base, branches) \in StatesOf(plan, from)
         /\ \A p \in Properties : ~IsCount(p) =>
              \/ Merge(base, branches)[p] = base[p] /\ \A i \in 1..n : branches[i][p] = base[p]
              \/ \E i \in 1..n : branches[i][p] # base[p] /\ Merge(base, branches)[p] = branches[i][p]
         /\ \A p \in Properties : IsCount(p) => Merge(base, branches)[p] = base[p] + Deltas(base, branches, p)
<1> DEFINE By(p) == {i \in DOMAIN branches : p \in Differs(base, branches[i])}
           m == Merge(base, branches)
<1>1. m = [p \in Properties |-> IF IsCount(p) THEN base[p] + Deltas(base, branches, p)
                                ELSE IF By(p) = {} THEN base[p] ELSE branches[CHOOSE i \in By(p) : TRUE][p]]
  BY DEF Merge
<1>2. \A p \in Properties : By(p) = {i \in 1..n : branches[i][p] # base[p]}
  BY DEF Differs
<1> HIDE DEF m, By
<1>3. ASSUME NEW p \in Properties, ~IsCount(p)
      PROVE  \/ m[p] = base[p] /\ \A i \in 1..n : branches[i][p] = base[p]
             \/ \E i \in 1..n : branches[i][p] # base[p] /\ m[p] = branches[i][p]
  <2>1. CASE By(p) = {}
    <3>1. m[p] = base[p]
      BY <1>1, <1>3, <2>1
    <3> QED BY <1>2, <2>1, <3>1
  <2>2. CASE By(p) # {}
    <3>1. PICK i : i = CHOOSE j \in By(p) : TRUE
      OBVIOUS
    <3>2. i \in By(p)
      BY <2>2, <3>1
    <3>3. m[p] = branches[i][p]
      BY <1>1, <1>3, <2>2, <3>1
    <3> QED BY <1>2, <3>2, <3>3
  <2> QED BY <2>1, <2>2
<1>4. \A p \in Properties : IsCount(p) => m[p] = base[p] + Deltas(base, branches, p)
  BY <1>1
<1>5. ASSUME NEW p \in Properties, IsCount(p) PROVE m[p] \in Int
  <2>1. base[p] \in Int /\ \A i \in 1..n : branches[i][p] \in Int
    BY <1>5 DEF StatesOf
  <2>2. PICK sum : IsSum(sum, base, branches, p, n)
    BY <2>1, DeltasIs
  <2>3. Deltas(base, branches, p) \in Int
    BY <2>2 DEF IsSum
  <2> QED BY <1>4, <1>5, <2>1, <2>3
<1>6. ASSUME NEW p \in Properties PROVE m[p] \in ValuesOf(plan, from)
  <2>1. CASE IsCount(p)
    BY <1>5, <2>1 DEF ValuesOf
  <2>2. CASE ~IsCount(p)
    <3>1. base[p] \in ValuesOf(plan, from) /\ \A i \in 1..n : branches[i][p] \in ValuesOf(plan, from)
      BY DEF StatesOf
    <3> QED BY <1>3, <2>2, <3>1
  <2> QED BY <2>1, <2>2
<1>7. m \in [Properties -> ValuesOf(plan, from)]
  <2>1. m = [p \in Properties |-> m[p]]
    BY <1>1
  <2> QED BY <1>6, <2>1
<1>8. m \in StatesOf(plan, from)
  BY <1>5, <1>7 DEF StatesOf
<1> QED BY <1>3, <1>4, <1>8 DEF m

-----------------------------------------------------------------------------
(* Plans: what applyNode finds and leaves                                  *)

Outcomes(plan, from) == StatesOf(plan, from) \cup {NoState}
Before(plan, x) == {y \in Points(plan) : RankOf(plan, y) < RankOf(plan, x)}

\* The branches of a node are what its children leave.
LEMMA BranchesAre ==
  ASSUME NEW plan, NEW q, plan[q].children \in Nat, NEW at
  PROVE  /\ DOMAIN Branches(plan, at, q) = 1..plan[q].children
         /\ Len(Branches(plan, at, q)) = plan[q].children
         /\ \A i \in 1..plan[q].children : Branches(plan, at, q)[i] = at[<<Child(q, i), "after">>]
<1>1. PICK n \in Nat : n = plan[q].children
  OBVIOUS
<1>2. PICK b : b = Branches(plan, at, q)
  OBVIOUS
<1>3. b = [i \in 1..n |-> at[<<Child(q, i), "after">>]]
  BY <1>1, <1>2 DEF Branches
<1>4. Len(b) = n
  BY <1>3
<1> QED BY <1>1, <1>2, <1>3, <1>4

\* Where the state that a node finds was left.
LEMMA SourceOf ==
  ASSUME NEW plan, IsPlan(plan), NEW from, NEW q \in DOMAIN plan, q # <<>>
  PROVE  \E y \in Before(plan, <<q, "before">>) : \A at : FoundBy(plan, from, at, q) = at[y]
<1> DEFINE u == Front(q)
           i == Last(q)
<1>1. /\ u \in DOMAIN plan /\ ~IsLeaf(plan[u]) /\ i \in 1..plan[u].children
      /\ plan[u].children \in Nat /\ q \in Paths
  BY DEF IsPlan, Paths
<1>2. Child(u, i) = q
  BY <1>1, FrontIs
<1> HIDE DEF u, i
<1>3. CASE plan[u].type = "sequence" /\ i > 1
  <2>1. PICK j \in 1..plan[u].children : j = i - 1 /\ j < i
    BY <1>1, <1>3
  <2> DEFINE y == <<Child(u, j), "after">>
  <2>2. Child(u, j) \in DOMAIN plan /\ RankOf(plan, y) < RankOf(plan, <<q, "before">>)
    BY <1>1, <1>2, <2>1, Dependencies
  <2>3. y \in Before(plan, <<q, "before">>)
    BY <2>2 DEF Before, Points
  <2>4. ASSUME NEW at PROVE FoundBy(plan, from, at, q) = at[y]
    BY <1>3, <2>1 DEF FoundBy, u, i
  <2> QED BY <2>3, <2>4
<1>4. CASE ~(plan[u].type = "sequence" /\ i > 1)
  <2> DEFINE y == <<u, "before">>
  <2>1. RankOf(plan, y) < RankOf(plan, <<q, "before">>)
    BY <1>1, <1>2, Dependencies
  <2>2. y \in Before(plan, <<q, "before">>)
    BY <1>1, <2>1 DEF Before, Points
  <2>3. ASSUME NEW at PROVE FoundBy(plan, from, at, q) = at[y]
    BY <1>4 DEF FoundBy, u, i
  <2> QED BY <2>2, <2>3
<1> QED BY <1>3, <1>4

\* What a node leaves is an outcome if what was found and left before it is one.
LEMMA LeftIsOutcome ==
  ASSUME NEW plan, IsPlan(plan), NEW from, NEW frame, NEW at, NEW q \in DOMAIN plan,
         \A y \in Before(plan, <<q, "after">>) : at[y] \in Outcomes(plan, from)
  PROVE  LeftBy(plan, frame, at, q) \in Outcomes(plan, from)
<1> DEFINE state == at[<<q, "before">>]
           V == Outcomes(plan, from)
<1>1. state \in V
  BY Dependencies DEF Before, Points
<1>2. ASSUME ~IsLeaf(plan[q]) PROVE \A i \in 1..plan[q].children : at[<<Child(q, i), "after">>] \in V
  BY <1>2, Dependencies DEF Before, Points
<1>3. NoState \in V
  BY DEF Outcomes
<1>4. CASE state = NoState
  BY <1>3, <1>4 DEF LeftBy
<1>5. CASE state # NoState /\ IsLeaf(plan[q])
  <2>1. state \in StatesOf(plan, from)
    BY <1>1, <1>5 DEF Outcomes
  <2>2. Perform(state, plan[q]) \in StatesOf(plan, from)
    BY <2>1, PerformKeepsStates
  <2>3. LeftBy(plan, frame, at, q) \in {Perform(state, plan[q]), NoState}
    BY <1>5 DEF LeftBy
  <2> QED BY <2>2, <2>3 DEF Outcomes
<1>6. CASE state # NoState /\ ~IsLeaf(plan[q]) /\ plan[q].type = "parallel"
  <2>1. PICK n \in Nat : n = plan[q].children
    BY <1>6 DEF IsPlan
  <2>2. PICK b : b = Branches(plan, at, q)
    OBVIOUS
  <2>3. DOMAIN b = 1..n /\ Len(b) = n /\ \A i \in 1..n : b[i] \in V
    <3>1. /\ DOMAIN b = 1..n /\ Len(b) = n
          /\ \A i \in 1..n : b[i] = at[<<Child(q, i), "after">>]
      BY <2>1, <2>2, BranchesAre
    <3> QED BY <1>2, <1>6, <2>1, <3>1
  <2>4. LeftBy(plan, frame, at, q) = Joins(state, b)
    BY <1>6, <2>2 DEF LeftBy
  <2>5. CASE NoState \in Range(b)
    BY <1>3, <2>4, <2>5 DEF Joins
  <2>6. CASE NoState \notin Range(b)
    <3>1. \A i \in 1..n : b[i] \in StatesOf(plan, from)
      BY <2>3, <2>6 DEF Range, Outcomes
    <3>2. state \in StatesOf(plan, from)
      BY <1>1, <1>6 DEF Outcomes
    <3> HIDE DEF state
    <3>3. Merge(state, b) \in StatesOf(plan, from)
      BY <2>3, <3>1, <3>2, MergeIs
    <3>4. Joins(state, b) \in {Merge(state, b), NoState}
      BY DEF Joins
    <3> QED BY <1>3, <2>4, <3>3, <3>4 DEF Outcomes
  <2> QED BY <2>5, <2>6
<1>7. CASE state # NoState /\ ~IsLeaf(plan[q]) /\ plan[q].type # "parallel"
  <2>1. PICK n \in Nat : n = plan[q].children
    BY <1>7 DEF IsPlan
  <2>2. CASE n = 0
    BY <1>1, <1>7, <2>1, <2>2 DEF LeftBy
  <2>3. CASE n # 0
    <3>1. n \in 1..plan[q].children
      BY <2>1, <2>3
    <3>2. at[<<Child(q, n), "after">>] \in V
      BY <1>2, <1>7, <3>1
    <3> QED BY <1>7, <2>1, <2>3, <3>2 DEF LeftBy
  <2> QED BY <2>2, <2>3
<1> QED BY <1>4, <1>5, <1>6, <1>7

\* What a node leaves depends on what was found and left before it alone.
LEMMA LeftIsLocal ==
  ASSUME NEW plan, IsPlan(plan), NEW frame, NEW at, NEW as, NEW q \in DOMAIN plan,
         \A y \in Before(plan, <<q, "after">>) : at[y] = as[y]
  PROVE  LeftBy(plan, frame, at, q) = LeftBy(plan, frame, as, q)
<1>1. at[<<q, "before">>] = as[<<q, "before">>]
  BY Dependencies DEF Before, Points
<1>2. ASSUME ~IsLeaf(plan[q])
      PROVE  \A i \in 1..plan[q].children : at[<<Child(q, i), "after">>] = as[<<Child(q, i), "after">>]
  BY <1>2, Dependencies DEF Before, Points
<1>3. CASE IsLeaf(plan[q])
  BY <1>1, <1>3 DEF LeftBy
<1>4. CASE ~IsLeaf(plan[q])
  <2>1. plan[q].children \in Nat
    BY <1>4 DEF IsPlan
  <2>2. Branches(plan, at, q) = Branches(plan, as, q)
    BY <1>2, <1>4 DEF Branches
  <2>3. plan[q].children # 0 =>
          at[<<Child(q, plan[q].children), "after">>] = as[<<Child(q, plan[q].children), "after">>]
    <3>1. plan[q].children # 0 => plan[q].children \in 1..plan[q].children
      BY <2>1
    <3> QED BY <1>2, <1>4, <3>1
  <2> QED BY <1>1, <1>4, <2>2, <2>3 DEF LeftBy
<1> QED BY <1>3, <1>4

\* The state of a frame is a state.
LEMMA FirstStatesAreStates ==
  ASSUME NEW plan, NEW from \in FirstStates
  PROVE  from \in StatesOf(plan, from)
<1>1. from = [p \in Properties |-> from[p]] /\ \A p \in Properties : IsCount(p) => from[p] \in Nat
  BY PlanAssumption
<1>2. \A p \in Properties : from[p] \in ValuesOf(plan, from)
  BY DEF ValuesOf
<1>3. \A p \in Properties : IsCount(p) => from[p] \in Int
  BY <1>1
<1>4. from \in [Properties -> ValuesOf(plan, from)]
  BY <1>1, <1>2
<1> QED BY <1>3, <1>4 DEF StatesOf

\* The state at a point is an outcome if those before it are.
LEMMA ReachedIsOutcome ==
  ASSUME NEW plan, IsPlan(plan), NEW from, from \in StatesOf(plan, from), NEW frame, NEW at, NEW x \in Points(plan),
         \A y \in Before(plan, x) : at[y] \in Outcomes(plan, from)
  PROVE  Reached(plan, from, frame, at, x) \in Outcomes(plan, from)
<1>1. PICK q \in DOMAIN plan, side \in {"before", "after"} : x = <<q, side>>
  BY DEF Points
<1>2. CASE side = "before" /\ q = <<>>
  BY <1>1, <1>2 DEF Reached, FoundBy, Outcomes
<1>3. CASE side = "before" /\ q # <<>>
  <2>1. PICK y \in Before(plan, <<q, "before">>) : FoundBy(plan, from, at, q) = at[y]
    BY <1>3, SourceOf
  <2> QED BY <1>1, <1>3, <2>1 DEF Reached
<1>4. CASE side = "after"
  <2>1. LeftBy(plan, frame, at, q) \in Outcomes(plan, from)
    BY <1>1, <1>4, LeftIsOutcome
  <2> QED BY <1>1, <1>4, <2>1 DEF Reached
<1> QED BY <1>1, <1>2, <1>3, <1>4

\* The state at a point depends on those before it alone.
LEMMA ReachedIsLocal ==
  ASSUME NEW plan, IsPlan(plan), NEW from, NEW frame, NEW at, NEW as, NEW x \in Points(plan),
         \A y \in Before(plan, x) : at[y] = as[y]
  PROVE  Reached(plan, from, frame, at, x) = Reached(plan, from, frame, as, x)
<1>1. PICK q \in DOMAIN plan, side \in {"before", "after"} : x = <<q, side>>
  BY DEF Points
<1>2. CASE side = "before" /\ q = <<>>
  BY <1>1, <1>2 DEF Reached, FoundBy
<1>3. CASE side = "before" /\ q # <<>>
  <2>1. PICK y \in Before(plan, <<q, "before">>) : \A g : FoundBy(plan, from, g, q) = g[y]
    BY <1>3, SourceOf
  <2>2. at[y] = as[y]
    BY <1>1, <1>3, <2>1
  <2>3. FoundBy(plan, from, at, q) = at[y] /\ FoundBy(plan, from, as, q) = as[y]
    BY <2>1
  <2> QED BY <1>1, <1>3, <2>2, <2>3 DEF Reached
<1>4. CASE side = "after"
  <2>1. LeftBy(plan, frame, at, q) = LeftBy(plan, frame, as, q)
    BY <1>1, <1>4, LeftIsLocal
  <2> QED BY <1>1, <1>4, <2>1 DEF Reached
<1> QED BY <1>1, <1>2, <1>3, <1>4

IsCourse(at, plan, from, frame) ==
  /\ at \in [Points(plan) -> Outcomes(plan, from)]
  /\ \A q \in DOMAIN plan : /\ at[<<q, "before">>] = FoundBy(plan, from, at, q)
                            /\ at[<<q, "after">>] = LeftBy(plan, frame, at, q)

\* The recursion of applyNode defines something.
LEMMA CourseIs ==
  ASSUME NEW plan, IsPlan(plan), NEW from, from \in StatesOf(plan, from), NEW frame
  PROVE  IsCourse(Course(plan, from, frame), plan, from, frame)
<1> DEFINE P == Points(plan)
           V == Outcomes(plan, from)
           N == Cardinality(Points(plan))
           E(f) == [x \in P |-> Reached(plan, from, frame, f, x)]
           G == [f \in [P -> V] |-> E(f)]
           rank == [x \in P |-> RankOf(plan, x)]
           none == [x \in P |-> NoState]
<1>1. N \in Nat /\ rank \in [P -> 0..N] /\ none \in [P -> V]
  BY RankIsBounded DEF Outcomes
<1>2. ASSUME NEW f \in [P -> V] PROVE E(f) \in [P -> V]
  <2>1. \A x \in P : Reached(plan, from, frame, f, x) \in V
    <3> TAKE x \in P
    <3>1. \A y \in Before(plan, x) : f[y] \in Outcomes(plan, from)
      BY DEF Before
    <3> QED BY <3>1, ReachedIsOutcome
  <2> QED BY <2>1
<1>3. G \in [[P -> V] -> [P -> V]] /\ \A f \in [P -> V] : G[f] = E(f)
  <2> HIDE DEF E, P, V
  <2> QED BY <1>2
<1>4. ASSUME NEW f \in [P -> V], NEW h \in [P -> V], NEW x \in P,
             \A y \in P : rank[y] < rank[x] => f[y] = h[y]
      PROVE  G[f][x] = G[h][x]
  <2>1. \A y \in Before(plan, x) : f[y] = h[y]
    BY <1>4 DEF Before
  <2>2. E(f)[x] = E(h)[x]
    BY <2>1, ReachedIsLocal
  <2> HIDE DEF E, G
  <2> QED BY <1>3, <2>2
<1>5. IsRecursion(P, V, N, rank, G)
  <2>1. \A f, h \in [P -> V] : \A x \in P :
          (\A y \in P : rank[y] < rank[x] => f[y] = h[y]) => G[f][x] = G[h][x]
    BY <1>4
  <2> HIDE DEF P, V, N, G, rank, none
  <2> QED BY <1>1, <1>3, <2>1 DEF IsRecursion
<1>6. \E f : f = E(f)
  <2> HIDE DEF P, V, N, G, rank, none, E
  <2>1. PICK f \in [P -> V] : G[f] = f
    BY <1>1, <1>5, Recursion
  <2> QED BY <1>3, <2>1
<1> DEFINE at == CHOOSE f : f = [x \in Points(plan) |-> Reached(plan, from, frame, f, x)]
<1>7. Course(plan, from, frame) = at
  BY DEF Course
<1>8. at = [x \in Points(plan) |-> Reached(plan, from, frame, at, x)]
  BY <1>6
<1> HIDE DEF at
<1>9. \A x \in P : at[x] = Reached(plan, from, frame, at, x)
  BY <1>8
<1> DEFINE S == {n \in Nat : \A x \in P : RankOf(plan, x) < n => at[x] \in V}
<1>10. S = Nat
  <2>1. 0 \in S
    <3>1. \A x \in P : RankOf(plan, x) \in Nat
      BY RankIsBounded
    <3> QED BY <3>1
  <2>2. ASSUME NEW n \in S PROVE n + 1 \in S
    <3> SUFFICES ASSUME NEW x \in P, RankOf(plan, x) < n + 1 PROVE at[x] \in V
      OBVIOUS
    <3>1. ASSUME NEW y \in Before(plan, x) PROVE at[y] \in Outcomes(plan, from)
      <4>1. y \in P /\ RankOf(plan, y) < RankOf(plan, x) /\ RankOf(plan, y) \in Nat /\ RankOf(plan, x) \in Nat
        BY RankIsBounded DEF Before
      <4>2. RankOf(plan, y) < n
        BY <4>1
      <4> QED BY <4>1, <4>2
    <3> QED BY <1>9, <3>1, ReachedIsOutcome
  <2>3. S \in SUBSET Nat
    OBVIOUS
  <2> HIDE DEF S
  <2> QED BY <2>1, <2>2, <2>3, Induction
<1>11. ASSUME NEW x \in P PROVE at[x] \in V
  <2>1. PICK n \in Nat : n = RankOf(plan, x) + 1 /\ RankOf(plan, x) < n
    BY RankIsBounded
  <2> QED BY <1>10, <2>1
<1>12. at \in [P -> V]
  BY <1>8, <1>9, <1>11
<1>13. ASSUME NEW q \in DOMAIN plan
       PROVE  at[<<q, "before">>] = FoundBy(plan, from, at, q) /\ at[<<q, "after">>] = LeftBy(plan, frame, at, q)
  <2>1. <<q, "before">> \in P /\ <<q, "after">> \in P
    BY DEF Points
  <2> QED BY <1>9, <2>1 DEF Reached
<1> QED BY <1>7, <1>12, <1>13 DEF IsCourse

-----------------------------------------------------------------------------
(* Plans: what a set of commands does to a state                           *)

Showing(plan, L, p) == {l \in L : p \in Shown(plan[l])}
Writing(plan, L, p) == {l \in L : p \in DOMAIN Writes(plan[l])}
LastWriting(plan, L, p) == {l \in Writing(plan, L, p) : \A r \in Writing(plan, L, p) : ~Precedes(plan, l, r)}

\* A set of commands leaves what its last writers write, and counts what they show.
Effect(plan, L, base, end) ==
  \A p \in Properties :
    /\ IsCount(p) => end[p] = base[p] + Cardinality(Showing(plan, L, p))
    /\ ~IsCount(p) => /\ Writing(plan, L, p) = {} => end[p] = base[p]
                      /\ \A l \in LastWriting(plan, L, p) : end[p] = Writes(plan[l])[p]

\* The size of a single thing.
LEMMA SingleIs ==
  ASSUME NEW x PROVE IsFiniteSet({x}) /\ Cardinality({x}) = 1
BY FS_Singleton

\* No commands change nothing.
LEMMA NothingHasNoEffect ==
  ASSUME NEW plan, NEW from, NEW base \in StatesOf(plan, from)
  PROVE  Effect(plan, {}, base, base)
<1>1. \A p : Showing(plan, {}, p) = {} /\ Writing(plan, {}, p) = {} /\ LastWriting(plan, {}, p) = {}
  BY DEF Showing, Writing, LastWriting
<1>2. Cardinality({}) = 0
  BY FS_EmptySet
<1>3. \A p \in Properties : IsCount(p) => base[p] \in Int
  BY DEF StatesOf
<1> QED BY <1>1, <1>2, <1>3 DEF Effect

\* One command has the effect of that command.
LEMMA CommandHasEffect ==
  ASSUME NEW plan, NEW from, NEW base \in StatesOf(plan, from), NEW q \in Paths
  PROVE  Effect(plan, {q}, base, Perform(base, plan[q]))
<1> DEFINE end == Perform(base, plan[q])
<1>1. \A p \in Properties :
        /\ p \in Shown(plan[q]) => end[p] = base[p] + 1
        /\ p \in DOMAIN Writes(plan[q]) => end[p] = Writes(plan[q])[p]
        /\ p \notin Shown(plan[q]) /\ p \notin DOMAIN Writes(plan[q]) => end[p] = base[p]
  BY StateIsSome, PerformIs
<1> HIDE DEF end
<1>2. ASSUME NEW p \in Properties, IsCount(p)
      PROVE  end[p] = base[p] + Cardinality(Showing(plan, {q}, p))
  <2>1. base[p] \in Int
    BY <1>2 DEF StatesOf
  <2>2. CASE p \in Shown(plan[q])
    <3>1. Showing(plan, {q}, p) = {q}
      BY <2>2 DEF Showing
    <3>2. Cardinality(Showing(plan, {q}, p)) = 1
      BY <3>1, SingleIs
    <3> QED BY <1>1, <2>2, <3>2
  <2>3. CASE p \notin Shown(plan[q])
    <3>1. Showing(plan, {q}, p) = {}
      BY <2>3 DEF Showing
    <3>2. Cardinality(Showing(plan, {q}, p)) = 0
      BY <3>1, FS_EmptySet
    <3>3. p \notin DOMAIN Writes(plan[q])
      BY <1>2, WritesAreNoCounts
    <3> QED BY <1>1, <2>1, <2>3, <3>2, <3>3
  <2> QED BY <2>2, <2>3
<1>3. ASSUME NEW p \in Properties, ~IsCount(p)
      PROVE  /\ Writing(plan, {q}, p) = {} => end[p] = base[p]
             /\ \A l \in LastWriting(plan, {q}, p) : end[p] = Writes(plan[l])[p]
  <2>1. p \notin Shown(plan[q])
    BY <1>3, WritesAreNoCounts
  <2>2. Writing(plan, {q}, p) = {} => p \notin DOMAIN Writes(plan[q])
    BY DEF Writing
  <2>3. \A l \in LastWriting(plan, {q}, p) : l = q /\ p \in DOMAIN Writes(plan[q])
    BY DEF LastWriting, Writing
  <2> QED BY <1>1, <2>1, <2>2, <2>3
<1> QED BY <1>2, <1>3 DEF Effect, end

\* The effects of commands and of others that come after them.
LEMMA EffectsAdd ==
  ASSUME NEW plan, NEW from, NEW base \in StatesOf(plan, from), NEW middle, NEW end,
         NEW L \in SUBSET Paths, NEW M \in SUBSET Paths, IsFiniteSet(L), IsFiniteSet(M),
         \A l \in L, r \in M : Precedes(plan, l, r),
         Effect(plan, L, base, middle), Effect(plan, M, middle, end)
  PROVE  Effect(plan, L \cup M, base, end)
<1>1. ASSUME NEW p \in Properties, IsCount(p)
      PROVE  end[p] = base[p] + Cardinality(Showing(plan, L \cup M, p))
  <2> DEFINE A == Showing(plan, L, p)
             B == Showing(plan, M, p)
  <2>1. Showing(plan, L \cup M, p) = A \cup B /\ A \subseteq L /\ B \subseteq M
    BY DEF Showing
  <2>2. A \cap B = {}
    BY <2>1, PrecedesIsStrict
  <2>3. IsFiniteSet(A) /\ IsFiniteSet(B)
    BY <2>1, FS_Subset
  <2> HIDE DEF A, B
  <2>4. PICK a \in Nat, b \in Nat : a = Cardinality(A) /\ b = Cardinality(B)
    BY <2>3, FS_CardinalityType
  <2>5. Cardinality(A \cup B) = a + b
    <3>1. Cardinality(A \cap B) = 0
      BY <2>2, FS_EmptySet
    <3>2. Cardinality(A \cup B) = Cardinality(A) + Cardinality(B) - Cardinality(A \cap B)
      BY <2>3, FS_Union
    <3> QED BY <2>4, <3>1, <3>2
  <2>6. middle[p] = base[p] + a /\ end[p] = middle[p] + b
    BY <1>1, <2>4 DEF Effect, A, B
  <2>7. base[p] \in Int
    BY <1>1 DEF StatesOf
  <2>8. end[p] = base[p] + (a + b)
    BY <2>6, <2>7
  <2> QED BY <2>1, <2>5, <2>8
<1>2. ASSUME NEW p \in Properties, ~IsCount(p), Writing(plan, L \cup M, p) = {} PROVE end[p] = base[p]
  <2>1. Writing(plan, L, p) = {} /\ Writing(plan, M, p) = {}
    BY <1>2 DEF Writing
  <2> QED BY <1>2, <2>1 DEF Effect
<1>3. ASSUME NEW p \in Properties, ~IsCount(p), NEW l \in LastWriting(plan, L \cup M, p)
      PROVE  end[p] = Writes(plan[l])[p]
  <2>1. CASE l \in M
    <3>1. l \in LastWriting(plan, M, p)
      BY <2>1 DEF LastWriting, Writing
    <3> QED BY <1>3, <3>1 DEF Effect
  <2>2. CASE l \in L
    <3>1. l \in LastWriting(plan, L, p)
      BY <2>2 DEF LastWriting, Writing
    <3>2. Writing(plan, M, p) = {}
      BY <2>2 DEF LastWriting, Writing
    <3>3. middle[p] = Writes(plan[l])[p] /\ end[p] = middle[p]
      BY <1>3, <3>1, <3>2 DEF Effect
    <3> QED BY <3>3
  <2>3. l \in L \cup M
    BY DEF LastWriting, Writing
  <2> QED BY <2>1, <2>2, <2>3
<1> QED BY <1>1, <1>2, <1>3 DEF Effect

-----------------------------------------------------------------------------
(* Plans: the commands below a node                                        *)

\* Those below the first n children.
LeavesUpTo(plan, q, n) == {l \in LeavesUnder(plan, q) : l # q /\ l[Len(q) + 1] <= n}

\* The commands below a node are the leaves its path leads to; a leaf is its own.
LEMMA LeavesUnderAre ==
  ASSUME NEW plan, IsPlan(plan), NEW q \in DOMAIN plan
  PROVE  /\ LeavesUnder(plan, q) = {l \in Leaves(plan) : StartsWith(q, l)}
         /\ LeavesUnder(plan, q) \in SUBSET Paths /\ LeavesUnder(plan, q) \subseteq DOMAIN plan
         /\ IsFiniteSet(LeavesUnder(plan, q))
         /\ IsLeaf(plan[q]) => LeavesUnder(plan, q) = {q}
<1>1. q \in Paths /\ (\A l \in Leaves(plan) : l \in Paths /\ l \in DOMAIN plan) /\ IsFiniteSet(DOMAIN plan)
  BY DEF IsPlan, Paths, Leaves
<1>2. LeavesUnder(plan, q) = {l \in Leaves(plan) : StartsWith(q, l)}
  BY <1>1, PrefixIs DEF LeavesUnder
<1>3. LeavesUnder(plan, q) \subseteq DOMAIN plan
  BY <1>1, <1>2
<1>4. StartsWith(q, q)
  BY <1>1 DEF StartsWith, Paths
<1>5. IsLeaf(plan[q]) => LeavesUnder(plan, q) = {q}
  <2> SUFFICES ASSUME IsLeaf(plan[q]) PROVE LeavesUnder(plan, q) = {q}
    OBVIOUS
  <2>1. \A l \in LeavesUnder(plan, q) : l = q
    BY <1>2, <1>3, WayDown
  <2>2. q \in LeavesUnder(plan, q)
    BY <1>2, <1>4 DEF Leaves
  <2> QED BY <2>1, <2>2
<1>6. IsFiniteSet(LeavesUnder(plan, q))
  BY <1>1, <1>3, FS_Subset
<1> QED BY <1>1, <1>2, <1>3, <1>5, <1>6

\* The commands below a node, child by child.
LEMMA LeavesByChild ==
  ASSUME NEW plan, IsPlan(plan), NEW q \in DOMAIN plan, ~IsLeaf(plan[q])
  PROVE  /\ plan[q].children \in Nat
         /\ \A i \in 1..plan[q].children :
              /\ Child(q, i) \in DOMAIN plan
              /\ LeavesUnder(plan, Child(q, i)) \subseteq LeavesUnder(plan, q)
              /\ \A l \in LeavesUnder(plan, Child(q, i)) : StartsWith(Child(q, i), l) /\ l # q /\ l[Len(q) + 1] = i
         /\ \A l \in LeavesUnder(plan, q) :
              \E i \in 1..plan[q].children : l \in LeavesUnder(plan, Child(q, i))
         /\ LeavesUpTo(plan, q, 0) = {} /\ LeavesUpTo(plan, q, plan[q].children) = LeavesUnder(plan, q)
         /\ \A i \in 1..plan[q].children :
              LeavesUpTo(plan, q, i) = LeavesUpTo(plan, q, i - 1) \cup LeavesUnder(plan, Child(q, i))
<1>1. PICK n \in Nat : n = plan[q].children
  BY DEF IsPlan
<1>2. \A i \in 1..n : Child(q, i) \in DOMAIN plan
  BY <1>1 DEF IsPlan
<1>3. q \in Paths /\ Len(q) \in Nat /\ \A i \in 1..n : i \in Nat \ {0}
  BY DEF IsPlan, Paths
<1>4. ASSUME NEW i \in 1..n
      PROVE  /\ LeavesUnder(plan, Child(q, i)) \subseteq LeavesUnder(plan, q)
             /\ \A l \in LeavesUnder(plan, Child(q, i)) : StartsWith(Child(q, i), l) /\ l # q /\ l[Len(q) + 1] = i
  <2> SUFFICES ASSUME NEW l \in LeavesUnder(plan, Child(q, i))
               PROVE  l \in LeavesUnder(plan, q) /\ StartsWith(Child(q, i), l) /\ l # q /\ l[Len(q) + 1] = i
    OBVIOUS
  <2>1. l \in Leaves(plan) /\ StartsWith(Child(q, i), l) /\ l \in Paths
    BY <1>2, LeavesUnderAre
  <2>2. StartsWith(q, l) /\ Len(l) > Len(q) /\ l[Len(q) + 1] = i
    BY <1>3, <2>1, WayUp
  <2>3. l # q
    BY <1>3, <2>2
  <2> QED BY <2>1, <2>2, <2>3, LeavesUnderAre
<1>5. ASSUME NEW l \in LeavesUnder(plan, q)
      PROVE  l # q /\ \E i \in 1..n : i = l[Len(q) + 1] /\ l \in LeavesUnder(plan, Child(q, i))
  <2>1. l \in Leaves(plan) /\ StartsWith(q, l) /\ l \in DOMAIN plan /\ l # q
    <3>1. l \in Leaves(plan) /\ StartsWith(q, l) /\ l \in DOMAIN plan
      BY LeavesUnderAre
    <3> QED BY <3>1 DEF Leaves
  <2>2. PICK i \in 1..n : i = l[Len(q) + 1] /\ StartsWith(Child(q, i), l)
    BY <1>1, <2>1, WayDown
  <2>3. l \in LeavesUnder(plan, Child(q, i))
    BY <1>2, <2>1, <2>2, LeavesUnderAre
  <2> QED BY <2>1, <2>2, <2>3
<1>6. LeavesUpTo(plan, q, 0) = {} /\ LeavesUpTo(plan, q, n) = LeavesUnder(plan, q)
  <2>1. \A l \in LeavesUnder(plan, q) : l # q /\ l[Len(q) + 1] \in 1..n
    BY <1>5
  <2>2. \A k \in 1..n : k <= n /\ ~(k <= 0)
    OBVIOUS
  <2> QED BY <2>1, <2>2 DEF LeavesUpTo
<1>7. ASSUME NEW i \in 1..n
      PROVE  LeavesUpTo(plan, q, i) = LeavesUpTo(plan, q, i - 1) \cup LeavesUnder(plan, Child(q, i))
  <2>1. \A k \in 1..n : k <= i <=> (k <= i - 1 \/ k = i)
    OBVIOUS
  <2>2. \A l \in LeavesUnder(plan, q) : l # q /\ l[Len(q) + 1] \in 1..n
    BY <1>5
  <2>3. \A l \in LeavesUnder(plan, q) : l \in LeavesUnder(plan, Child(q, i)) <=> l[Len(q) + 1] = i
    BY <1>4, <1>5
  <2>4. LeavesUnder(plan, Child(q, i)) \subseteq LeavesUnder(plan, q)
    BY <1>4
  <2> QED BY <2>1, <2>2, <2>3, <2>4 DEF LeavesUpTo
<1> QED BY <1>1, <1>2, <1>4, <1>5, <1>6, <1>7

-----------------------------------------------------------------------------
(* Plans: the effect of a node is that of the commands below it            *)

\* What a node leaves, if it can be left, is the effect of the commands below it.
Sound(plan, at, q) ==
  at[<<q, "after">>] # NoState =>
    /\ at[<<q, "before">>] # NoState
    /\ Effect(plan, LeavesUnder(plan, q), at[<<q, "before">>], at[<<q, "after">>])

\* What a node finds and leaves are states, unless there is none.
LEMMA OutcomesAre ==
  ASSUME NEW plan, NEW from, NEW frame, NEW at, IsCourse(at, plan, from, frame), NEW q \in DOMAIN plan
  PROVE  /\ at[<<q, "before">>] # NoState => at[<<q, "before">>] \in StatesOf(plan, from)
         /\ at[<<q, "after">>] # NoState => at[<<q, "after">>] \in StatesOf(plan, from)
BY DEF IsCourse, Outcomes, Points

\* What a child finds: what its elder sibling left, in a sequence, or what its parent found.
LEMMA ChildFinds ==
  ASSUME NEW plan, IsPlan(plan), NEW from, NEW frame, NEW at, IsCourse(at, plan, from, frame),
         NEW q \in DOMAIN plan, ~IsLeaf(plan[q]), NEW i \in 1..plan[q].children
  PROVE  at[<<Child(q, i), "before">>] =
           IF plan[q].type = "sequence" /\ i > 1 THEN at[<<Child(q, i - 1), "after">>] ELSE at[<<q, "before">>]
<1>1. q \in Paths /\ i \in Nat \ {0} /\ Child(q, i) \in DOMAIN plan
  BY DEF IsPlan, Paths
<1>2. PICK c : c = Child(q, i)
  OBVIOUS
<1>3. Front(c) = q /\ Last(c) = i /\ c # <<>> /\ c \in DOMAIN plan
  BY <1>1, <1>2, ChildIs
<1>4. at[<<c, "before">>] = FoundBy(plan, from, at, c)
  BY <1>3 DEF IsCourse
<1> QED BY <1>2, <1>3, <1>4 DEF FoundBy

\* A command.
LEMMA LeafIsSound ==
  ASSUME NEW plan, IsPlan(plan), NEW from, NEW frame, NEW at, IsCourse(at, plan, from, frame),
         NEW q \in DOMAIN plan, IsLeaf(plan[q])
  PROVE  Sound(plan, at, q)
<1> SUFFICES ASSUME at[<<q, "after">>] # NoState
             PROVE  /\ at[<<q, "before">>] # NoState
                    /\ Effect(plan, LeavesUnder(plan, q), at[<<q, "before">>], at[<<q, "after">>])
  BY DEF Sound
<1>1. at[<<q, "after">>] = LeftBy(plan, frame, at, q)
  BY DEF IsCourse
<1>2. at[<<q, "before">>] # NoState /\ at[<<q, "after">>] = Perform(at[<<q, "before">>], plan[q])
  BY <1>1 DEF LeftBy
<1>3. at[<<q, "before">>] \in StatesOf(plan, from) /\ q \in Paths
  BY <1>2, OutcomesAre DEF IsPlan, Paths
<1>4. Effect(plan, {q}, at[<<q, "before">>], Perform(at[<<q, "before">>], plan[q]))
  BY <1>3, CommandHasEffect
<1>5. LeavesUnder(plan, q) = {q}
  BY LeavesUnderAre
<1> QED BY <1>2, <1>4, <1>5

\* A sequence: the effects of its children, one after the other.
LEMMA SequenceIsSound ==
  ASSUME NEW plan, IsPlan(plan), NEW from, NEW frame, NEW at, IsCourse(at, plan, from, frame),
         NEW q \in DOMAIN plan, plan[q].type = "sequence", plan[q].children \in Nat \ {0},
         \A i \in 1..plan[q].children : Sound(plan, at, Child(q, i))
  PROVE  Sound(plan, at, q)
<1> DEFINE base == at[<<q, "before">>]
           left(i) == at[<<Child(q, i), "after">>]
<1>1. ~IsLeaf(plan[q])
  BY DEF IsLeaf
<1>2. PICK n \in Nat \ {0} : n = plan[q].children
  OBVIOUS
<1>3. \A i \in 1..n : Child(q, i) \in DOMAIN plan
  BY <1>1, <1>2 DEF IsPlan
<1> SUFFICES ASSUME at[<<q, "after">>] # NoState
             PROVE  base # NoState /\ Effect(plan, LeavesUnder(plan, q), base, at[<<q, "after">>])
  BY DEF Sound
<1>4. base # NoState /\ at[<<q, "after">>] = left(n)
  <2>1. at[<<q, "after">>] = LeftBy(plan, frame, at, q)
    BY DEF IsCourse
  <2> QED BY <1>1, <1>2, <2>1 DEF LeftBy
<1>5. \A i \in 1..n : at[<<Child(q, i), "before">>] = IF i > 1 THEN left(i - 1) ELSE base
  BY <1>1, <1>2, ChildFinds
<1>6. \A i \in 1..n : left(i) # NoState =>
        /\ at[<<Child(q, i), "before">>] # NoState
        /\ Effect(plan, LeavesUnder(plan, Child(q, i)), at[<<Child(q, i), "before">>], left(i))
  BY <1>2 DEF Sound
<1>7. \A i \in 1..n : left(i) # NoState => left(i) \in StatesOf(plan, from)
  BY <1>3, OutcomesAre
<1>8. base \in StatesOf(plan, from)
  BY <1>4, OutcomesAre
<1> HIDE DEF base, left
<1>9. \A i \in 1..n : left(i) # NoState
  <2> DEFINE S == {m \in Nat : m < n => left(n - m) # NoState}
  <2>1. 0 \in S
    BY <1>4
  <2>2. ASSUME NEW m \in S PROVE m + 1 \in S
    <3> SUFFICES ASSUME m + 1 < n PROVE left(n - (m + 1)) # NoState
      OBVIOUS
    <3>1. PICK i \in 1..n : i = n - m /\ i > 1 /\ i - 1 = n - (m + 1) /\ m < n
      OBVIOUS
    <3>2. left(i) # NoState
      BY <3>1
    <3>3. left(i - 1) # NoState
      BY <1>5, <1>6, <3>1, <3>2
    <3> QED BY <3>1, <3>3
  <2>3. S \in SUBSET Nat
    OBVIOUS
  <2> HIDE DEF S
  <2>4. S = Nat
    BY <2>1, <2>2, <2>3, Induction
  <2>5. ASSUME NEW i \in 1..n PROVE left(i) # NoState
    <3>1. PICK m \in Nat : m = n - i /\ m < n /\ n - m = i
      OBVIOUS
    <3> QED BY <2>4, <3>1 DEF S
  <2> QED BY <2>5
<1> DEFINE T == {i \in Nat : i \in 1..n => Effect(plan, LeavesUpTo(plan, q, i), base, left(i))}
<1>10. T = Nat
  <2>1. 0 \in T
    OBVIOUS
  <2>2. ASSUME NEW m \in T PROVE m + 1 \in T
    <3> SUFFICES ASSUME m + 1 \in 1..n PROVE Effect(plan, LeavesUpTo(plan, q, m + 1), base, left(m + 1))
      OBVIOUS
    <3>1. PICK i \in 1..n : i = m + 1 /\ i - 1 = m
      OBVIOUS
    <3> DEFINE L == LeavesUpTo(plan, q, m)
               M == LeavesUnder(plan, Child(q, i))
               middle == at[<<Child(q, i), "before">>]
    <3>2. LeavesUpTo(plan, q, i) = L \cup M
      BY <1>1, <1>2, <3>1, LeavesByChild
    <3>3. Effect(plan, M, middle, left(i))
      BY <1>6, <1>9
    <3>4. Effect(plan, L, base, middle)
      <4>1. CASE m = 0
        <5>1. L = {} /\ middle = base
          BY <1>1, <1>5, <3>1, <4>1, LeavesByChild
        <5> QED BY <1>8, <5>1, NothingHasNoEffect
      <4>2. CASE m # 0
        <5>1. m \in 1..n /\ i > 1 /\ middle = left(m)
          BY <1>5, <3>1, <4>2
        <5>2. Effect(plan, L, base, left(m))
          BY <5>1
        <5> QED BY <5>1, <5>2
      <4> QED BY <4>1, <4>2
    <3>5. /\ LeavesUnder(plan, q) \in SUBSET Paths /\ IsFiniteSet(LeavesUnder(plan, q))
          /\ M \in SUBSET Paths /\ IsFiniteSet(M)
      BY <1>3, LeavesUnderAre
    <3>6. L \subseteq LeavesUnder(plan, q)
      BY DEF LeavesUpTo
    <3>7. IsFiniteSet(L)
      BY <3>5, <3>6, FS_Subset
    <3>8. ASSUME NEW l \in L, NEW r \in M PROVE Precedes(plan, l, r)
      <4>1. PICK j \in 1..n : l \in LeavesUnder(plan, Child(q, j))
        BY <1>1, <1>2, <3>6, LeavesByChild
      <4>2. StartsWith(Child(q, j), l) /\ l[Len(q) + 1] = j /\ StartsWith(Child(q, i), r)
        BY <1>1, <1>2, <4>1, LeavesByChild
      <4>3. j < i /\ j \in Nat \ {0} /\ i \in Nat \ {0}
        BY <3>1, <4>2 DEF LeavesUpTo
      <4>4. q \in Paths /\ l \in Paths /\ r \in Paths
        BY <3>5, <3>6 DEF IsPlan, Paths
      <4> QED BY <4>2, <4>3, <4>4, PrecedesAcross
    <3>9. L \in SUBSET Paths
      BY <3>5, <3>6
    <3> HIDE DEF L, M, middle
    <3>10. Effect(plan, L \cup M, base, left(i))
      BY <1>8, <3>3, <3>4, <3>5, <3>7, <3>8, <3>9, EffectsAdd
    <3> QED BY <3>1, <3>2, <3>10
  <2>3. T \in SUBSET Nat
    OBVIOUS
  <2> HIDE DEF T
  <2> QED BY <2>1, <2>2, <2>3, Induction
<1>11. Effect(plan, LeavesUpTo(plan, q, n), base, left(n))
  <2>1. n \in T /\ n \in 1..n
    BY <1>10
  <2> QED BY <2>1
<1>12. LeavesUpTo(plan, q, n) = LeavesUnder(plan, q)
  BY <1>1, <1>2, LeavesByChild
<1> QED BY <1>4, <1>11, <1>12

\* The rule, of the branches of one node.
BranchesAgree(plan, at, q) ==
  \A i, j \in 1..plan[q].children : \A p \in Touches(plan, Child(q, i)) \cap Touches(plan, Child(q, j)) :
    at[<<Child(q, i), "after">>][p] = at[<<Child(q, j), "after">>][p]

\* A property that is touched is one that some command writes.
LEMMA TouchesAre ==
  ASSUME NEW plan, NEW q, NEW p
  PROVE  p \in Touches(plan, q) <=> Writing(plan, LeavesUnder(plan, q), p) # {}
BY DEF Touches, Writing

\* The items that the branches add.
LEMMA BranchesCount ==
  ASSUME NEW plan, IsPlan(plan), NEW from, NEW base \in StatesOf(plan, from), NEW q \in DOMAIN plan, ~IsLeaf(plan[q]),
         NEW n \in Nat, n = plan[q].children, NEW branches, DOMAIN branches = 1..n, Len(branches) = n,
         \A i \in 1..n : /\ branches[i] \in StatesOf(plan, from)
                         /\ Effect(plan, LeavesUnder(plan, Child(q, i)), base, branches[i]),
         NEW p \in Properties, IsCount(p)
  PROVE  Deltas(base, branches, p) = Cardinality(Showing(plan, LeavesUnder(plan, q), p))
<1> DEFINE A(i) == Showing(plan, LeavesUpTo(plan, q, i), p)
           B(i) == Showing(plan, LeavesUnder(plan, Child(q, i)), p)
<1>1. base[p] \in Int /\ \A i \in 1..n : branches[i][p] \in Int
  BY DEF StatesOf
<1>2. PICK sum : IsSum(sum, base, branches, p, n)
  BY <1>1, DeltasIs
<1>3. /\ A(0) = {} /\ A(n) = Showing(plan, LeavesUnder(plan, q), p)
      /\ \A i \in 1..n : A(i) = A(i - 1) \cup B(i) /\ A(i - 1) \cap B(i) = {}
  <2>1. A(0) = {} /\ A(n) = Showing(plan, LeavesUnder(plan, q), p)
    BY LeavesByChild DEF Showing
  <2>2. ASSUME NEW i \in 1..n PROVE A(i) = A(i - 1) \cup B(i)
    <3>1. LeavesUpTo(plan, q, i) = LeavesUpTo(plan, q, i - 1) \cup LeavesUnder(plan, Child(q, i))
      BY LeavesByChild
    <3> QED BY <3>1 DEF Showing
  <2>3. ASSUME NEW i \in 1..n PROVE A(i - 1) \cap B(i) = {}
    <3>1. \A l \in B(i) : l[Len(q) + 1] = i
      BY LeavesByChild DEF Showing
    <3>2. \A l \in A(i - 1) : l[Len(q) + 1] <= i - 1
      BY DEF Showing, LeavesUpTo
    <3>3. ~(i <= i - 1)
      OBVIOUS
    <3> HIDE DEF A, B
    <3> QED BY <3>1, <3>2, <3>3
  <2> QED BY <2>1, <2>2, <2>3
<1>4. \A i \in 0..n : IsFiniteSet(A(i))
  <2>1. IsFiniteSet(LeavesUnder(plan, q))
    BY LeavesUnderAre
  <2>2. \A i : A(i) \subseteq LeavesUnder(plan, q)
    BY DEF Showing, LeavesUpTo
  <2> HIDE DEF A
  <2> QED BY <2>1, <2>2, FS_Subset
<1>5. \A i \in 1..n : IsFiniteSet(B(i)) /\ branches[i][p] = base[p] + Cardinality(B(i))
  <2> TAKE i \in 1..n
  <2>1. IsFiniteSet(LeavesUnder(plan, Child(q, i))) /\ B(i) \subseteq LeavesUnder(plan, Child(q, i))
    BY LeavesByChild, LeavesUnderAre DEF Showing
  <2>2. branches[i][p] = base[p] + Cardinality(B(i))
    BY DEF Effect
  <2> HIDE DEF B
  <2> QED BY <2>1, <2>2, FS_Subset
<1> HIDE DEF A, B
<1> DEFINE S == {i \in Nat : i <= n => sum[i] = Cardinality(A(i))}
<1>6. S = Nat
  <2>1. 0 \in S
    BY <1>2, <1>3, FS_EmptySet DEF IsSum
  <2>2. ASSUME NEW m \in S PROVE m + 1 \in S
    <3> SUFFICES ASSUME m + 1 <= n PROVE sum[m + 1] = Cardinality(A(m + 1))
      OBVIOUS
    <3>1. PICK i \in 1..n : i = m + 1 /\ i - 1 = m /\ m \in 0..n /\ m <= n
      OBVIOUS
    <3>2. A(i) = A(m) \cup B(i) /\ A(m) \cap B(i) = {}
      BY <1>3, <3>1
    <3>3. PICK a \in Nat, b \in Nat : a = Cardinality(A(m)) /\ b = Cardinality(B(i))
      BY <1>4, <1>5, <3>1, FS_CardinalityType
    <3>4. Cardinality(A(i)) = a + b
      <4>1. Cardinality(A(m) \cap B(i)) = 0
        BY <3>2, FS_EmptySet
      <4>2. Cardinality(A(m) \cup B(i)) = Cardinality(A(m)) + Cardinality(B(i)) - Cardinality(A(m) \cap B(i))
        BY <1>4, <1>5, <3>1, FS_Union
      <4> QED BY <3>2, <3>3, <4>1, <4>2
    <3>5. sum[i] = sum[m] + (branches[i][p] - base[p])
      BY <1>2, <3>1 DEF IsSum
    <3>6. sum[m] = a
      BY <3>1, <3>3
    <3>7. sum[i] = a + b
      BY <1>1, <1>5, <3>3, <3>5, <3>6
    <3> QED BY <3>1, <3>4, <3>7
  <2>3. S \in SUBSET Nat
    OBVIOUS
  <2> HIDE DEF S
  <2> QED BY <2>1, <2>2, <2>3, Induction
<1>7. sum[n] = Cardinality(A(n))
  BY <1>6
<1> QED BY <1>2, <1>3, <1>7 DEF IsSum

\* A branch finds what its parallel found.
LEMMA BranchFinds ==
  ASSUME NEW plan, IsPlan(plan), NEW from, NEW frame, NEW at, IsCourse(at, plan, from, frame),
         NEW q \in DOMAIN plan, plan[q].type = "parallel", NEW i \in 1..plan[q].children
  PROVE  at[<<Child(q, i), "before">>] = at[<<q, "before">>]
<1>1. ~IsLeaf(plan[q]) /\ plan[q].type # "sequence"
  BY DEF IsLeaf
<1>2. q \in Paths /\ i \in Nat \ {0} /\ Child(q, i) \in DOMAIN plan
  BY <1>1 DEF IsPlan, Paths
<1>3. PICK c : c = Child(q, i)
  OBVIOUS
<1>4. Front(c) = q /\ c # <<>> /\ c \in DOMAIN plan
  BY <1>2, <1>3, ChildIs
<1>5. at[<<c, "before">>] = FoundBy(plan, from, at, c)
  BY <1>4 DEF IsCourse
<1> QED BY <1>1, <1>3, <1>4, <1>5 DEF FoundBy

\* A parallel whose branches agree: each property is what one of them left it.
LEMMA ParallelIsSound ==
  ASSUME NEW plan, IsPlan(plan), NEW from, NEW frame, NEW at, IsCourse(at, plan, from, frame),
         NEW q \in DOMAIN plan, plan[q].type = "parallel", BranchesAgree(plan, at, q),
         \A i \in 1..plan[q].children : Sound(plan, at, Child(q, i))
  PROVE  Sound(plan, at, q)
<1>0. \A i \in 1..plan[q].children : at[<<Child(q, i), "before">>] = at[<<q, "before">>]
  BY BranchFinds
<1> DEFINE base == at[<<q, "before">>]
           left(i) == at[<<Child(q, i), "after">>]
           end == at[<<q, "after">>]
<1>1. ~IsLeaf(plan[q]) /\ plan[q].type # "sequence"
  BY DEF IsLeaf
<1>2. PICK n \in Nat : n = plan[q].children
  BY <1>1 DEF IsPlan
<1>3. \A i \in 1..n : Child(q, i) \in DOMAIN plan
  BY <1>1, <1>2 DEF IsPlan
<1> SUFFICES ASSUME end # NoState
             PROVE  base # NoState /\ Effect(plan, LeavesUnder(plan, q), base, end)
  BY DEF Sound
<1>4. PICK b : b = Branches(plan, at, q)
  OBVIOUS
<1>5. DOMAIN b = 1..n /\ Len(b) = n /\ \A i \in 1..n : b[i] = left(i)
  BY <1>2, <1>4, BranchesAre
<1>6. base # NoState /\ end = Joins(base, b)
  <2>1. end = LeftBy(plan, frame, at, q)
    BY DEF IsCourse
  <2> QED BY <1>1, <1>4, <2>1 DEF LeftBy
<1>7. NoState \notin Range(b) /\ end = Merge(base, b)
  BY <1>6 DEF Joins
<1>8. \A i \in 1..n : b[i] # NoState
  BY <1>5, <1>7 DEF Range
<1>9. base \in StatesOf(plan, from)
  BY <1>6, OutcomesAre
<1>10. \A i \in 1..n : b[i] \in StatesOf(plan, from) /\ Effect(plan, LeavesUnder(plan, Child(q, i)), base, b[i])
  <2> TAKE i \in 1..n
  <2>1. at[<<Child(q, i), "before">>] = base
    <3>1. i \in 1..plan[q].children
      BY <1>2
    <3> QED BY <1>0, <3>1
  <2>2. b[i] \in StatesOf(plan, from)
    BY <1>3, <1>5, <1>8, OutcomesAre
  <2> QED BY <1>2, <1>5, <1>8, <2>1, <2>2 DEF Sound
<1>11. \A i, j \in 1..n : \A p \in Touches(plan, Child(q, i)) \cap Touches(plan, Child(q, j)) : b[i][p] = b[j][p]
  <2> SUFFICES ASSUME NEW i \in 1..n, NEW j \in 1..n,
                      NEW p \in Touches(plan, Child(q, i)) \cap Touches(plan, Child(q, j))
               PROVE  b[i][p] = b[j][p]
    OBVIOUS
  <2>1. i \in 1..plan[q].children /\ j \in 1..plan[q].children
    BY <1>2
  <2>2. left(i)[p] = left(j)[p]
    BY <2>1 DEF BranchesAgree
  <2> HIDE DEF left
  <2> QED BY <1>5, <2>2
<1> HIDE DEF base, left, end
<1>12. /\ \A p \in Properties : ~IsCount(p) =>
            \/ end[p] = base[p] /\ \A i \in 1..n : b[i][p] = base[p]
            \/ \E i \in 1..n : b[i][p] # base[p] /\ end[p] = b[i][p]
       /\ \A p \in Properties : IsCount(p) => end[p] = base[p] + Deltas(base, b, p)
  <2>1. \A i \in 1..n : b[i] \in StatesOf(plan, from)
    BY <1>10
  <2> QED BY <1>5, <1>7, <1>9, <2>1, MergeIs
<1>13. ASSUME NEW p \in Properties, IsCount(p)
       PROVE  end[p] = base[p] + Cardinality(Showing(plan, LeavesUnder(plan, q), p))
  <2>1. Deltas(base, b, p) = Cardinality(Showing(plan, LeavesUnder(plan, q), p))
    BY <1>1, <1>2, <1>5, <1>9, <1>10, <1>13, BranchesCount
  <2> QED BY <1>12, <1>13, <2>1
<1>14. ASSUME NEW i \in 1..n PROVE LeavesUnder(plan, Child(q, i)) \subseteq LeavesUnder(plan, q)
  BY <1>1, <1>2, LeavesByChild
<1>15. ASSUME NEW p \in Properties, ~IsCount(p), Writing(plan, LeavesUnder(plan, q), p) = {}
       PROVE  end[p] = base[p]
  <2>1. \A i \in 1..n : Writing(plan, LeavesUnder(plan, Child(q, i)), p) = {}
    BY <1>14, <1>15 DEF Writing
  <2>2. \A i \in 1..n : b[i][p] = base[p]
    BY <1>10, <1>15, <2>1 DEF Effect
  <2> QED BY <1>12, <1>15, <2>2
<1>16. ASSUME NEW p \in Properties, ~IsCount(p), NEW l \in LastWriting(plan, LeavesUnder(plan, q), p)
       PROVE  end[p] = Writes(plan[l])[p]
  <2>1. l \in LeavesUnder(plan, q) /\ p \in DOMAIN Writes(plan[l])
    BY DEF LastWriting, Writing
  <2>2. PICK i \in 1..n : l \in LeavesUnder(plan, Child(q, i))
    BY <1>1, <1>2, <2>1, LeavesByChild
  <2>3. l \in LastWriting(plan, LeavesUnder(plan, Child(q, i)), p)
    BY <1>14, <2>1, <2>2 DEF LastWriting, Writing
  <2>4. b[i][p] = Writes(plan[l])[p]
    BY <1>10, <1>16, <2>3 DEF Effect
  <2>5. p \in Touches(plan, Child(q, i))
    BY <2>3, TouchesAre DEF LastWriting
  <2>6. CASE end[p] = base[p] /\ \A j \in 1..n : b[j][p] = base[p]
    BY <2>4, <2>6
  <2>7. ASSUME NEW j \in 1..n, b[j][p] # base[p], end[p] = b[j][p] PROVE end[p] = b[i][p]
    <3>1. Writing(plan, LeavesUnder(plan, Child(q, j)), p) # {}
      BY <1>10, <1>16, <2>7 DEF Effect
    <3>2. p \in Touches(plan, Child(q, j))
      BY <3>1, TouchesAre
    <3> QED BY <1>11, <2>5, <2>7, <3>2
  <2> QED BY <1>12, <1>16, <2>4, <2>6, <2>7
<1> QED BY <1>6, <1>13, <1>15, <1>16 DEF Effect

\* What the check computes for an accepted plan that obeys the rule, applyNode node by
\* node, is the effect of its commands: where it finds a state to leave, every property
\* is as the last command that writes it left it, and every item was shown as often as
\* there are commands that show it.
THEOREM AcceptedPlansAddUp ==
  ASSUME NEW plan, IsPlan(plan), Measured(plan), NEW from, from \in StatesOf(plan, from), NEW frame,
         ObeysRule(from, plan, frame), NEW at, at = Course(plan, from, frame)
  PROVE  \A q \in DOMAIN plan : Sound(plan, at, q)
<1>1. IsCourse(at, plan, from, frame)
  BY CourseIs
<1>2. \A q \in DOMAIN plan : plan[q].type = "parallel" => BranchesAgree(plan, at, q)
  BY DEF ObeysRule, BranchesAgree
<1>3. MaxTreeDepth \in Nat /\ \A q \in DOMAIN plan : q \in Paths /\ Len(q) \in Nat /\ Len(q) + 1 <= MaxTreeDepth
  BY PlanAssumption DEF Measured, IsPlan, Paths
<1> DEFINE S == {n \in Nat : \A q \in DOMAIN plan : MaxTreeDepth < Len(q) + 1 + n => Sound(plan, at, q)}
<1>4. S = Nat
  <2>1. 0 \in S
    BY <1>3
  <2>2. ASSUME NEW n \in S PROVE n + 1 \in S
    <3> SUFFICES ASSUME NEW q \in DOMAIN plan, MaxTreeDepth < Len(q) + 1 + (n + 1) PROVE Sound(plan, at, q)
      OBVIOUS
    <3>1. CASE IsLeaf(plan[q])
      BY <1>1, <3>1, LeafIsSound
    <3>2. CASE ~IsLeaf(plan[q])
      <4>1. plan[q].children \in Nat \ {0}
        BY <3>2 DEF Measured, WideEnough, IsPlan
      <4>2. ASSUME NEW i \in 1..plan[q].children PROVE Sound(plan, at, Child(q, i))
        <5>1. Child(q, i) \in DOMAIN plan /\ i \in Nat \ {0}
          BY <3>2, <4>1 DEF IsPlan
        <5>2. Len(Child(q, i)) = Len(q) + 1
          BY <1>3, <5>1, ChildIs
        <5>3. PICK k \in Nat : k = Len(q) /\ MaxTreeDepth < k + 1 + (n + 1)
          BY <1>3
        <5>4. MaxTreeDepth < Len(Child(q, i)) + 1 + n
          BY <1>3, <5>2, <5>3
        <5> QED BY <5>1, <5>4
      <4>3. plan[q].type \in {"sequence", "parallel"}
        BY <3>2 DEF IsLeaf
      <4> QED BY <1>1, <1>2, <4>1, <4>2, <4>3, SequenceIsSound, ParallelIsSound
    <3> QED BY <3>1, <3>2
  <2>3. S \in SUBSET Nat
    OBVIOUS
  <2> HIDE DEF S
  <2> QED BY <2>1, <2>2, <2>3, Induction
<1>5. ASSUME NEW q \in DOMAIN plan PROVE Sound(plan, at, q)
  <2>1. PICK n \in Nat : n = MaxTreeDepth /\ MaxTreeDepth < Len(q) + 1 + n
    BY <1>3
  <2> QED BY <1>4, <2>1
<1> QED BY <1>5

-----------------------------------------------------------------------------
(* Plans: playing                                                          *)

\* A property has the value it had or one that a last command wrote.
Explained(plan, L, base, end) ==
  \A p \in Properties :
    /\ IsCount(p) => end[p] = base[p] + Cardinality(Showing(plan, L, p))
    /\ ~IsCount(p) => \/ Writing(plan, L, p) = {} /\ end[p] = base[p]
                      \/ \E l \in LastWriting(plan, L, p) : end[p] = Writes(plan[l])[p]

\* The invariant: what has been played has been played after all that precedes it, and
\* the stage shows what it explains.
PlansIInv ==
  /\ tree \in PlanTrees /\ Measured(tree) /\ fromState \in FirstStates
  /\ Converges(fromState, tree, target)
  /\ playedState \in StatesOf(tree, fromState)
  /\ playedPaths \subseteq Leaves(tree)
  /\ \A r \in Leaves(tree), q \in playedPaths : Precedes(tree, r, q) => r \in playedPaths
  /\ Explained(tree, playedPaths, fromState, playedState)

\* One more command is played, none of those after it having been.
LEMMA CommandIsExplained ==
  ASSUME NEW plan, NEW from, NEW base \in StatesOf(plan, from), NEW state \in StatesOf(plan, from),
         NEW L \in SUBSET Paths, IsFiniteSet(L), NEW q \in Paths \ L,
         \A r \in L : ~Precedes(plan, q, r), Explained(plan, L, base, state)
  PROVE  Explained(plan, L \cup {q}, base, Perform(state, plan[q]))
<1> DEFINE M == L \cup {q}
           end == Perform(state, plan[q])
<1>1. \A p \in Properties :
        /\ p \in Shown(plan[q]) => end[p] = state[p] + 1
        /\ p \in DOMAIN Writes(plan[q]) => end[p] = Writes(plan[q])[p]
        /\ p \notin Shown(plan[q]) /\ p \notin DOMAIN Writes(plan[q]) => end[p] = state[p]
  BY StateIsSome, PerformIs
<1> HIDE DEF end
<1>2. ASSUME NEW p \in Properties, IsCount(p)
      PROVE  end[p] = base[p] + Cardinality(Showing(plan, M, p))
  <2> DEFINE A == Showing(plan, L, p)
  <2>1. A \subseteq L /\ q \notin A
    BY DEF Showing
  <2>2. IsFiniteSet(A)
    BY <2>1, FS_Subset
  <2>3. state[p] = base[p] + Cardinality(A)
    BY <1>2 DEF Explained
  <2>4. base[p] \in Int
    BY <1>2 DEF StatesOf
  <2>5. PICK a \in Nat : a = Cardinality(A)
    BY <2>2, FS_CardinalityType
  <2>6. CASE p \in Shown(plan[q])
    <3>1. Showing(plan, M, p) = A \cup {q}
      BY <2>6 DEF Showing
    <3> HIDE DEF A
    <3>2. Cardinality(A \cup {q}) = a + 1
      BY <2>1, <2>2, <2>5, FS_AddElement
    <3>3. end[p] = base[p] + (a + 1)
      BY <1>1, <2>3, <2>4, <2>5, <2>6
    <3> QED BY <3>1, <3>2, <3>3
  <2>7. CASE p \notin Shown(plan[q])
    <3>1. Showing(plan, M, p) = A
      BY <2>7 DEF Showing
    <3>2. p \notin DOMAIN Writes(plan[q])
      BY <1>2, WritesAreNoCounts
    <3> HIDE DEF A
    <3> QED BY <1>1, <2>3, <2>7, <3>1, <3>2
  <2> QED BY <2>6, <2>7
<1>3. ASSUME NEW p \in Properties, ~IsCount(p)
      PROVE  \/ Writing(plan, M, p) = {} /\ end[p] = base[p]
             \/ \E l \in LastWriting(plan, M, p) : end[p] = Writes(plan[l])[p]
  <2>1. p \notin Shown(plan[q])
    BY <1>3, WritesAreNoCounts
  <2>2. CASE p \in DOMAIN Writes(plan[q])
    <3>1. q \in LastWriting(plan, M, p)
      BY <2>2, PrecedesIsStrict DEF LastWriting, Writing
    <3> QED BY <1>1, <2>2, <3>1
  <2>3. CASE p \notin DOMAIN Writes(plan[q])
    <3>1. Writing(plan, M, p) = Writing(plan, L, p) /\ LastWriting(plan, M, p) = LastWriting(plan, L, p)
      BY <2>3 DEF LastWriting, Writing
    <3>2. end[p] = state[p]
      BY <1>1, <2>1, <2>3
    <3> QED BY <1>3, <3>1, <3>2 DEF Explained
  <2> QED BY <2>2, <2>3
<1> QED BY <1>2, <1>3 DEF Explained, end

\* Before the first command.
LEMMA PlansInitHolds == PlansInit => PlansIInv
<1> SUFFICES ASSUME PlansInit PROVE PlansIInv
  OBVIOUS
<1> USE DEF PlansInit
<1>1. playedState \in StatesOf(tree, fromState)
  BY FirstStatesAreStates
<1>2. Explained(tree, playedPaths, fromState, playedState)
  <2>1. Effect(tree, {}, fromState, playedState)
    BY <1>1, NothingHasNoEffect
  <2>2. \A p : Writing(tree, {}, p) = {}
    BY DEF Writing
  <2> QED BY <2>1, <2>2 DEF Effect, Explained
<1> QED BY <1>1, <1>2 DEF PlansIInv

\* A command.
LEMMA PlansStepHolds == PlansIInv /\ [PlayCommand]_planVars => PlansIInv'
<1> SUFFICES ASSUME PlansIInv, [PlayCommand]_planVars PROVE PlansIInv'
  OBVIOUS
<1>1. CASE PlayCommand
  <2>1. PICK q \in Leaves(tree) \ playedPaths :
          /\ \A r \in Leaves(tree) : Precedes(tree, r, q) => r \in playedPaths
          /\ playedState' = Perform(playedState, tree[q])
          /\ playedPaths' = playedPaths \cup {q}
          /\ tree' = tree /\ fromState' = fromState /\ target' = target
    BY <1>1 DEF PlayCommand
  <2>2. IsPlan(tree) /\ fromState \in StatesOf(tree, fromState)
    BY PlanAssumption, FirstStatesAreStates DEF PlansIInv
  <2>3. Leaves(tree) \in SUBSET Paths /\ Leaves(tree) \subseteq DOMAIN tree /\ IsFiniteSet(DOMAIN tree)
    BY <2>2 DEF IsPlan, Paths, Leaves
  <2>4. playedPaths \in SUBSET Paths /\ IsFiniteSet(playedPaths) /\ q \in Paths \ playedPaths
    <3>1. playedPaths \subseteq DOMAIN tree
      BY <2>3 DEF PlansIInv
    <3>2. IsFiniteSet(playedPaths)
      BY <2>3, <3>1, FS_Subset
    <3> QED BY <2>3, <3>2 DEF PlansIInv
  <2>5. \A r \in playedPaths : ~Precedes(tree, q, r)
    BY DEF PlansIInv
  <2>6. playedState' \in StatesOf(tree, fromState)
    BY <2>1, <2>3, PerformKeepsStates DEF PlansIInv
  <2>7. Explained(tree, playedPaths \cup {q}, fromState, playedState')
    BY <2>1, <2>2, <2>4, <2>5, CommandIsExplained DEF PlansIInv
  <2>8. \A r \in Leaves(tree), s \in playedPaths' : Precedes(tree, r, s) => r \in playedPaths'
    BY <2>1 DEF PlansIInv
  <2>9. playedPaths' \subseteq Leaves(tree)
    BY <2>1 DEF PlansIInv
  <2>10. tree \in PlanTrees /\ Measured(tree) /\ fromState \in FirstStates /\ Converges(fromState, tree, target)
    BY DEF PlansIInv
  <2> QED BY <2>1, <2>6, <2>7, <2>8, <2>9, <2>10 DEF PlansIInv
<1>2. CASE UNCHANGED planVars
  BY <1>2 DEF PlansIInv, planVars
<1> QED BY <1>1, <1>2

\* A state that agrees on every property matches what the other matches.
LEMMA AgreeingStatesMatch ==
  ASSUME NEW state, NEW end, NEW frame, \A p \in Properties : state[p] = end[p], Matches(end, frame)
  PROVE  Matches(state, frame)
<1>1. ASSUME NEW p \in Properties, p[1] \in {"slot", "expression"} PROVE Property("visible", p[2]) \in Properties
  BY <1>1 DEF Properties, Property
<1> QED BY <1>1 DEF Matches

\* When all have been played, check and stage agree on every property.
LEMMA PlansIInvConverges == PlansIInv => RuledPlansConverge
<1> SUFFICES ASSUME PlansIInv, playedPaths = Leaves(tree), ObeysRule(fromState, tree, target)
             PROVE  Matches(playedState, target)
  BY DEF RuledPlansConverge
<1>1. IsPlan(tree) /\ Measured(tree) /\ fromState \in StatesOf(tree, fromState)
  BY PlanAssumption, FirstStatesAreStates DEF PlansIInv
<1>2. PICK at : at = Course(tree, fromState, target)
  OBVIOUS
<1>3. PICK end : end = at[<<<<>>, "after">>]
  OBVIOUS
<1>4. end # NoState /\ Matches(end, target)
  BY <1>2, <1>3 DEF PlansIInv, Converges, Apply
<1>5. <<>> \in DOMAIN tree
  BY <1>1 DEF IsPlan
<1>6. at[<<<<>>, "before">>] = fromState
  <2>1. IsCourse(at, tree, fromState, target)
    BY <1>1, <1>2, CourseIs
  <2>2. at[<<<<>>, "before">>] = FoundBy(tree, fromState, at, <<>>)
    BY <1>5, <2>1 DEF IsCourse
  <2> QED BY <2>2 DEF FoundBy
<1>7. LeavesUnder(tree, <<>>) = Leaves(tree)
  <2>1. LeavesUnder(tree, <<>>) = {l \in Leaves(tree) : StartsWith(<<>>, l)}
    BY <1>1, <1>5, LeavesUnderAre
  <2>2. \A l \in Leaves(tree) : l \in Paths
    BY <1>1 DEF IsPlan, Paths, Leaves
  <2>3. \A l \in Paths : StartsWith(<<>>, l)
    BY DEF StartsWith, Paths
  <2> QED BY <2>1, <2>2, <2>3
<1>8. Effect(tree, playedPaths, fromState, end)
  <2>1. Sound(tree, at, <<>>)
    BY <1>1, <1>2, <1>5, AcceptedPlansAddUp
  <2> QED BY <1>3, <1>4, <1>6, <1>7, <2>1 DEF Sound
<1>9. Explained(tree, playedPaths, fromState, playedState)
  BY DEF PlansIInv
<1>10. \A p \in Properties : playedState[p] = end[p]
  BY <1>8, <1>9 DEF Effect, Explained
<1> QED BY <1>4, <1>10, AgreeingStatesMatch

\* A plan that was accepted and whose parallel branches obey the rule ends at the frame
\* it was accepted for, in whatever order its commands come, for plans of every shape
\* and every number of branches (presentationPlanConvergesToTargetFrameV2, #playNode).
THEOREM PlansConverge == PlansSpec => []RuledPlansConverge
<1>1. PlansInit => PlansIInv
  BY PlansInitHolds
<1>2. PlansIInv /\ [PlayCommand]_planVars => PlansIInv'
  BY PlansStepHolds
<1>3. PlansIInv => RuledPlansConverge
  BY PlansIInvConverges
<1> QED BY <1>1, <1>2, <1>3, PTL DEF PlansSpec
===============================================================================
