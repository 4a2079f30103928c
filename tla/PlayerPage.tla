----------------------------- MODULE PlayerPage -----------------------------
(***************************************************************************)
(* The page of the player: it resumes the session it remembers or creates  *)
(* one, sends actions, and hands the frame and the plan of an answer to the *)
(* executor; a reload may come at any moment, and answers may be lost.  The *)
(* runtime behind its proxy is what the page sees of it: a session, its     *)
(* revision, and the frames stored with its turns.                          *)
(*                                                                          *)
(* The player as launched has no media: its frames are applied before any   *)
(* other event of the page is handled, and never rejected.  Plans take time.*)
(***************************************************************************)
EXTENDS PresentationExecutor

CONSTANTS
  PageCall,        \* the executor's call of the page: one at a time
  MaxSubmits,      \* bound on the actions submitted
  MaxLoads         \* bound on the loads of the page

ASSUME PageCallAssumption == PageCall \in ShowCalls

VARIABLES
  played,          \* revision of each session, and the turns stored with a frame
  page,            \* state of app.js: phase, session, frame, and what it waits for
  remembered,      \* the page's sessionStorage
  posts,           \* actions under way, which land even when the page is gone
  stage,           \* what the page shows
  submits, loads,  \* counters
  given            \* auxiliary: the last frame this load of the page was given

pageVars == <<played, page, remembered, posts, stage, submits, loads, given>>
playerVars == <<executorVars, pageVars>>

NoSession == [id |-> "none", revision |-> 0, last |-> 0]
Unborn == [born |-> FALSE, revision |-> 0, framed |-> {}]
NoRequest == [for |-> "nothing"]
Dark == [shows |-> NoFrame, whole |-> TRUE]
FrameOf(s, r) == [session |-> s, revision |-> r, variant |-> CHOOSE v \in Variants : TRUE]

PlayerInit ==
  /\ ExecutorInit
  /\ played = [s \in PlaySessions |-> Unborn]
  /\ page = [phase |-> "none", session |-> NoSession, frame |-> NoFrame, waits |-> NoRequest]
  /\ remembered = NoSession /\ posts = {} /\ stage = Dark
  /\ submits = 0 /\ loads = 0 /\ given = NoFrame

Settled == showCalls[PageCall].stage \notin {"restoring", "applying", "finishing"}
Turns(phase, waits) == page' = [page EXCEPT !.phase = phase, !.waits = waits]
PageAsks(waits) == page' = [page EXCEPT !.waits = waits]
Waits(for) == Settled /\ page.waits.for = for
Busy == page.phase \in {"acting", "presenting", "resetting"}
ExecutorRests == UNCHANGED executorVars

\* render() empties the stage; paintConfirmedFrame() then shows the frame the
\* page holds, if it holds one.
Painted(f) == stage' = [shows |-> f, whole |-> TRUE]

(***************************************************************************)
(* Loading, and opening a session.                                         *)
(***************************************************************************)
LoadPage ==
  /\ Settled /\ loads < MaxLoads
  /\ loads' = loads + 1
  /\ page' = [phase |-> "loading", session |-> NoSession, frame |-> NoFrame,
              waits |-> [for |-> "metadata"]]
  /\ stage' = Dark /\ given' = NoFrame
  /\ confirmed' = NoFrame /\ consumed' = NoTurnShown /\ playback' = "idle"
  /\ shows' = 0 /\ controller' = 0 /\ aborted' = {} /\ skipping' = FALSE
  /\ showCalls' = [showCalls EXCEPT ![PageCall] = Waiting]
  /\ UNCHANGED <<played, remembered, posts, submits>>

StartFails ==
  /\ \/ Waits("metadata") \/ Waits("create")
  /\ Turns("error", NoRequest) /\ remembered' = NoSession
  /\ ExecutorRests /\ UNCHANGED <<played, posts, stage, submits, loads, given>>

MetadataArrives ==
  /\ Waits("metadata")
  /\ \E sameTemplate \in BOOLEAN :
       PageAsks([for |-> IF remembered # NoSession /\ sameTemplate THEN "session" ELSE "create"])
  /\ ExecutorRests /\ UNCHANGED <<played, remembered, posts, stage, submits, loads, given>>

\* A bug: the frame of an opened session is painted past the executor.
OpenedPastExecutor(session, f) ==
  /\ page' = [phase |-> "ready", session |-> session, frame |-> f, waits |-> NoRequest]
  /\ remembered' = session
  /\ given' = f /\ Painted(f) /\ ExecutorRests

\* The session is remembered, and its frame restored without playing a turn.
Opened(session, f) ==
  /\ remembered' = session
  /\ given' = f /\ Painted(NoFrame)
  /\ page' = [phase |-> "ready", session |-> session, frame |-> f,
              waits |-> IF f = NoFrame THEN NoRequest ELSE [for |-> "restore"]]
  /\ IF f = NoFrame THEN ExecutorRests ELSE Restore(PageCall, f)

SessionRead ==
  /\ Waits("session")
  /\ \/ /\ remembered' = NoSession /\ PageAsks([for |-> "create"])
        /\ ExecutorRests /\ UNCHANGED <<stage, given>>
     \/ LET seen == [remembered EXCEPT !.revision = played[remembered.id].revision] IN
        IF remembered.last = 0 THEN Opened(seen, NoFrame)
        ELSE /\ PageAsks([for |-> "operation", session |-> seen])
             /\ ExecutorRests /\ UNCHANGED <<remembered, stage, given>>
  /\ UNCHANGED <<played, posts, submits, loads>>

\* The frame of the last operation counts if it is the revision just read.
OperationRead ==
  /\ Waits("operation")
  /\ LET seen == page.waits.session IN
     \E ok \in BOOLEAN :
       Opened(seen, IF ok /\ seen.last = seen.revision /\ seen.last \in played[seen.id].framed
                    THEN FrameOf(seen.id, seen.last) ELSE NoFrame)
  /\ UNCHANGED <<played, posts, submits, loads>>

\* The proxy adds the initial frame to the answer of a creation.
SessionCreated ==
  /\ \/ Waits("create") \/ Waits("reset")
  /\ \E s \in PlaySessions :
       /\ ~played[s].born
       /\ played' = [played EXCEPT ![s] = [born |-> TRUE, revision |-> 0, framed |-> {0}]]
       /\ Opened([id |-> s, revision |-> 0, last |-> 0], FrameOf(s, 0))
  /\ UNCHANGED <<posts, submits, loads>>

Restored ==
  /\ Waits("restore") /\ showCalls[PageCall].stage = "over"
  /\ ReadResult(PageCall)
  /\ page' = [page EXCEPT !.frame = confirmed, !.waits = NoRequest]
  /\ Painted(confirmed)
  /\ UNCHANGED <<played, remembered, posts, submits, loads, given>>

ResetSession ==
  /\ Settled /\ page.session # NoSession /\ ~Busy /\ page.waits = NoRequest
  /\ CancelActive
  /\ Turns("resetting", [for |-> "reset"]) /\ Painted(NoFrame)
  /\ UNCHANGED <<played, remembered, posts, submits, loads, given>>

ResetFails ==
  /\ Waits("reset")
  /\ Turns("error", NoRequest) /\ Painted(NoFrame)
  /\ ExecutorRests /\ UNCHANGED <<played, remembered, posts, submits, loads, given>>

(***************************************************************************)
(* An action.                                                              *)
(***************************************************************************)
Submit ==
  /\ Settled /\ page.session # NoSession /\ ~Busy /\ page.waits = NoRequest
  /\ submits < MaxSubmits /\ submits' = submits + 1
  /\ posts' = posts \cup {[session |-> page.session.id, expected |-> page.session.revision,
                           key |-> submits']}
  /\ Turns("acting", [for |-> "action", key |-> submits', answer |-> "none"])
  /\ Painted(page.frame)
  /\ ExecutorRests /\ UNCHANGED <<played, remembered, loads, given>>

IsFor(post) == page.waits.for = "action" /\ page.waits.key = post.key
AnswerTo(post, answer) ==
  page' = IF IsFor(post) THEN [page EXCEPT !.waits.answer = answer] ELSE page

\* The runtime commits one turn for the revision the action expects; its
\* frame is stored with it, unless it has none the page would accept.
PostLands(post) ==
  LET s == played[post.session] IN
  /\ Settled /\ post \in posts
  /\ posts' = posts \ {post}
  /\ \/ /\ s.revision = post.expected /\ s.revision < LastTurn
        /\ \E framed \in BOOLEAN :
             played' = [played EXCEPT ![post.session].revision = @ + 1,
                          ![post.session].framed = IF framed THEN @ \cup {s.revision + 1} ELSE @]
        /\ AnswerTo(post, "committed")
     \/ AnswerTo(post, "refused") /\ UNCHANGED played
  /\ ExecutorRests /\ UNCHANGED <<remembered, stage, submits, loads, given>>

\* The request or its answer is lost, or the runtime has refused.
ActionFails ==
  /\ Waits("action")
  /\ Turns("error", NoRequest) /\ Painted(page.frame)
  /\ ExecutorRests /\ UNCHANGED <<played, remembered, posts, submits, loads, given>>

TurnArrives ==
  LET s == page.session.id
      r == page.session.revision + 1
      session == [id |-> s, revision |-> r, last |-> r]
  IN /\ Waits("action") /\ page.waits.answer = "committed"
     /\ remembered' = session
     /\ IF r \in played[s].framed
        THEN /\ page' = [page EXCEPT !.phase = "presenting", !.session = session,
                                     !.waits = [for |-> "show", frame |-> FrameOf(s, r)]]
             /\ \E plan \in {NoPlan} \cup {p \in Plans(FrameOf(s, r)) : p # NoPlan /\ p.from = r - 1},
                   still \in BOOLEAN : Present(PageCall, FrameOf(s, r), plan, still)
             /\ given' = FrameOf(s, r)
             /\ stage' = [shows |-> page.frame, whole |-> showCalls'[PageCall].stage # "playing"]
        ELSE /\ page' = [page EXCEPT !.phase = "ready", !.session = session, !.waits = NoRequest]
             /\ Painted(page.frame) /\ ExecutorRests /\ UNCHANGED given
     /\ UNCHANGED <<played, posts, submits, loads>>

FrameApplied ==
  /\ Applied(PageCall)
  /\ Painted(showCalls[PageCall].frame)
  /\ UNCHANGED <<played, page, remembered, posts, submits, loads, given>>

PlanPlays ==
  /\ PlanEnds(PageCall) \/ (showCalls[PageCall].stage = "playing" /\ PlanFails(PageCall))
  /\ UNCHANGED pageVars

SkipPresentation == Settled /\ page.phase = "presenting" /\ SkipActive /\ UNCHANGED pageVars

Presented ==
  LET f == IF confirmed = NoFrame THEN page.waits.frame ELSE confirmed IN
  /\ Waits("show") /\ showCalls[PageCall].stage = "over"
  /\ ReadResult(PageCall)
  /\ page' = [page EXCEPT !.phase = "ready", !.frame = f, !.waits = NoRequest]
  /\ Painted(f)
  /\ UNCHANGED <<played, remembered, posts, submits, loads, given>>

PlayerNext ==
  \/ LoadPage \/ StartFails \/ MetadataArrives \/ SessionRead \/ OperationRead
  \/ SessionCreated \/ Restored \/ ResetSession \/ ResetFails
  \/ Submit \/ (\E post \in posts : PostLands(post)) \/ ActionFails \/ TurnArrives
  \/ FrameApplied \/ PlanPlays \/ SkipPresentation \/ Presented

PlayerSpec == PlayerInit /\ [][PlayerNext]_playerVars

(***************************************************************************)
(* Properties.                                                             *)
(***************************************************************************)
\* Whenever the page is ready it shows, whole, the last frame it was given,
\* which is one of its session and not newer than the turn it tells of: after
\* a reset, a reload at any moment, a skip, a plan that fails or a turn that
\* came without a frame.
TheTurnIsShown ==
  page.phase = "ready" /\ page.waits = NoRequest =>
    /\ stage = [shows |-> given, whole |-> TRUE]
    /\ given # NoFrame =>
         given.session = page.session.id /\ given.revision <= page.session.revision
=============================================================================
