-------------------------- MODULE AuthorAssistant --------------------------
(***************************************************************************)
(* What drives an authoring job: the segment executor                      *)
(* (runAuthorAssistantSegment), which walks one instruction through read,  *)
(* model turn, proposal, preview and, in automatic mode, apply; and the    *)
(* HTTP routes beside it, by which a person requests a segment, applies an *)
(* offered proposal or cancels the job.  Between any two awaits another    *)
(* handler may run, and the process may die.                               *)
(*                                                                         *)
(* The draft is seen from here as the list of who made each revision, and  *)
(* applyAuthoringProposalFromStore as one step: module AuthoringProposals  *)
(* takes that step apart.                                                  *)
(***************************************************************************)
EXTENDS AuthorAgentJobs

CONSTANTS
  Instructions,    \* what authors ask for
  Bodies,          \* what the model may answer: the body of a proposal
  Inapplicable,    \* the bodies that name a missing capability
  Keys,            \* idempotency keys of the apply route
  Kits,            \* installed agent kits (a new build brings a new one)
  Modes,           \* whether a segment applies its proposal itself: a set of autoApply
  ReferenceTool,   \* whether the model may ask for the reference tool
  MaxRevision,     \* bound: people stop editing at this revision
  MaxStart         \* bound: no segment is requested or begun beyond this version

ASSUME BodiesAssumption == "person" \notin Bodies

VARIABLES
  draft,           \* who made revision n: a proposal or Person
  applications,    \* idempotency key |-> [proposal, revision]
  artifacts,       \* turn |-> the proposal saved for it
  ready,           \* proposals whose message is about to be written (in memory)
  offered,         \* proposals the conversation offers to the author
  kit,             \* the kit of the running build
  seg,             \* the active segment of the job
  app              \* one call of the apply route

assistantVars == <<draft, applications, artifacts, ready, offered, kit, seg, app>>
allVars == <<jobVars, assistantVars>>

NoTurn == [instruction |-> "none", revision |-> 0]
NoProposal == [turn |-> NoTurn, body |-> "none"]
Person == [NoProposal EXCEPT !.body = "person"]     \* who made a revision by hand
NoAnswer == [kind |-> "none", state |-> "queued"]
NoJob == [state |-> "queued", version |-> 0, calls |-> 0, active |-> 0]
Idle == [pc |-> "idle", job |-> NoJob, turn |-> NoTurn, proposal |-> NoProposal,
         replay |-> FALSE, stale |-> FALSE, answer |-> NoAnswer]
IdleApp == [pc |-> "idle", proposal |-> NoProposal, key |-> "none", job |-> NoJob, left |-> 0]

AssistantInit ==
  /\ JobInit
  /\ draft = <<>> /\ applications = [k \in {} |-> {}] /\ artifacts = [t \in {} |-> {}]
  /\ ready = {} /\ offered = {} /\ kit \in Kits
  /\ seg = Idle /\ app = IdleApp

Current == Len(draft)
Base(proposal) == proposal.turn.revision

\* The facts of the journal that carry data.
Requested(i, resume) == [kind |-> "segment.requested", instruction |-> i, resume |-> resume]
Pinned == [kind |-> "broker.pinned", kit |-> kit]
Selected(turn) == [kind |-> "context.selected", revision |-> turn.revision]
Produced(p) == [kind |-> "proposal.produced", proposal |-> p]
Applied(p, n) == [kind |-> "proposal.applied", proposal |-> p, revision |-> n]
Journaled(fact) == \E i \in DOMAIN journal : journal[i] = fact

ReadOp(turn) == [kind |-> "draft.read", turn |-> turn]
ToolOp(turn) == [kind |-> "docs.reference.read", turn |-> turn]
PreviewOp(p) == [kind |-> "proposal.preview", proposal |-> p]
ApplyOp(p) == [kind |-> "proposal.apply", proposal |-> p]
Hash == "same"     \* every operation id here is derived from all of its request

(***************************************************************************)
(* Moves of the segment                                                    *)
(***************************************************************************)
At(pc) == seg.pc = pc
Goto(pc, record) == seg' = [seg EXCEPT !.pc = pc, !.job = record]
End(kind, record) == seg' = [Idle EXCEPT !.answer = [kind |-> kind, state |-> record.state]]

Others == UNCHANGED <<draft, applications, artifacts, ready, offered, kit, app>>

\* markFailed re-reads the job: from a state that cannot fail it stays as it is.
Fail ==
  /\ \/ Transition(job.version, "failed")
     \/ ~Allowed(job.state, "failed") /\ UNCHANGED jobVars
  /\ End("failed", job')

Conflict == UNCHANGED jobVars /\ End("job_conflict", job)

\* One fact under the version the segment last saw.
Journal(fact, pc) ==
  \/ AppendCheckpoint(seg.job.version, fact) /\ Goto(pc, job')
  \/ /\ seg.job.version # job.version \/ job.state \in Terminal
     /\ Conflict

JournalOnce(fact, pc) ==
  \/ ~Journaled(fact) /\ Journal(fact, pc)
  \/ Journaled(fact) /\ UNCHANGED jobVars /\ Goto(pc, seg.job)

\* The four answers of reserveOperation that the executor tells apart.
ReserveOp(id, pc) ==
  \/ Reserve(seg.job.version, id, Hash) /\ seg' = [seg EXCEPT !.pc = pc, !.job = job', !.replay = FALSE]
  \/ /\ id \in Reserved
     /\ UNCHANGED jobVars
     /\ seg' = [seg EXCEPT !.pc = pc, !.job = job, !.replay = id \in CompletedOps]
  \/ /\ id \notin Reserved /\ seg.job.version = job.version /\ Runnable /\ BudgetExhausted
     /\ UNCHANGED jobVars /\ End("paused_budget", job)
  \/ /\ id \notin Reserved /\ (seg.job.version # job.version \/ ~Runnable)
     /\ Conflict

\* completeOperation, skipped when the reservation was answered from a completed record.
CompleteOp(id, fresh, replayed) ==
  \/ ~seg.replay /\ Complete(id, Hash, 0) /\ Goto(fresh, job')
  \/ seg.replay /\ UNCHANGED jobVars /\ Goto(replayed, seg.job)

(***************************************************************************)
(* The segment route and the executor                                      *)
(***************************************************************************)
\* The route journals the request before it looks whether a segment is running.
RequestSegment(i, resume) ==
  /\ job.version <= MaxStart /\ ~Journaled(Requested(i, resume))
  /\ AppendCheckpoint(job.version, Requested(i, resume))
  /\ UNCHANGED <<assistantVars>>

\* A request, new or repeated, that finds no segment active in this process.  Closed jobs,
\* and paused ones without resumeBudget, are answered as they stand.
BeginSegment(i, resume) ==
  /\ job.version <= MaxStart /\ Journaled(Requested(i, resume))
  /\ At("idle")
  /\ \/ job.state \in {"queued", "waiting_user"} /\ Transition(job.version, "running")
     \/ job.state = "paused_budget" /\ resume /\ Transition(job.version, "running")
     \/ job.state = "running" /\ UNCHANGED jobVars
  /\ seg' = [Idle EXCEPT !.pc = "pin", !.job = job', !.turn.instruction = i]
  /\ Others

Pin ==
  /\ At("pin")
  /\ \/ Count("broker.pinned") = 0 /\ Journal(Pinned, "read")
     \/ Journaled(Pinned) /\ UNCHANGED jobVars /\ Goto("read", seg.job)
     \/ Count("broker.pinned") > 0 /\ ~Journaled(Pinned) /\ Fail
  /\ Others

\* The turn is the instruction together with the draft it is read against.
ReadDraft ==
  /\ At("read")
  /\ LET turn == [seg.turn EXCEPT !.revision = Current]
         id   == ReadOp(turn)
     IN  \/ /\ Reserve(seg.job.version, id, Hash)
            /\ seg' = [seg EXCEPT !.pc = "readDone", !.job = job', !.turn = turn, !.replay = FALSE]
         \/ /\ id \in Reserved /\ UNCHANGED jobVars
            /\ seg' = [seg EXCEPT !.pc = "readDone", !.job = job, !.turn = turn,
                                  !.replay = id \in CompletedOps]
         \/ /\ id \notin Reserved /\ seg.job.version = job.version /\ Runnable /\ BudgetExhausted
            /\ UNCHANGED jobVars /\ End("paused_budget", job)
         \/ /\ id \notin Reserved /\ (seg.job.version # job.version \/ ~Runnable)
            /\ Conflict
  /\ Others

CompleteRead ==
  /\ At("readDone")
  /\ CompleteOp(ReadOp(seg.turn), "readFact", "context")
  /\ Others

ReadFact == At("readFact") /\ Journal(Fact("draft.read"), "context") /\ Others

\* A bug: the selected context is not journaled.
NoContext ==
  /\ At("context") /\ UNCHANGED jobVars /\ Goto("turn", seg.job)
  /\ Others

SelectContext == At("context") /\ JournalOnce(Selected(seg.turn), "turn") /\ Others

(***************************************************************************)
(* The model's turn.  A proposal saved for the turn is used again; else    *)
(* the backend fails, is cancelled, or answers with a body, perhaps after  *)
(* one use of the reference tool.                                          *)
(***************************************************************************)

UseProposal(p, record) ==
  seg' = [seg EXCEPT !.pc = "produced", !.job = record, !.proposal = p]

Answers ==
  \/ job.state # "cancelled" /\ Fail /\ UNCHANGED artifacts
  \/ job.state = "cancelled" /\ UNCHANGED <<jobVars, artifacts>> /\ End("cancelled", job)
  \/ /\ job.state # "cancelled"
     /\ \E body \in Bodies :
          LET p == [turn |-> seg.turn, body |-> body]
          IN  /\ artifacts' = [t \in DOMAIN artifacts \union {seg.turn} |->
                                 IF t = seg.turn THEN p ELSE artifacts[t]]
              /\ UseProposal(p, seg.job)
     /\ UNCHANGED jobVars

\* The tool is asked for by the job as it is now; an earlier request of the same turn that
\* is still pending is taken for a refusal of the broker and fails the job.
AskTool ==
  LET id == ToolOp(seg.turn)
  IN  /\ ReferenceTool /\ job.state # "cancelled"
      /\ \/ Reserve(job.version, id, Hash) /\ Goto("tool", job')
         \/ id \in CompletedOps /\ UNCHANGED jobVars
            /\ IF job.state = "paused_budget" THEN End("paused_budget", job) ELSE Goto("answer", job)
         \/ id \in Reserved \ CompletedOps /\ Fail
         \/ id \notin Reserved /\ Runnable /\ BudgetExhausted /\ UNCHANGED jobVars
            /\ End("paused_budget", job)
         \/ id \notin Reserved /\ ~Runnable /\ Fail

Turn ==
  /\ At("turn")
  /\ \/ seg.job.state = "paused_budget" /\ UNCHANGED <<jobVars, artifacts>>
        /\ End("paused_budget", seg.job)
     \/ /\ seg.job.state # "paused_budget" /\ seg.turn \in DOMAIN artifacts
        /\ UseProposal(artifacts[seg.turn], seg.job)
        /\ UNCHANGED <<jobVars, artifacts>>
     \/ /\ seg.job.state # "paused_budget" /\ seg.turn \notin DOMAIN artifacts
        /\ Answers \/ (AskTool /\ UNCHANGED artifacts)
  /\ UNCHANGED <<draft, applications, ready, offered, kit, app>>

FinishTool ==
  /\ At("tool")
  /\ \E t \in Times : Complete(ToolOp(seg.turn), Hash, t)
  /\ CASE job'.state = "cancelled"     -> End("cancelled", job')
       [] job'.state = "paused_budget" -> End("paused_budget", job')
       [] OTHER                        -> Goto("answer", job')
  /\ Others

SecondTurn ==
  /\ At("answer")
  /\ Answers
  /\ UNCHANGED <<draft, applications, ready, offered, kit, app>>

(***************************************************************************)
(* From the proposal to the author, or to the draft                        *)
(***************************************************************************)
JournalProduced == At("produced") /\ JournalOnce(Produced(seg.proposal), "preview") /\ Others

ReservePreview == At("preview") /\ ReserveOp(PreviewOp(seg.proposal), "previewDone") /\ Others

\* The preview is always computed afresh; only its record may be a replay.
Preview ==
  /\ At("previewDone")
  /\ LET stale == Base(seg.proposal) # Current
         id    == PreviewOp(seg.proposal)
     IN  \/ /\ ~seg.replay /\ Complete(id, Hash, 0)
            /\ seg' = [seg EXCEPT !.pc = "previewFact", !.job = job', !.stale = stale]
         \/ /\ seg.replay /\ UNCHANGED jobVars
            /\ seg' = [seg EXCEPT !.pc = "decide", !.stale = stale]
  /\ Others

PreviewFact == At("previewFact") /\ Journal(Fact("proposal.previewed"), "decide") /\ Others

WaitForUser ==
  \/ /\ Transition(seg.job.version, "waiting_user")
     /\ End("proposal_ready", job') /\ ready' = ready \union {seg.proposal}
  \/ /\ seg.job.version # job.version \/ ~Allowed(job.state, "waiting_user")
     /\ Conflict /\ UNCHANGED ready

Decide ==
  /\ At("decide")
  /\ \E autoApply \in Modes :
     LET hold == ~autoApply \/ seg.proposal.body \in Inapplicable
     IN  \/ /\ seg.job.state = "paused_budget"
            /\ UNCHANGED <<jobVars, ready>> /\ End("paused_budget", seg.job)
         \/ /\ seg.job.state # "paused_budget" /\ seg.stale
            /\ Fail /\ UNCHANGED ready
         \/ seg.job.state # "paused_budget" /\ ~seg.stale /\ hold /\ WaitForUser
         \/ /\ seg.job.state # "paused_budget" /\ ~seg.stale /\ ~hold
            /\ ReserveOp(ApplyOp(seg.proposal), "land") /\ UNCHANGED ready
  /\ UNCHANGED <<draft, applications, artifacts, offered, kit, app>>

\* The assistant's message is what the apply route looks proposals up by.
OfferProposal(p) ==
  /\ p \in ready
  /\ ready' = ready \ {p} /\ offered' = offered \union {p}
  /\ UNCHANGED <<jobVars, draft, applications, artifacts, kit, seg, app>>

(***************************************************************************)
(* applyAuthoringProposalFromStore                                         *)
(***************************************************************************)
Replays(key, p) == key \in DOMAIN applications /\ applications[key].proposal = p

\* A bug: the base revision of the proposal is not compared with the draft.
LandsAnywhere(key, p) == key \notin DOMAIN applications /\ p.body \notin Inapplicable

Lands(key, p) ==
  /\ key \notin DOMAIN applications /\ p.body \notin Inapplicable /\ Base(p) = Current

Answered(key, p) == Lands(key, p) \/ Replays(key, p)     \* applied, or replay

ApplyToDraft(key, p) ==
  \/ /\ Lands(key, p)
     /\ draft' = Append(draft, p)
     /\ applications' = [k \in DOMAIN applications \union {key} |->
          IF k = key THEN [proposal |-> p, revision |-> Current + 1] ELSE applications[k]]
  \/ ~Lands(key, p) /\ UNCHANGED <<draft, applications>>

DerivedKey(p) == <<"author", p>>

Land ==
  /\ At("land")
  /\ ApplyToDraft(DerivedKey(seg.proposal), seg.proposal)
  /\ IF Answered(DerivedKey(seg.proposal), seg.proposal)
     THEN UNCHANGED jobVars /\ Goto("landDone", seg.job)
     ELSE Fail
  /\ UNCHANGED <<artifacts, ready, offered, kit, app>>

\* A bug: the landed proposal is not journaled before the job closes.
CompleteLandUnjournaled ==
  /\ At("landDone")
  /\ CompleteOp(ApplyOp(seg.proposal), "succeed", "succeed")
  /\ Others

CompleteLand ==
  /\ At("landDone")
  /\ CompleteOp(ApplyOp(seg.proposal), "landFact", "succeed")
  /\ Others

LandFact ==
  /\ At("landFact")
  /\ Journal(Applied(seg.proposal, applications[DerivedKey(seg.proposal)].revision), "succeed")
  /\ Others

Succeed ==
  /\ At("succeed")
  /\ \/ seg.job.state = "paused_budget" /\ UNCHANGED jobVars /\ End("paused_budget", seg.job)
     \/ Transition(seg.job.version, "succeeded") /\ End("applied", job')
     \/ /\ seg.job.state # "paused_budget"
        /\ seg.job.version # job.version \/ ~Allowed(job.state, "succeeded")
        /\ Conflict
  /\ Others

(***************************************************************************)
(* The apply route: the job is looked at once, the draft is changed, and   *)
(* ensureAppliedCheckpoint then tries four times to journal it.            *)
(***************************************************************************)
BeginApply(p, key) ==
  /\ app.pc = "idle"
  /\ job.state \in {"waiting_user", "paused_budget"} /\ p \in offered /\ Journaled(Pinned)
  /\ app' = [IdleApp EXCEPT !.pc = "land", !.proposal = p, !.key = key]
  /\ UNCHANGED <<jobVars, draft, applications, artifacts, ready, offered, kit, seg>>

LandApply ==
  /\ app.pc = "land"
  /\ ApplyToDraft(app.key, app.proposal)
  /\ app' = IF Answered(app.key, app.proposal) THEN [app EXCEPT !.pc = "look", !.left = 4] ELSE IdleApp
  /\ UNCHANGED <<jobVars, artifacts, ready, offered, kit, seg>>

LookAtJob ==
  /\ app.pc = "look"
  /\ app' = [app EXCEPT !.pc = "audit", !.job = job]
  /\ UNCHANGED <<jobVars, draft, applications, artifacts, ready, offered, kit, seg>>

AppliedByApp == Applied(app.proposal, applications[app.key].revision)

Audit ==
  /\ app.pc = "audit"
  /\ \/ /\ Journaled(AppliedByApp) \/ app.job.state \in Terminal
        /\ UNCHANGED jobVars /\ app' = IdleApp
     \/ /\ ~Journaled(AppliedByApp)
        /\ AppendCheckpoint(app.job.version, AppliedByApp) /\ app' = IdleApp
     \/ /\ ~Journaled(AppliedByApp) /\ app.job.state \notin Terminal
        /\ app.job.version # job.version
        /\ UNCHANGED jobVars
        /\ app' = IF app.left > 1 THEN [app EXCEPT !.pc = "look", !.left = @ - 1] ELSE IdleApp
  /\ UNCHANGED <<draft, applications, artifacts, ready, offered, kit, seg>>

Cancel == Transition(job.version, "cancelled") /\ UNCHANGED assistantVars

PersonEdits ==
  /\ Current < MaxRevision
  /\ draft' = Append(draft, Person)
  /\ UNCHANGED <<jobVars, applications, artifacts, ready, offered, kit, seg, app>>

\* What is in memory is lost; the next process may be a newer build.
Crash ==
  /\ ~At("idle") \/ app.pc # "idle" \/ ready # {}
  /\ seg' = Idle /\ app' = IdleApp /\ ready' = {} /\ kit' \in Kits
  /\ UNCHANGED <<jobVars, draft, applications, artifacts, offered>>

SegmentStep ==
  \/ Pin \/ ReadDraft \/ CompleteRead \/ ReadFact \/ SelectContext \/ Turn \/ FinishTool
  \/ SecondTurn \/ JournalProduced \/ ReservePreview \/ Preview \/ PreviewFact \/ Decide
  \/ Land \/ CompleteLand \/ LandFact \/ Succeed

ApplyStep == LandApply \/ LookAtJob \/ Audit

AssistantNext ==
  \/ \E i \in Instructions, resume \in BOOLEAN : RequestSegment(i, resume) \/ BeginSegment(i, resume)
  \/ SegmentStep
  \/ \E p \in ready : OfferProposal(p)
  \/ \E p \in offered, key \in Keys : BeginApply(p, key)
  \/ ApplyStep \/ Cancel \/ PersonEdits \/ Crash

AssistantSpec == AssistantInit /\ [][AssistantNext]_allVars
-----------------------------------------------------------------------------
(***************************************************************************)
(* Properties                                                              *)
(***************************************************************************)

\* Nothing is written about before it is read: a saved proposal has the completed read and
\* the journaled context of its own turn behind it, and a proposal in the draft has its
\* completed preview and its journaled production, across crashes, retries and both ways
\* of applying.
EvidenceFirst ==
  /\ \A t \in DOMAIN artifacts : Journaled(Selected(t)) /\ ReadOp(t) \in CompletedOps
  /\ \A n \in DOMAIN draft : draft[n] # Person =>
       Journaled(Produced(draft[n])) /\ PreviewOp(draft[n]) \in CompletedOps

\* What the journal and the application records say of the draft is true, a proposal
\* lands at most once whatever keys it is applied under, and a job that succeeded has
\* applied something its journal names.
LandingsTrue ==
  /\ \A i \in DOMAIN journal : journal[i].kind = "proposal.applied" =>
       journal[i].revision <= Current /\ draft[journal[i].revision] = journal[i].proposal
  /\ \A m, n \in DOMAIN draft : draft[m] = draft[n] /\ draft[m] # Person => m = n
  /\ job.state = "succeeded" =>
       \E n \in DOMAIN draft : draft[n] # Person /\ Journaled(Applied(draft[n], n))

\* docs/tasks/B10-author-assistant.md, section 8: "auto-build mode may apply validated
\* changes only inside the explicit job grant and still records each applied revision".
RecordsEachRevision ==
  job.state = "succeeded" =>
    \A n \in DOMAIN draft : draft[n] # Person => Journaled(Applied(draft[n], n))
=============================================================================
