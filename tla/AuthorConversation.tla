------------------------- MODULE AuthorConversation -------------------------
(***************************************************************************)
(* The conversation of a job with its author (author-job-http.ts over      *)
(* author-conversation.ts and author-agent-artifacts.ts).  A request for a *)
(* segment is journaled, its text becomes a message, the assistant works   *)
(* on a proposal, which is kept as an artifact under the key of its turn,  *)
(* and the proposal becomes the message that answers the author.  Messages,*)
(* artifacts and the journal are three stores, written one after another;  *)
(* a retry of the same request key goes through all of it again.           *)
(*                                                                         *)
(* A turn's key is a hash of the instruction and of the draft it was asked *)
(* about: <<instruction, revision>>.  A proposal is <<turn, body>>.  Of    *)
(* the facts a segment journals only those are kept that the conversation  *)
(* is about, and the segment always waits for its user: AuthorAssistant    *)
(* has the others, the tools and the immediate application.                *)
(***************************************************************************)
EXTENDS AuthorAgentJobs, SequencesExt

CONSTANTS
  Callers,       \* concurrent requests
  SegmentKeys,   \* idempotency keys of the requests
  Instructions,  \* what they ask for: [text, resume]
  Bodies,        \* what the backend may make of one turn
  MaxMessages,   \* MAX_AUTHOR_CONVERSATION_MESSAGES
  LastDraft      \* bound: how far the draft moves meanwhile

VARIABLES
  messages,      \* the conversation: [role, key, text, turn, proposal]
  artifacts,     \* turn |-> proposal
  revision,      \* the draft's
  active,        \* the callers whose segment runs in this process: one at most
  calls          \* the requests being answered

conversationVars == <<job, journal, ops, messages, artifacts, revision, active, calls>>

NotAsked == <<>>
Free == [pc |-> "free", key |-> "none", ask |-> [text |-> "none", resume |-> FALSE], version |-> 0,
         turn |-> NotAsked, proposal |-> <<>>, stale |-> FALSE]

ConversationInit ==
  /\ JobInit
  /\ messages = <<>> /\ artifacts = [t \in {} |-> {}] /\ revision = 0
  /\ active = {} /\ calls = [c \in Callers |-> Free]

CallAt(c, pc) == calls[c].pc = pc
CallGoes(c, pc) == calls' = [calls EXCEPT ![c].pc = pc]
GoesWith(c, pc, version) == calls' = [calls EXCEPT ![c].pc = pc, ![c].version = version]
Replies(c) == calls' = [calls EXCEPT ![c] = Free]

(***************************************************************************)
(* The request                                                             *)
(***************************************************************************)
Requested(k) == {fact \in Range(journal) : fact.kind = "segment.requested" /\ fact.key = k}

\* The job is read, then its checkpoints: a key seen before must
\* ask for the same, or the request is refused.
Receive(c, k, ask) ==
  /\ CallAt(c, "free") /\ job.version < MaxVersion
  /\ LET previous == Requested(k)
         Begins(pc) == calls' = [calls EXCEPT ![c] =
                         [Free EXCEPT !.pc = pc, !.key = k, !.ask = ask, !.version = job.version]]
     IN \/ previous = {} /\ Begins("journaling")
        \/ previous # {} /\ (\A fact \in previous : fact.hash = ask) /\ Begins("asking")
  /\ UNCHANGED <<jobVars, messages, artifacts, revision, active>>

JournalRequest(c) ==
  /\ CallAt(c, "journaling")
  /\ LET x == calls[c]
         fact == [kind |-> "segment.requested", key |-> x.key, hash |-> x.ask]
     IN \/ AppendCheckpoint(x.version, fact) /\ GoesWith(c, "asking", x.version + 1)
        \/ /\ job.version # x.version \/ job.state \in Terminal
           /\ Replies(c) /\ UNCHANGED jobVars
  /\ UNCHANGED <<messages, artifacts, revision, active>>

(***************************************************************************)
(* The store of the messages                                               *)
(***************************************************************************)
Said(role, k) == {i \in DOMAIN messages : messages[i].role = role /\ messages[i].key = k}
Replays(message) == message \in Range(messages)
Appendable(message) == Said(message.role, message.key) = {} /\ Len(messages) < MaxMessages

\* appended, replay, or one of the refusals; what the message's id stands for never changes.
AppendMessage(message) ==
  messages' = IF Appendable(message) THEN Append(messages, message) ELSE messages

AuthorMessage(x) ==
  [role |-> "author", key |-> x.key, text |-> x.ask.text, turn |-> NotAsked, proposal |-> <<>>]

AppendAuthorMessage(c) ==
  /\ CallAt(c, "asking")
  /\ LET message == AuthorMessage(calls[c]) IN
     /\ AppendMessage(message)
     /\ IF Appendable(message) \/ Replays(message) THEN CallGoes(c, "locking") ELSE Replies(c)
  /\ UNCHANGED <<jobVars, artifacts, revision, active>>

(***************************************************************************)
(* The segment                                                             *)
(***************************************************************************)
EndSegment(c) == Replies(c) /\ active' = active \ {c}

MayStart(ask) ==
  \/ job.state \in {"queued", "waiting_user", "running"}
  \/ job.state = "paused_budget" /\ ask.resume

BeginActiveSegment(c) ==
  /\ CallAt(c, "locking")
  /\ IF active # {} \/ ~ MayStart(calls[c].ask)
     THEN Replies(c) /\ UNCHANGED active
     ELSE /\ active' = {c}
          /\ GoesWith(c, IF job.state = "running" THEN "reading" ELSE "starting", job.version)
  /\ UNCHANGED <<jobVars, messages, artifacts, revision>>

StartSegment(c) ==
  /\ CallAt(c, "starting")
  /\ \/ /\ Transition(calls[c].version, "running")
        /\ GoesWith(c, "reading", job'.version) /\ UNCHANGED active
     \/ job.version # calls[c].version /\ EndSegment(c) /\ UNCHANGED jobVars
  /\ UNCHANGED <<messages, artifacts, revision>>

OperationOf(x) == IF x.proposal = <<>> THEN <<"read", x.turn>> ELSE <<"preview", x.proposal>>

\* An operation this turn reserved before is recognised whatever the version.
ReserveOperation(c, x, next) ==
  LET id == OperationOf(x)
      GoesOn(version) == calls' = [calls EXCEPT ![c] = [x EXCEPT !.pc = next, !.version = version]]
  IN \/ Reserve(x.version, id, id) /\ GoesOn(job'.version) /\ UNCHANGED active
     \/ /\ id \in Reserved /\ UNCHANGED jobVars
        /\ IF id \in CompletedOps /\ job.state = "paused_budget" THEN EndSegment(c)
           ELSE GoesOn(job.version) /\ UNCHANGED active
     \/ /\ id \notin Reserved /\ (job.version # x.version \/ ~ Runnable \/ BudgetExhausted)
        /\ EndSegment(c) /\ UNCHANGED jobVars

\* The draft of this moment makes the turn.
ReadDraft(c) ==
  /\ CallAt(c, "reading")
  /\ ReserveOperation(c, [calls[c] EXCEPT !.turn = <<calls[c].ask.text, revision>>], "completing")
  /\ UNCHANGED <<messages, artifacts, revision>>

Preview(c) ==
  /\ CallAt(c, "preview") /\ ReserveOperation(c, calls[c], "previewing")
  /\ UNCHANGED <<messages, artifacts, revision>>

\* The draft is looked at between the two, once more even for a preview that is replayed:
\* whether the proposal is stale by then is what the segment settles on.
PreviewProposal(c) ==
  /\ CallAt(c, "previewing")
  /\ calls' = [calls EXCEPT ![c].pc = "completing", ![c].stale = calls[c].turn[2] # revision]
  /\ UNCHANGED <<jobVars, messages, artifacts, revision, active>>

AfterOperation(c) == IF calls[c].proposal = <<>> THEN "answering" ELSE "settling"

CompleteOperation(c) ==
  LET id == OperationOf(calls[c]) IN
  /\ CallAt(c, "completing")
  /\ \/ /\ Complete(id, id, 0)
        /\ IF job'.state = "paused_budget" THEN EndSegment(c)
           ELSE GoesWith(c, AfterOperation(c), job'.version) /\ UNCHANGED active
     \/ /\ id \in CompletedOps /\ CallGoes(c, AfterOperation(c)) /\ UNCHANGED <<jobVars, active>>
  /\ UNCHANGED <<messages, artifacts, revision>>

\* markFailed reads the job again; a cancelled or paused one stays as it is.
FailSegment(c) ==
  /\ \/ Transition(job.version, "failed")
     \/ ~ Allowed(job.state, "failed") /\ UNCHANGED jobVars
  /\ EndSegment(c)

\* A turn whose proposal is kept is not asked again.
Answer(c) ==
  /\ CallAt(c, "answering")
  /\ LET turn == calls[c].turn
         With(proposal) == /\ calls' = [calls EXCEPT ![c].pc = "producing", ![c].proposal = proposal]
                           /\ UNCHANGED <<jobVars, active>>
     IN \/ turn \in DOMAIN artifacts /\ With(artifacts[turn]) /\ UNCHANGED artifacts
        \/ /\ turn \notin DOMAIN artifacts /\ job.state # "cancelled"
           /\ \E body \in Bodies :
                /\ artifacts' = [t \in DOMAIN artifacts \cup {turn} |->
                                   IF t = turn THEN <<turn, body>> ELSE artifacts[t]]
                /\ With(<<turn, body>>)
        \/ turn \notin DOMAIN artifacts /\ FailSegment(c) /\ UNCHANGED artifacts
  /\ UNCHANGED <<messages, revision>>

Produced(proposal) == [kind |-> "proposal.produced", proposal |-> proposal]

ProduceProposal(c) ==
  /\ CallAt(c, "producing")
  /\ LET fact == Produced(calls[c].proposal) IN
     \/ fact \in Range(journal) /\ CallGoes(c, "preview") /\ UNCHANGED <<jobVars, active>>
     \/ /\ fact \notin Range(journal) /\ AppendCheckpoint(calls[c].version, fact)
        /\ GoesWith(c, "preview", job'.version) /\ UNCHANGED active
     \/ /\ fact \notin Range(journal) /\ (job.version # calls[c].version \/ job.state \in Terminal)
        /\ EndSegment(c) /\ UNCHANGED jobVars
  /\ UNCHANGED <<messages, artifacts, revision>>

SettleSegment(c) ==
  /\ CallAt(c, "settling")
  /\ \/ calls[c].stale /\ FailSegment(c)
     \/ /\ ~ calls[c].stale /\ Transition(calls[c].version, "waiting_user")
        /\ CallGoes(c, "telling") /\ active' = active \ {c}
     \/ /\ ~ calls[c].stale
        /\ job.version # calls[c].version \/ ~ Allowed(job.state, "waiting_user")
        /\ EndSegment(c) /\ UNCHANGED jobVars
  /\ UNCHANGED <<messages, artifacts, revision>>

\* A bug: the turn is named by the draft as it is now, not as the proposal was made on.
AssistantMessageOfNow(x) ==
  [role |-> "assistant", key |-> x.key, text |-> x.proposal[2], turn |-> <<x.ask.text, revision>>,
   proposal |-> x.proposal]

\* The key of the turn is made again from the proposal's base.
AssistantMessage(x) ==
  [role |-> "assistant", key |-> x.key, text |-> x.proposal[2], turn |-> <<x.ask.text, x.proposal[1][2]>>,
   proposal |-> x.proposal]

AppendAssistantMessage(c) ==
  /\ CallAt(c, "telling")
  /\ AppendMessage(AssistantMessage(calls[c]))
  /\ Replies(c)
  /\ UNCHANGED <<jobVars, artifacts, revision, active>>

(***************************************************************************)
(* The readers                                                             *)
(***************************************************************************)
ArtifactKept(message) == message.turn \in DOMAIN artifacts /\ artifacts[message.turn] = message.proposal

\* The job is read with its artifacts: of the messages of one turn the first is looked at.
ConversationReadable ==
  \A i \in DOMAIN messages :
    messages[i].turn # NotAsked /\ (\A j \in 1..i - 1 : messages[j].turn # messages[i].turn) =>
      ArtifactKept(messages[i])

\* To apply a proposal, or make a task of it, the last message that offers it is taken.
ProposalFound(proposal) ==
  LET offers == {i \in DOMAIN messages : messages[i].role = "assistant" /\ messages[i].proposal = proposal}
  IN  offers # {} /\ ArtifactKept(messages[Max(offers)])

(***************************************************************************)
(* The surroundings                                                        *)
(***************************************************************************)
Cancel ==
  /\ Transition(job.version, "cancelled")
  /\ UNCHANGED <<messages, artifacts, revision, active, calls>>

DraftMoves ==
  /\ revision < LastDraft /\ revision' = revision + 1
  /\ UNCHANGED <<jobVars, messages, artifacts, active, calls>>

\* The process is killed: what the stores hold stays.
Crash ==
  /\ active' = {} /\ calls' = [c \in Callers |-> Free]
  /\ UNCHANGED <<jobVars, messages, artifacts, revision>>

ConversationNext ==
  \/ \E c \in Callers :
       \/ \E k \in SegmentKeys, ask \in Instructions : Receive(c, k, ask)
       \/ JournalRequest(c) \/ AppendAuthorMessage(c)
       \/ BeginActiveSegment(c) \/ StartSegment(c) \/ ReadDraft(c)
       \/ CompleteOperation(c) \/ Answer(c)
       \/ ProduceProposal(c) \/ Preview(c) \/ PreviewProposal(c)
       \/ SettleSegment(c) \/ AppendAssistantMessage(c)
  \/ Cancel \/ DraftMoves \/ Crash

ConversationSpec == ConversationInit /\ [][ConversationNext]_conversationVars
-----------------------------------------------------------------------------
(***************************************************************************)
(* Properties                                                              *)
(***************************************************************************)

\* What reading the job shows is whole: an id names one message, an author's message is
\* the text of a journaled request, and an assistant's message comes after the author's
\* of its request, answers that text, and offers a proposal that was journaled as produced
\* and that its application will find; nobody who reads the job is told it is broken.
ConversationHolds ==
  /\ \A i, j \in DOMAIN messages :
       messages[i].role = messages[j].role /\ messages[i].key = messages[j].key => i = j
  /\ \A i \in DOMAIN messages : LET message == messages[i] IN
       /\ \E fact \in Requested(message.key) :
            message.role = "author" => fact.hash.text = message.text
       /\ message.role = "assistant" =>
            /\ \E j \in 1..i - 1 : /\ messages[j].role = "author" /\ messages[j].key = message.key
                                   /\ messages[j].text = message.turn[1]
            /\ ProposalFound(message.proposal) /\ Produced(message.proposal) \in Range(journal)
  /\ ConversationReadable
=============================================================================
