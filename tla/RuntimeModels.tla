--------------------------- MODULE RuntimeModels ----------------------------
(***************************************************************************)
(* The two model calls of an action: the interpreter that turns a text     *)
(* into an intent of the catalogue, and the narrator that words a          *)
(* calculated result.  Each asks the provider at most twice; the           *)
(* interpreter fails when no answer is usable, the narrator falls back to  *)
(* a template.  The provider is external and may answer anything: an error *)
(* it calls retryable or not, a wrong format, or a proposal that need not  *)
(* keep to the catalogue, the entities or the facts it was given.          *)
(***************************************************************************)
EXTENDS Naturals, Sequences, FiniteSets

CONSTANTS
  ActionTypes,     \* action types a proposal may name
  EntityIds,       \* ids a proposal may name
  Profiles         \* narrative profiles, e.g. strict and expressive

VARIABLES task,    \* the call, before it, under way or over
          attempts \* evidence: what each request to the provider gave

modelCallVars == <<task, attempts>>

MaxAttempts == 2

(***************************************************************************)
(* What the caller passes and the provider answers.  A request to the      *)
(* interpreter has a catalogue of action types, each with the entities it  *)
(* takes, and a list of entities the player may know of.                   *)
(***************************************************************************)
InterpretRequests ==
  {[kind |-> "intent", types |-> types, takes |-> takes, allowed |-> allowed] :
     types \in SUBSET ActionTypes, takes \in [ActionTypes -> {{}, EntityIds}],
     allowed \in SUBSET EntityIds}
NarrateRequests ==
  {[kind |-> "narration", profile |-> p, speakers |-> speakers] :
     p \in Profiles, speakers \in SUBSET EntityIds}

\* Proposals as the provider words them; exact: no other field than its
\* kind has; text: all texts within their bounds.
Proposals ==
  {[kind |-> "resolved", type |-> t, ids |-> ids, argsFit |-> fit, exact |-> x, text |-> TRUE] :
     t \in ActionTypes, ids \in UNION {[1 .. n -> EntityIds] : n \in 0 .. 2},
     fit \in BOOLEAN, x \in BOOLEAN}
  \cup {[kind |-> k, exact |-> x, text |-> b] :
          k \in {"needs_clarification", "unsupported", "unknown"}, x \in BOOLEAN, b \in BOOLEAN}
Narratives == {[kind |-> "narrative", speaker |-> e, exact |-> x] : e \in EntityIds, x \in BOOLEAN}
Errors == {[kind |-> "error", retryable |-> r] : r \in BOOLEAN}
WrongFormat == [kind |-> "format"]

ElementsOf(s) == {s[i] : i \in DOMAIN s}
ValidIds(ids, allowed, takes) ==
  /\ Cardinality(ElementsOf(ids)) = Len(ids)
  /\ ElementsOf(ids) \subseteq (allowed \cap takes)

ValidIntent(answer, request) ==
  /\ answer.exact /\ answer.text
  /\ \/ /\ answer.kind = "resolved"
        /\ answer.type \in request.types
        /\ ValidIds(answer.ids, request.allowed, request.takes[answer.type])
        /\ answer.argsFit
     \/ answer.kind \in {"needs_clarification", "unsupported"}

ValidNarrative(answer, request) ==
  answer.exact /\ answer.speaker \in request.speakers

Usable(answer, request) ==
  IF request.kind = "intent"
  THEN answer \in Proposals /\ ValidIntent(answer, request)
  ELSE answer \in Narratives /\ ValidNarrative(answer, request)

(***************************************************************************)
(* The calls.                                                              *)
(***************************************************************************)
NoTask == [state |-> "none"]
ModelCallsInit == task = NoTask /\ attempts = <<>>

\* A call keeps nothing for the next one: a behaviour is one call.
Decided(state, answer) == task' = [task EXCEPT !.state = state, !.answer = answer]
GivesUp(request) == IF request.kind = "intent" THEN "failed" ELSE "template"
InvalidContext(request) == request.kind = "intent" /\ request.types = {}

Begin(request) ==
  /\ task = NoTask
  /\ task' = [state |-> IF InvalidContext(request) THEN "failed" ELSE "asking",
              request |-> request, answer |-> WrongFormat, stopped |-> "no"]
  /\ attempts' = <<>>

\* The caller aborts, or the deadline passes, at any moment.
Stop ==
  /\ task.state \in {"asking", "waiting"} /\ task.stopped = "no"
  /\ \E how \in {"aborted", "late"} : task' = [task EXCEPT !.stopped = how]
  /\ UNCHANGED attempts

\* The narrator looks at the clock before it asks, the interpreter leaves
\* the deadline to the provider.
StoppedBeforeAsking ==
  task.stopped = "aborted" \/ (task.stopped = "late" /\ task.request.kind = "narration")

AskProvider ==
  /\ task.state = "asking"
  /\ IF StoppedBeforeAsking THEN Decided(GivesUp(task.request), WrongFormat)
                     ELSE task' = [task EXCEPT !.state = "waiting"]
  /\ UNCHANGED attempts

\* A bug: an error the provider calls final is tried again.
RetriesEveryError(answer) == Len(attempts) + 1 < MaxAttempts

TriesAgain(answer) ==
  /\ Len(attempts) + 1 < MaxAttempts
  /\ answer.kind = "error" => answer.retryable

ProviderGives(answer) ==
  /\ task.state = "waiting"
  /\ attempts' = Append(attempts, answer)
  /\ \/ /\ Usable(answer, task.request)
        /\ Decided(IF task.request.kind = "intent" THEN answer.kind ELSE "model", answer)
     \/ /\ ~Usable(answer, task.request)
        /\ IF TriesAgain(answer) THEN task' = [task EXCEPT !.state = "asking"]
                                 ELSE Decided(GivesUp(task.request), WrongFormat)

AnswersTo(request) ==
  Errors \cup {WrongFormat}
    \cup IF request.kind = "intent" THEN Proposals ELSE Narratives

ModelCallsNext ==
  \/ \E request \in InterpretRequests \cup NarrateRequests : Begin(request)
  \/ Stop \/ AskProvider
  \/ task.state = "waiting" /\ \E answer \in AnswersTo(task.request) : ProviderGives(answer)

ModelCallsSpec == ModelCallsInit /\ [][ModelCallsNext]_modelCallVars

(***************************************************************************)
(* Properties.                                                             *)
(***************************************************************************)
\* The evidence explains the outcome: a decision or a narrative is the last
\* answer, and keeps to the catalogue, the entities and the speakers that
\* were allowed; the provider was asked a second time only after an answer
\* that could not be used and was not a final error, and never a third time;
\* nobody gives up while an allowed retry was left, unless stopped.
EvidenceExplainsOutcome ==
  LET n == Len(attempts)
      final(a) == a.kind = "error" /\ ~a.retryable
  IN /\ n <= 2
     /\ n = 2 => ~final(attempts[1]) /\ ~Usable(attempts[1], task.request)
     /\ task.state = "resolved" =>
          /\ n > 0 /\ task.answer = attempts[n]
          /\ task.answer.type \in task.request.types
          /\ ElementsOf(task.answer.ids) \subseteq task.request.allowed
     /\ task.state = "model" =>
          n > 0 /\ task.answer = attempts[n] /\ task.answer.speaker \in task.request.speakers
     /\ task.state \in {"failed", "template"} =>
          \/ n = 2 \/ task.stopped # "no" \/ InvalidContext(task.request)
          \/ n = 1 /\ final(attempts[1])
=============================================================================
