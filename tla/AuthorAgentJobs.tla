-------------------------- MODULE AuthorAgentJobs --------------------------
(***************************************************************************)
(* The durable record of one authoring job: its lifecycle state guarded by *)
(* a version (compare and swap), the journal of facts about it, and the    *)
(* operations it has reserved against its budget.  Jobs never touch each   *)
(* other's rows, so one job stands for all.  Every operation is one        *)
(* transaction (BEGIN IMMEDIATE in SQLite, no await in memory).            *)
(***************************************************************************)
EXTENDS Integers, Sequences, FiniteSets

CONSTANTS
  Operations,      \* operation ids
  Requests,        \* request hashes
  Notes,           \* kinds of the facts that clients journal themselves
  MaxToolCalls,    \* the grant: operations per budget segment
  MaxActiveTime,   \* the grant: active time per budget segment
  Times,           \* active times an operation may report
  MaxVersion       \* bound: no client writes once the version reaches it

ASSUME GrantAssumption ==
  /\ MaxToolCalls \in Nat \ {0} /\ MaxActiveTime \in Nat \ {0}
  /\ Times \subseteq Nat /\ MaxVersion \in Nat

\* The lifecycle journals these facts itself; no caller of appendCheckpoint does.
LifecycleKinds == {"job.created", "job.started", "job.resumed", "budget.paused",
                   "job.cancelled", "job.failed", "job.succeeded"}
ASSUME NotesAssumption == Notes \cap LifecycleKinds = {}

VARIABLES
  job,       \* [state, version, calls, active]
  journal,   \* the checkpoints, in order of their ordinals
  ops        \* the reserved operations: id |-> [request, status]

jobVars == <<job, journal, ops>>

Terminal == {"succeeded", "failed", "cancelled"}
States == {"queued", "running", "waiting_user", "paused_budget", "validating"} \union Terminal

Fact(kind) == [kind |-> kind]
Reserved == DOMAIN ops
CompletedOps == {o \in Reserved : ops[o].status = "completed"}
Kinds == {journal[i].kind : i \in DOMAIN journal}
Positions(facts, kind) == {i \in DOMAIN facts : facts[i].kind = kind}
Count(kind) == Cardinality(Positions(journal, kind))

JobInit ==
  /\ job = [state |-> "queued", version |-> 0, calls |-> 0, active |-> 0]
  /\ journal = <<Fact("job.created")>>
  /\ ops = [o \in {} |-> {}]

(***************************************************************************)
(* Lifecycle                                                               *)
(***************************************************************************)
Allowed(from, to) ==
  /\ from \notin Terminal
  /\ \/ to = "cancelled"
     \/ from \in {"queued", "waiting_user", "paused_budget"} /\ to = "running"
     \/ from = "running" /\ to \in {"waiting_user", "paused_budget", "validating", "succeeded", "failed"}
     \/ from = "validating" /\ to \in {"running", "succeeded", "failed", "paused_budget"}

Bumped == [job EXCEPT !.version = @ + 1]

\* A bug: the budget starts afresh on every resumption, a user's answer included.
WithStateAlwaysReset(to) ==
  LET moved == [Bumped EXCEPT !.state = to]
  IN  IF to = "running" THEN [moved EXCEPT !.calls = 0, !.active = 0] ELSE moved

WithState(to) ==
  LET moved == [Bumped EXCEPT !.state = to]
  IN  IF job.state = "paused_budget" /\ to = "running"
      THEN [moved EXCEPT !.calls = 0, !.active = 0]
      ELSE moved

TransitionFact(to) ==
  CASE to = "running" /\ job.state = "queued"                         -> <<Fact("job.started")>>
    [] to = "running" /\ job.state \in {"paused_budget", "waiting_user"} -> <<Fact("job.resumed")>>
    [] to = "paused_budget"                                           -> <<Fact("budget.paused")>>
    [] to = "cancelled"                                               -> <<Fact("job.cancelled")>>
    [] to = "failed"                                                  -> <<Fact("job.failed")>>
    [] to = "succeeded"                                               -> <<Fact("job.succeeded")>>
    [] OTHER                                                          -> <<>>

\* A stale version or a forbidden move is refused and changes nothing.
Transition(version, to) ==
  /\ job.version = version /\ Allowed(job.state, to)
  /\ job' = WithState(to)
  /\ journal' = journal \o TransitionFact(to)
  /\ UNCHANGED ops

(***************************************************************************)
(* The journal                                                             *)
(***************************************************************************)
AppendCheckpoint(version, fact) ==
  /\ job.version = version /\ job.state \notin Terminal
  /\ job' = Bumped
  /\ journal' = Append(journal, fact)
  /\ UNCHANGED ops

(***************************************************************************)
(* Operations                                                              *)
(***************************************************************************)
Runnable == job.state \in {"running", "validating"}

BudgetExhausted == job.calls >= MaxToolCalls \/ job.active >= MaxActiveTime

\* An id that is already reserved is answered from its record (replay, pending or
\* operation_id_reused) before the version is even looked at: see Known.
Known(id, request) == id \in Reserved /\ ops[id].request = request

Reserve(version, id, request) ==
  /\ id \notin Reserved
  /\ job.version = version /\ Runnable /\ ~BudgetExhausted
  /\ ops' = [o \in Reserved \union {id} |->
               IF o = id THEN [request |-> request, status |-> "pending"] ELSE ops[o]]
  /\ job' = [Bumped EXCEPT !.calls = @ + 1]
  /\ UNCHANGED journal

\* A bug: completing an operation does not move the version.
CompleteKeepsVersion(id, request, time) ==
  /\ Known(id, request) /\ ops[id].status = "pending"
  /\ ops' = [ops EXCEPT ![id].status = "completed"]
  /\ LET active == job.active + time
         pause  == Runnable /\ (job.calls >= MaxToolCalls \/ active >= MaxActiveTime)
     IN  /\ job' = [job EXCEPT !.active = active, !.state = IF pause THEN "paused_budget" ELSE @]
         /\ journal' = IF pause THEN Append(journal, Fact("budget.paused")) ELSE journal

\* No version is compared and the state only matters for the pause: an operation that
\* was started is recorded even when the job has moved on or has ended.
Complete(id, request, time) ==
  /\ Known(id, request) /\ ops[id].status = "pending"
  /\ ops' = [ops EXCEPT ![id].status = "completed"]
  /\ LET active == job.active + time
         pause  == Runnable /\ (job.calls >= MaxToolCalls \/ active >= MaxActiveTime)
     IN  /\ job' = [Bumped EXCEPT !.active = active, !.state = IF pause THEN "paused_budget" ELSE @]
         /\ journal' = IF pause THEN Append(journal, Fact("budget.paused")) ELSE journal

JobNext ==
  /\ job.version < MaxVersion
  /\ \/ \E to \in States : Transition(job.version, to)
     \/ \E note \in Notes : AppendCheckpoint(job.version, Fact(note))
     \/ \E id \in Operations, r \in Requests : Reserve(job.version, id, r)
     \/ \E id \in Operations, r \in Requests, t \in Times : Complete(id, r, t)

JobSpec == JobInit /\ [][JobNext]_jobVars

(***************************************************************************)
(* Properties                                                              *)
(***************************************************************************)

\* The budget is per pause: over its whole life a job reserves at most one grant more
\* than the pauses its journal records, whoever resumed it and whatever was pending.
BudgetPerPause == Cardinality(Reserved) <= MaxToolCalls * (1 + Count("budget.paused"))

\* The journal ends with the job: the fact that closes a job is in the journal exactly
\* when the job is closed, once, and nothing is journaled after it.
EndFacts == {"job.succeeded", "job.failed", "job.cancelled"}
JournalEndsTheJob ==
  /\ job.state \in Terminal <=> Kinds \cap EndFacts # {}
  /\ \A i \in DOMAIN journal : journal[i].kind \in EndFacts => i = Len(journal)

\* What is durable stays: a closed job stays as it was closed, the journal only grows, a
\* reserved operation keeps its request and a completed one is never pending again, and
\* any change at all moves the version, so that no compare-and-swap can miss it.
DurableStep ==
  /\ job.state \in Terminal => job'.state = job.state
  /\ SubSeq(journal', 1, Len(journal)) = journal
  /\ \A o \in Reserved : /\ o \in DOMAIN ops' /\ ops'[o].request = ops[o].request
                         /\ o \in CompletedOps => ops'[o] = ops[o]
  /\ jobVars' # jobVars => job'.version = job.version + 1
DurableFacts == [][DurableStep]_jobVars
=============================================================================
