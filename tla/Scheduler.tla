------------------------------ MODULE Scheduler ------------------------------
(***************************************************************************)
(* Game time (packages/core): planTimeAdvance sorts what is due in an      *)
(* interval, processTimeAdvancePlan works through it on a trial copy of    *)
(* the world while trusted handlers add events of their own, and the trial *)
(* becomes the world only as a whole.  applyTimeAdvancePlan is the older   *)
(* way, without handlers.                                                  *)
(*                                                                         *)
(* A handler is asked once per event and answers a list; the list is one   *)
(* Generate per child and then HandlerReturns.  The world is one resource  *)
(* with its bounds; an effect batch is the changes it makes to it.         *)
(***************************************************************************)
EXTENDS Integers, Sequences, SequencesExt, Arrangements

CONSTANTS
  Lists,      \* lists of events a caller may plan: strict SchedulerEvents
  Children,   \* events a handler may answer
  Spans,  \* of an action
  Full,       \* the upper bound of the resource; the lower is 0
  MaxDue,     \* maxEvents of the planner
  MaxEvents,  \* maxEvents of the processor: planned and generated
  MaxSteps,   \* maxSteps of the processor
  SafeInteger     \* Number.MAX_SAFE_INTEGER: the last second and the last revision

\* An id is compared as a string is, an order is a priority of SPECIFICATION 7.4;
\* only an event of effects carries a batch of them.
Event ==
  {e \in [id : Nat, at : Nat, order : Nat,
          kind : {"core.marker", "core.effects", "core.terminal"}, deltas : Seq(Int)] :
     e.kind # "core.effects" => e.deltas = <<>>}

ASSUME SchedulerAssumption ==
  /\ Lists \subseteq Seq(Event) /\ Children \subseteq Event /\ Spans \subseteq Nat
  /\ {Full, MaxDue, MaxEvents, MaxSteps, SafeInteger} \subseteq Nat \ {0}

VARIABLES
  world,   \* the world of the session: clock, revision, stock, terminal
  trial    \* the transition being tried, and how the last one ended

schedulerVars == <<world, trial>>

-----------------------------------------------------------------------------
(* planTimeAdvance                                                         *)

Before(l, r) ==
  \/ l.at < r.at
  \/ l.at = r.at /\ l.order < r.order
  \/ l.at = r.at /\ l.order = r.order /\ l.id < r.id

ByTime(events) == Arranged(events, Before)

IsDue(e, end) == e.at <= end
DueEvents(events, end) == ByTime({e \in Range(events) : IsDue(e, end)})
PendingEvents(events, end) == ByTime({e \in Range(events) : ~ IsDue(e, end)})

\* Everything the planner and the processor refuse before they start.
Plannable(duration, events) ==
  LET end == world.clock + duration IN
  /\ ~ world.terminal
  /\ end <= SafeInteger
  /\ \A i, j \in DOMAIN events : events[i].id = events[j].id => i = j
  /\ \A i \in DOMAIN events : events[i].at >= world.clock
  /\ Len(DueEvents(events, end)) <= MaxDue
  /\ world.revision # SafeInteger
  /\ Len(events) <= MaxEvents

-----------------------------------------------------------------------------
(* tryApplyEffectBatch: one change out of bounds refuses the batch.        *)

InBounds(stock) == stock \in 0..Full
Change(stock, delta) ==
  IF InBounds(stock) /\ InBounds(stock + delta) THEN stock + delta ELSE -1
BatchApplied(stock, deltas) == FoldLeft(Change, stock, deltas)
StockAfter(stock, events) == FoldLeft(LAMBDA s, e : BatchApplied(s, e.deltas), stock, events)

-----------------------------------------------------------------------------
(* applyTimeAdvancePlan: the due events in order, up to a terminal one.    *)

\* A bug: the events after a terminal one are applied as well.
ApplyAllEvents(from, plan) ==
  [ok |-> TRUE, stock |-> StockAfter(from.stock, plan.due),
   terminal |-> FALSE, clock |-> plan.end, applied |-> plan.due, rest |-> <<>>]

ApplyTimeAdvancePlan(from, plan) ==
  LET ends == {i \in DOMAIN plan.due : plan.due[i].kind = "core.terminal"}
      last == IF ends = {} THEN Len(plan.due) ELSE CHOOSE i \in ends : \A j \in ends : i <= j
      applied == SubSeq(plan.due, 1, last)
      stock == StockAfter(from.stock, applied)
  IN
  [ok |-> InBounds(stock), stock |-> stock, terminal |-> ends # {},
   clock |-> IF ends = {} THEN plan.end ELSE plan.due[last].at,
   applied |-> applied, rest |-> SubSeq(plan.due, last + 1, Len(plan.due))]

-----------------------------------------------------------------------------
(* processTimeAdvancePlan                                                  *)

EntryBefore(l, r) ==
  \/ l.event.at < r.event.at
  \/ l.event.at = r.event.at /\ l.effectiveOrder < r.effectiveOrder
  \/ l.event.at = r.event.at /\ l.effectiveOrder = r.effectiveOrder /\ l.sequence < r.sequence

ByTurn(entries) == Arranged(entries, EntryBefore)

QueueEntry(event, effectiveOrder, sequence) ==
  [event |-> event, effectiveOrder |-> effectiveOrder, sequence |-> sequence]

TrialAt(place) == trial.at = place
Trying == TrialAt("running") \/ TrialAt("handling")
Fail(code) == trial' = [trial EXCEPT !.at = "failed", !.code = code] /\ UNCHANGED world

BeginAdvance(duration, events) ==
  LET end == world.clock + duration
      due == DueEvents(events, end)
  IN
  /\ ~ Trying
  /\ IF Plannable(duration, events)
     THEN trial' =
       [at |-> "running", code |-> "none", from |-> world, end |-> end, due |-> due,
        queue |-> [i \in DOMAIN due |-> QueueEntry(due[i], due[i].order, i - 1)],
        pending |-> PendingEvents(events, end), processed |-> <<>>,
        seen |-> {events[i].id : i \in DOMAIN events}, total |-> Len(events),
        next |-> Len(due), stock |-> world.stock, terminal |-> FALSE]
     ELSE trial' = [trial EXCEPT !.at = "failed", !.code = "refused", !.from = world]
  /\ UNCHANGED world

Succeed(clock, terminal, processed, queue) ==
  /\ trial' = [trial EXCEPT !.at = "done", !.processed = processed, !.queue = queue,
                            !.terminal = terminal]
  /\ world' = [clock |-> clock, revision |-> world.revision + 1,
               stock |-> trial.stock, terminal |-> terminal]

FinishAdvance ==
  /\ TrialAt("running") /\ trial.queue = <<>>
  /\ Succeed(trial.end, FALSE, trial.processed, <<>>)

StepLimit ==
  /\ TrialAt("running") /\ trial.queue # <<>> /\ Len(trial.processed) >= MaxSteps
  /\ Fail("step_limit_exceeded")

Shift(kind) ==
  /\ TrialAt("running") /\ trial.queue # <<>> /\ Len(trial.processed) < MaxSteps
  /\ Head(trial.queue).event.kind = kind

\* The event is processed, and then its handler is asked.
Process(stock) ==
  /\ trial' = [trial EXCEPT !.at = "handling", !.stock = stock,
                            !.queue = Tail(@),
                            !.processed = Append(@, Head(trial.queue))]
  /\ UNCHANGED world

ProcessMarker == Shift("core.marker") /\ Process(trial.stock)

ProcessEffects ==
  /\ Shift("core.effects")
  /\ LET stock == BatchApplied(trial.stock, Head(trial.queue).event.deltas) IN
     IF InBounds(stock) THEN Process(stock) ELSE Fail("event_effect_failed")

\* A bug: the clock is left at the end of the interval.
InterruptAtEnd ==
  /\ Shift("core.terminal")
  /\ Succeed(trial.end, TRUE, Append(trial.processed, Head(trial.queue)), Tail(trial.queue))

\* What is left in the queue stays unprocessed, and the handler is not asked.
Interrupt ==
  /\ Shift("core.terminal")
  /\ LET entry == Head(trial.queue) IN
     Succeed(entry.event.at, TRUE, Append(trial.processed, entry), Tail(trial.queue))

\* A child at its parent's instant is not put before its parent.
EffectiveOrder(child, parent) ==
  IF child.at = parent.event.at /\ child.order < parent.effectiveOrder
  THEN parent.effectiveOrder ELSE child.order

\* A bug: a child beyond the interval is forgotten.
AcceptDueOnly(child, entry) ==
  trial' = [trial EXCEPT
    !.seen = @ \cup {child.id}, !.total = @ + 1, !.next = @ + 1,
    !.queue = IF IsDue(child, trial.end) THEN ByTurn(Range(@) \cup {entry}) ELSE @]

Accept(child, entry) ==
  trial' = [trial EXCEPT
    !.seen = @ \cup {child.id}, !.total = @ + 1, !.next = @ + 1,
    !.queue = IF IsDue(child, trial.end) THEN ByTurn(Range(@) \cup {entry}) ELSE @,
    !.pending = IF IsDue(child, trial.end) THEN @ ELSE ByTime(Range(@) \cup {child})]

\* One event of the handler's list.
Generate(child) ==
  LET parent == Last(trial.processed) IN
  /\ TrialAt("handling")
  /\ IF \/ child.id \in trial.seen \/ child.at < parent.event.at
        \/ trial.total >= MaxEvents
     THEN Fail("generated_event_refused")
     ELSE /\ Accept(child, QueueEntry(child, EffectiveOrder(child, parent), trial.next))
          /\ UNCHANGED world

HandlerReturns ==
  /\ TrialAt("handling")
  /\ trial' = [trial EXCEPT !.at = "running"]
  /\ UNCHANGED world

\* It throws, does not answer a list, or lists something that is no event.
HandlerThrows == TrialAt("handling") /\ Fail("handler_failed")

-----------------------------------------------------------------------------
SchedulerInit ==
  /\ world = [clock |-> 0, revision |-> 0, stock |-> 1, terminal |-> FALSE]
  /\ trial = [at |-> "idle", code |-> "none", from |-> world, end |-> 0, due |-> <<>>,
              queue |-> <<>>, pending |-> <<>>, processed |-> <<>>, seen |-> {},
              total |-> 0, next |-> 0, stock |-> 1, terminal |-> FALSE]

SchedulerNext ==
  \/ \E duration \in Spans, events \in Lists : BeginAdvance(duration, events)
  \/ FinishAdvance \/ StepLimit
  \/ ProcessMarker \/ ProcessEffects \/ Interrupt
  \/ \E child \in Children : Generate(child)
  \/ HandlerReturns \/ HandlerThrows

SchedulerSpec == SchedulerInit /\ [][SchedulerNext]_schedulerVars

-----------------------------------------------------------------------------
(* Properties                                                              *)

Tried == Trying \/ TrialAt("done")
ProcessedEvents == [i \in DOMAIN trial.processed |-> trial.processed[i].event]
QueuedEvents == [i \in DOMAIN trial.queue |-> trial.queue[i].event]

\* No event is lost, run twice or invented: whatever was planned or accepted from
\* a handler is, at every moment and in the result, in exactly one of processed,
\* queued (unprocessed, after an interruption) and pending; what is pending is
\* beyond the interval, and neither budget is exceeded.  And the world is what the
\* processed events make of the world before, at the time of the last moment
\* reached; a trial that fails or goes on leaves it alone.
EventsConserved ==
  LET all == ProcessedEvents \o QueuedEvents \o trial.pending
      ended == \E i \in DOMAIN trial.processed : ProcessedEvents[i].kind = "core.terminal"
  IN
  /\ Tried =>
       /\ {all[i].id : i \in DOMAIN all} = trial.seen
       /\ Len(all) = trial.total
       /\ \A i, j \in DOMAIN all : all[i].id = all[j].id => i = j
       /\ \A i \in DOMAIN trial.pending : trial.pending[i].at > trial.end
       /\ trial.total <= MaxEvents /\ Len(trial.processed) <= MaxSteps
  /\ TrialAt("done") =>
       /\ world =
            [clock |-> IF ended THEN Last(ProcessedEvents).at ELSE trial.end,
             revision |-> trial.from.revision + 1,
             stock |-> StockAfter(trial.from.stock, ProcessedEvents),
             terminal |-> ended]
       /\ InBounds(world.stock) /\ ~ trial.from.terminal
  /\ TrialAt("idle") \/ TrialAt("done") \/ world = trial.from

\* "Existing planTimeAdvance semantics remain unchanged" (scheduler-process.ts):
\* when no handler adds anything, the processor and applyTimeAdvancePlan make the
\* same of a plan: the same world, the same applied and unprocessed events, and
\* the same refusal of an effect.
AgreesWithStaticPlan ==
  LET static == ApplyTimeAdvancePlan(trial.from, [due |-> trial.due, end |-> trial.end])
      noChildren == trial.total = Len(trial.due) + Len(trial.pending)
  IN
  /\ TrialAt("done") /\ noChildren =>
       /\ static.ok
       /\ <<world.stock, world.terminal, world.clock>> =
            <<static.stock, static.terminal, static.clock>>
       /\ ProcessedEvents = static.applied /\ QueuedEvents = static.rest
  /\ TrialAt("failed") /\ trial.code = "event_effect_failed" /\ noChildren => ~ static.ok
=============================================================================
