----------------------- MODULE AuthorAgentJobsProofs -----------------------
(***************************************************************************)
(* Proofs about AuthorAgentJobs for every grant, every set of operations   *)
(* and every number of steps.  The budget is inductive only with what is   *)
(* left of it: outside a pause a job may still reserve MaxToolCalls minus  *)
(* its calls, and the calls start afresh only when a pause has already     *)
(* been journaled.                                                         *)
(* Below them: of the asset files, for every set of calls and requests; of *)
(* the assistant, for every set of instructions, answers and keys; and     *)
(* that the assistant, a conversation and the reads of references are      *)
(* clients of the job, so that what is proved of the job holds of every    *)
(* job they work on.                                                       *)
(***************************************************************************)
EXTENDS AuthorAgentJobs, AssetStore, AuthorAssistant, FiniteSetTheorems, SequenceTheorems,
        TLAPS

-----------------------------------------------------------------------------
(* The inductive invariant                                                 *)

IsSequence(s) == \E S : s \in Seq(S)

JobRecord == [state : States, version : Nat, calls : 0..MaxToolCalls, active : Nat]

JobTyped ==
  /\ job \in JobRecord
  /\ IsSequence(journal)
  /\ \E R : ops \in [Reserved -> [request : R, status : {"pending", "completed"}]]
  /\ IsFiniteSet(Reserved)

\* Calls the pauses of the journal have already paid for.
Paid == MaxToolCalls * Count("budget.paused")
BudgetLeft ==
  Cardinality(Reserved) <= IF job.state = "paused_budget" THEN Paid ELSE job.calls + Paid

IInv == JobTyped /\ BudgetLeft /\ JournalEndsTheJob

-----------------------------------------------------------------------------
(* The journal                                                             *)

RecordedFact(fact) == journal' = Append(journal, fact)
Recorded(kind) == RecordedFact(Fact(kind))

\* What a sequence of anything is with one more.
LEMMA AppendAny ==
  ASSUME NEW s, NEW x, IsSequence(s)
  PROVE  /\ IsSequence(Append(s, x))
         /\ Len(s) \in Nat /\ DOMAIN s = 1..Len(s)
         /\ Len(Append(s, x)) = Len(s) + 1
         /\ DOMAIN Append(s, x) = 1..(Len(s) + 1)
         /\ \A i \in 1..Len(s) : Append(s, x)[i] = s[i]
         /\ Append(s, x)[Len(s) + 1] = x
<1>1. PICK S : s \in Seq(S)
  BY DEF IsSequence
<1>2. s \in Seq(S \cup {x})
  BY <1>1, SeqMonotonic
<1>3. Append(s, x) \in Seq(S \cup {x})
  BY <1>2, AppendProperties
<1>4. IsSequence(Append(s, x))
  BY <1>3 DEF IsSequence
<1>5. /\ Len(s) \in Nat /\ DOMAIN s = 1..Len(s)
      /\ Len(Append(s, x)) = Len(s) + 1
      /\ \A i \in 1..Len(s) : Append(s, x)[i] = s[i]
      /\ Append(s, x)[Len(s) + 1] = x
  BY <1>2, AppendProperties, LenProperties
<1>6. DOMAIN Append(s, x) = 1..(Len(s) + 1)
  BY <1>3, <1>5, LenProperties
<1> QED BY <1>4, <1>5, <1>6


\* A fact appended is last, and what was there before is still in its place.
LEMMA AppendedFact ==
  ASSUME NEW facts, IsSequence(facts), NEW fact
  PROVE  LET longer == Append(facts, fact) IN
         /\ IsSequence(longer)
         /\ DOMAIN facts = 1..Len(facts) /\ Len(facts) \in Nat
         /\ Len(longer) = Len(facts) + 1
         /\ DOMAIN longer = 1..(Len(facts) + 1)
         /\ \A i \in DOMAIN facts : longer[i] = facts[i]
         /\ longer[Len(facts) + 1] = fact
         /\ SubSeq(longer, 1, Len(facts)) = facts
         /\ SubSeq(facts, 1, Len(facts)) = facts
<1>1. PICK S : facts \in Seq(S)
  BY DEF IsSequence
<1>2. facts \in Seq(S \cup {fact}) /\ fact \in S \cup {fact}
  BY <1>1, SeqMonotonic
<1> DEFINE longer == Append(facts, fact)
<1>3. /\ longer \in Seq(S \cup {fact}) /\ Len(longer) = Len(facts) + 1 /\ Len(facts) \in Nat
      /\ \A i \in 1..Len(facts) : longer[i] = facts[i]
  BY <1>2, AppendProperties, LenProperties
<1> HIDE DEF longer
<1>4. /\ SubSeq(longer, 1, Len(facts)) \in Seq(S \cup {fact})
      /\ Len(SubSeq(longer, 1, Len(facts))) = Len(facts)
      /\ \A i \in 1..Len(facts) : SubSeq(longer, 1, Len(facts))[i] = facts[i]
  BY <1>3, SubSeqProperties
<1>5. SubSeq(longer, 1, Len(facts)) = facts
  BY <1>2, <1>4, SeqEqual
<1>6. SubSeq(facts, 1, Len(facts)) = facts
  BY <1>2, SubSeqFull
<1> QED BY <1>5, <1>6, AppendAny DEF longer

\* A journal of n facts has finitely many of a kind, and one more when one is added.
LEMMA PositionsFinite ==
  ASSUME NEW facts, IsSequence(facts), NEW kind
  PROVE  /\ IsFiniteSet(Positions(facts, kind))
         /\ Cardinality(Positions(facts, kind)) \in Nat
<1>1. Len(facts) \in Nat /\ DOMAIN facts = 1..Len(facts)
  BY AppendAny
<1>2. IsFiniteSet(1..Len(facts))
  BY <1>1, FS_Interval
<1>3. Positions(facts, kind) \in SUBSET (1..Len(facts))
  BY <1>1 DEF Positions
<1> QED BY <1>2, <1>3, FS_Subset, FS_CardinalityType

LEMMA CountAppended ==
  ASSUME NEW facts, IsSequence(facts), NEW added, NEW kind
  PROVE  Cardinality(Positions(Append(facts, added), kind)) =
           Cardinality(Positions(facts, kind)) + IF added.kind = kind THEN 1 ELSE 0
<1> DEFINE longer == Append(facts, added)
           last == Len(facts) + 1
<1>1. /\ Len(facts) \in Nat /\ DOMAIN facts = 1..Len(facts) /\ DOMAIN longer = 1..last
      /\ \A i \in DOMAIN facts : longer[i] = facts[i]
      /\ longer[last] = added
  BY AppendedFact
<1>2. CASE added.kind = kind
  <2>1. Positions(longer, kind) = Positions(facts, kind) \cup {last}
    BY <1>1, <1>2 DEF Positions
  <2>2. last \notin Positions(facts, kind)
    BY <1>1 DEF Positions
  <2>3. /\ IsFiniteSet(Positions(facts, kind))
        /\ Cardinality(Positions(facts, kind)) \in Nat
    BY PositionsFinite
  <2>4. Cardinality(Positions(facts, kind) \cup {last}) = Cardinality(Positions(facts, kind)) + 1
    BY <2>2, <2>3, FS_AddElement
  <2> QED BY <1>2, <2>1, <2>4
<1>3. CASE added.kind # kind
  <2>1. Positions(longer, kind) = Positions(facts, kind)
    BY <1>1, <1>3 DEF Positions
  <2> QED BY <1>3, <2>1, PositionsFinite
<1> QED BY <1>2, <1>3

-----------------------------------------------------------------------------
(* What a journaled fact does to the parts of the invariant                *)

LEMMA JournalKept ==
  ASSUME JobTyped
  PROVE  /\ Count("budget.paused") \in Nat
         /\ Paid \in Nat
         /\ SubSeq(journal, 1, Len(journal)) = journal
<1>1. Count("budget.paused") \in Nat
  BY PositionsFinite DEF JobTyped, Count
<1>2. Paid \in Nat
  BY <1>1, GrantAssumption DEF Paid
<1>3. SubSeq(journal, 1, Len(journal)) = journal
  BY AppendedFact DEF JobTyped
<1> QED BY <1>1, <1>2, <1>3

\* Only a pause pays for more calls, and it pays for one grant.
LEMMA PaidByPauses ==
  ASSUME JobTyped, NEW fact, RecordedFact(fact)
  PROVE  /\ IsSequence(journal')
         /\ SubSeq(journal', 1, Len(journal)) = journal
         /\ Paid' = Paid + IF fact.kind = "budget.paused" THEN MaxToolCalls ELSE 0
<1>1. /\ IsSequence(journal')
      /\ SubSeq(journal', 1, Len(journal)) = journal
  BY AppendedFact DEF JobTyped, RecordedFact
<1>2. Count("budget.paused")' =
        Count("budget.paused") + IF fact.kind = "budget.paused" THEN 1 ELSE 0
  BY CountAppended DEF JobTyped, Count, RecordedFact
<1>3. Paid' = Paid + IF fact.kind = "budget.paused" THEN MaxToolCalls ELSE 0
  BY <1>2, JournalKept, GrantAssumption DEF Paid
<1> QED BY <1>1, <1>3

\* A job that is open and stays open may journal anything but an end.
LEMMA StaysOpen ==
  ASSUME JobTyped, JournalEndsTheJob, job.state \notin Terminal, job'.state \notin Terminal,
         NEW fact, fact.kind \notin EndFacts, RecordedFact(fact)
  PROVE  JournalEndsTheJob'
<1>1. /\ DOMAIN journal = 1..Len(journal) /\ DOMAIN journal' = 1..(Len(journal) + 1)
      /\ Len(journal) \in Nat
      /\ \A i \in DOMAIN journal : journal'[i] = journal[i]
      /\ journal'[Len(journal) + 1] = fact
  BY AppendedFact DEF JobTyped, RecordedFact
<1>2. \A i \in DOMAIN journal : journal[i].kind \notin EndFacts
  BY DEF JournalEndsTheJob, Kinds
<1>3. \A i \in DOMAIN journal' : journal'[i].kind \notin EndFacts
  BY <1>1, <1>2
<1> QED BY <1>3 DEF JournalEndsTheJob, Kinds

\* The fact that closes a job is its only end, and the last fact.
LEMMA IsClosed ==
  ASSUME JobTyped, JournalEndsTheJob, job.state \notin Terminal, job'.state \in Terminal,
         NEW kind \in EndFacts, Recorded(kind)
  PROVE  JournalEndsTheJob'
<1>1. EndFacts \subseteq LifecycleKinds
  BY DEF EndFacts, LifecycleKinds
<1>2. /\ DOMAIN journal = 1..Len(journal) /\ DOMAIN journal' = 1..(Len(journal) + 1)
      /\ Len(journal) \in Nat /\ Len(journal') = Len(journal) + 1
      /\ \A i \in DOMAIN journal : journal'[i] = journal[i]
      /\ journal'[Len(journal) + 1].kind = kind
  BY <1>1, AppendedFact DEF JobTyped, Recorded, RecordedFact, Fact
<1>3. \A i \in DOMAIN journal : journal[i].kind \notin EndFacts
  BY DEF JournalEndsTheJob, Kinds
<1>4. \A i \in DOMAIN journal' : journal'[i].kind \in EndFacts => i = Len(journal')
  BY <1>2, <1>3
<1>5. kind \in Kinds'
  BY <1>2 DEF Kinds
<1> QED BY <1>4, <1>5 DEF JournalEndsTheJob

-----------------------------------------------------------------------------
(* The steps                                                               *)

LEMMA InitEstablishes == JobInit => IInv
<1> SUFFICES ASSUME JobInit PROVE IInv
  OBVIOUS
<1>1. IsSequence(journal) /\ journal = <<Fact("job.created")>>
  <2>1. journal = <<Fact("job.created")>>
    BY DEF JobInit
  <2>2. journal \in Seq({Fact("job.created")})
    BY <2>1
  <2> QED BY <2>1, <2>2 DEF IsSequence
<1>2. Reserved = {} /\ IsFiniteSet(Reserved) /\ Cardinality(Reserved) = 0
  BY FS_EmptySet DEF JobInit, Reserved
<1>3. JobTyped
  <2>1. job \in JobRecord
    BY GrantAssumption DEF JobInit, States, JobRecord
  <2>2. ops \in [Reserved -> [request : {}, status : {"pending", "completed"}]]
    BY DEF JobInit, Reserved
  <2> QED BY <1>1, <1>2, <2>1, <2>2 DEF JobTyped
<1>4. BudgetLeft
  BY <1>2, <1>3, JournalKept DEF BudgetLeft, JobInit
<1>5. JournalEndsTheJob
  BY <1>1 DEF JobInit, JournalEndsTheJob, Kinds, EndFacts, Terminal, Fact
<1> QED BY <1>3, <1>4, <1>5 DEF IInv

LEMMA BumpedFacts ==
  ASSUME JobTyped
  PROVE  /\ Bumped \in JobRecord
         /\ Bumped.state = job.state /\ Bumped.calls = job.calls /\ Bumped.active = job.active
         /\ Bumped.version = job.version + 1
  BY DEF JobTyped, JobRecord, Bumped

LEMMA ConcatOne ==
  ASSUME NEW facts, IsSequence(facts), NEW fact
  PROVE  facts \o <<fact>> = Append(facts, fact) /\ facts \o <<>> = facts
<1>1. PICK S : facts \in Seq(S)
  BY DEF IsSequence
<1>2. facts \in Seq(S \cup {fact}) /\ fact \in S \cup {fact}
  BY <1>1, SeqMonotonic
<1> QED BY <1>2, ConcatEmptySeq

LEMMA FactHasKind == \A kind : Fact(kind).kind = kind
BY DEF Fact

\* What a transition journals: a pause and an end always, a start or a resumption
\* when it is one.
LEMMA TransitionJournals ==
  ASSUME JobTyped, NEW to \in States, Allowed(job.state, to),
         journal' = journal \o TransitionFact(to)
  PROVE  /\ to = "paused_budget" => Recorded("budget.paused")
         /\ to \in Terminal => \E kind \in EndFacts : Recorded(kind)
         /\ to \notin Terminal \cup {"paused_budget"} =>
              \/ journal' = journal
              \/ \E kind \in {"job.started", "job.resumed"} : Recorded(kind)
<1>1. \A kind \in LifecycleKinds : TransitionFact(to) = <<Fact(kind)>> => Recorded(kind)
  BY ConcatOne DEF JobTyped, Recorded, RecordedFact
<1>2. TransitionFact(to) = <<>> => journal' = journal
  BY ConcatOne DEF JobTyped
<1>3. CASE to = "paused_budget"
  BY <1>1, <1>3 DEF TransitionFact, LifecycleKinds, Terminal
<1>4. CASE to \in Terminal
  BY <1>1, <1>4 DEF TransitionFact, LifecycleKinds, Terminal, EndFacts
<1>5. CASE to \notin Terminal \cup {"paused_budget"}
  BY <1>1, <1>2, <1>5 DEF TransitionFact, LifecycleKinds, Terminal
<1> QED BY <1>3, <1>4, <1>5 DEF Terminal

LEMMA TransitionStep ==
  ASSUME IInv, NEW version, NEW to \in States, Transition(version, to)
  PROVE  IInv' /\ DurableStep
<1> USE DEF IInv
<1>1. /\ job.state \notin Terminal /\ job.state # to /\ Allowed(job.state, to)
      /\ job'.state = to /\ job'.version = job.version + 1
      /\ job' \in JobRecord
      /\ job'.calls = IF job.state = "paused_budget" /\ to = "running" THEN 0 ELSE job.calls
  <2>1. job.state \notin Terminal /\ job.state # to /\ Allowed(job.state, to)
    BY DEF Transition, Allowed, Terminal
  <2> DEFINE moved == [Bumped EXCEPT !.state = to]
  <2>2. /\ moved \in JobRecord /\ moved.state = to
        /\ moved.version = job.version + 1 /\ moved.calls = job.calls
    BY BumpedFacts DEF JobRecord
  <2>3. job' = IF job.state = "paused_budget" /\ to = "running"
               THEN [moved EXCEPT !.calls = 0, !.active = 0] ELSE moved
    BY DEF Transition, WithState
  <2> HIDE DEF moved
  <2>4. CASE job.state = "paused_budget" /\ to = "running"
    <3>1. job' = [moved EXCEPT !.calls = 0, !.active = 0]
      BY <2>3, <2>4
    <3>2. job' \in JobRecord
      <4> DEFINE fresh == [moved EXCEPT !.calls = 0]
      <4>1. fresh \in JobRecord
        BY <2>2, GrantAssumption DEF JobRecord
      <4>2. job' = [fresh EXCEPT !.active = 0]
        BY <3>1
      <4> HIDE DEF fresh
      <4> QED BY <4>1, <4>2 DEF JobRecord
    <3>3. job'.state = to /\ job'.version = moved.version /\ job'.calls = 0
      BY <2>2, <3>1 DEF JobRecord
    <3> QED BY <2>1, <2>2, <2>4, <3>2, <3>3
  <2>5. CASE ~(job.state = "paused_budget" /\ to = "running")
    BY <2>1, <2>2, <2>3, <2>5
  <2> QED BY <2>4, <2>5
<1>2. /\ ops' = ops /\ Reserved' = Reserved
      /\ journal' = journal \o TransitionFact(to)
  BY DEF Transition, Reserved
<1>3. \/ journal' = journal /\ to \notin Terminal \cup {"paused_budget"}
      \/ \E kind \in {"job.started", "job.resumed"} :
           Recorded(kind) /\ to \notin Terminal \cup {"paused_budget"}
      \/ \E kind \in EndFacts : Recorded(kind) /\ to \in Terminal
      \/ Recorded("budget.paused") /\ to = "paused_budget"
  BY <1>1, <1>2, TransitionJournals
<1>4. /\ IsSequence(journal')
      /\ SubSeq(journal', 1, Len(journal)) = journal
      /\ Paid' = Paid + IF to = "paused_budget" THEN MaxToolCalls ELSE 0
  <2>1. CASE journal' = journal /\ to \notin Terminal \cup {"paused_budget"}
    <3>1. Paid' = Paid + IF to = "paused_budget" THEN MaxToolCalls ELSE 0
      BY <2>1, JournalKept DEF Paid, Count
    <3>2. IsSequence(journal') /\ SubSeq(journal', 1, Len(journal)) = journal
      BY <2>1, JournalKept DEF JobTyped
    <3> QED BY <3>1, <3>2
  <2>2. CASE journal' # journal \/ to \in Terminal \cup {"paused_budget"}
    <3>1. PICK kind \in LifecycleKinds :
            Recorded(kind) /\ (kind = "budget.paused" <=> to = "paused_budget")
      BY <1>3, <2>2 DEF LifecycleKinds, EndFacts, Terminal
    <3> QED BY <3>1, PaidByPauses, FactHasKind DEF Recorded
  <2> QED BY <2>1, <2>2
<1>5. JobTyped'
  BY <1>1, <1>2, <1>4 DEF JobTyped
<1>6. BudgetLeft'
  <2>1. /\ Cardinality(Reserved) \in Nat /\ Paid \in Nat
        /\ job.calls \in 0..MaxToolCalls /\ MaxToolCalls \in Nat
    BY FS_CardinalityType, JournalKept, GrantAssumption DEF JobTyped, JobRecord
  <2>2. CASE to = "paused_budget"
    BY <1>1, <1>2, <1>4, <2>1, <2>2 DEF BudgetLeft
  <2>3. CASE to # "paused_budget"
    BY <1>1, <1>2, <1>4, <2>1, <2>3 DEF BudgetLeft
  <2> QED BY <2>2, <2>3
<1>7. JournalEndsTheJob'
  <2>1. CASE journal' = journal /\ to \notin Terminal \cup {"paused_budget"}
    BY <1>1, <2>1 DEF JournalEndsTheJob, Kinds
  <2>2. CASE \E kind \in {"job.started", "job.resumed", "budget.paused"} :
               Recorded(kind) /\ to \notin Terminal
    BY <1>1, <2>2, StaysOpen, FactHasKind DEF Recorded, EndFacts
  <2>3. CASE \E kind \in EndFacts : Recorded(kind) /\ to \in Terminal
    BY <1>1, <2>3, IsClosed
  <2> QED BY <1>3, <2>1, <2>2, <2>3 DEF Terminal
<1>8. DurableStep
  BY <1>1, <1>2, <1>4 DEF DurableStep, CompletedOps, Reserved
<1> QED BY <1>5, <1>6, <1>7, <1>8

LEMMA CheckpointStep ==
  ASSUME IInv, NEW version, NEW fact, fact.kind \notin LifecycleKinds,
         AppendCheckpoint(version, fact)
  PROVE  IInv' /\ DurableStep
<1> USE DEF IInv
<1>1. /\ job.state \notin Terminal
      /\ job'.state = job.state /\ job'.version = job.version + 1
      /\ job' \in JobRecord
      /\ job'.calls = job.calls
      /\ RecordedFact(fact) /\ ops' = ops /\ Reserved' = Reserved
  BY BumpedFacts DEF AppendCheckpoint, RecordedFact, Reserved
<1>2. fact.kind # "budget.paused" /\ fact.kind \notin EndFacts
  BY DEF LifecycleKinds, EndFacts
<1>3. /\ IsSequence(journal')
      /\ SubSeq(journal', 1, Len(journal)) = journal
      /\ Paid' = Paid
  <2>1. Paid' = Paid + 0 /\ Paid \in Nat
    BY <1>1, <1>2, PaidByPauses, JournalKept
  <2> QED BY <1>1, <2>1, PaidByPauses
<1>4. JobTyped'
  BY <1>1, <1>3 DEF JobTyped
<1>5. BudgetLeft'
  BY <1>1, <1>3 DEF BudgetLeft
<1>6. JournalEndsTheJob'
  BY <1>1, <1>2, StaysOpen
<1>7. DurableStep
  BY <1>1, <1>3 DEF DurableStep, CompletedOps, Reserved
<1> QED BY <1>4, <1>5, <1>6, <1>7

LEMMA ReserveStep ==
  ASSUME IInv, NEW version, NEW id, NEW request, Reserve(version, id, request)
  PROVE  IInv' /\ DurableStep
<1> USE DEF IInv
<1>1. /\ job.state \in {"running", "validating"} /\ job.calls < MaxToolCalls
      /\ job'.state = job.state /\ job'.version = job.version + 1
      /\ job' \in JobRecord
      /\ job'.calls = job.calls + 1 /\ journal' = journal
  <2>1. /\ job.state \in {"running", "validating"} /\ job.calls < MaxToolCalls
        /\ job' = [Bumped EXCEPT !.calls = @ + 1] /\ journal' = journal
    BY GrantAssumption DEF JobTyped, JobRecord, Reserve, Runnable, BudgetExhausted
  <2> QED BY <2>1, BumpedFacts, GrantAssumption DEF JobTyped, JobRecord
<1>2. /\ id \notin Reserved /\ Reserved' = Reserved \cup {id}
      /\ \A o \in Reserved : ops'[o] = ops[o]
      /\ \E R : ops' \in [Reserved' -> [request : R, status : {"pending", "completed"}]]
  <2>1. PICK R : ops \in [Reserved -> [request : R, status : {"pending", "completed"}]]
    BY DEF JobTyped
  <2>2. ops' \in [Reserved' -> [request : R \cup {request}, status : {"pending", "completed"}]]
    BY <2>1 DEF Reserve, Reserved
  <2>3. /\ id \notin Reserved /\ Reserved' = Reserved \cup {id}
        /\ \A o \in Reserved : ops'[o] = ops[o]
    BY DEF Reserve, Reserved
  <2> QED BY <2>2, <2>3
<1>3. /\ IsFiniteSet(Reserved')
      /\ Cardinality(Reserved') = Cardinality(Reserved) + 1
      /\ Cardinality(Reserved) \in Nat
  BY <1>2, FS_AddElement, FS_CardinalityType DEF JobTyped
<1>4. /\ Paid' = Paid /\ Paid \in Nat
      /\ SubSeq(journal', 1, Len(journal)) = journal
  BY <1>1, JournalKept DEF Paid, Count
<1>5. JobTyped'
  BY <1>1, <1>2, <1>3 DEF JobTyped
<1>6. BudgetLeft'
  BY <1>1, <1>3, <1>4 DEF BudgetLeft, JobTyped, JobRecord
<1>7. JournalEndsTheJob'
  BY <1>1 DEF JournalEndsTheJob, Kinds
<1>8. DurableStep
  BY <1>1, <1>2, <1>4 DEF DurableStep, CompletedOps, Reserved
<1> QED BY <1>5, <1>6, <1>7, <1>8

LEMMA CompleteStep ==
  ASSUME IInv, NEW id, NEW request, NEW time \in Nat, Complete(id, request, time)
  PROVE  IInv' /\ DurableStep
<1> USE DEF IInv
<1>1. /\ id \in Reserved /\ ops[id].status = "pending"
      /\ ops' = [ops EXCEPT ![id].status = "completed"]
  BY DEF Complete, Known
<1>2. /\ Reserved' = Reserved
      /\ \A o \in Reserved : ops'[o].request = ops[o].request /\ (o # id => ops'[o] = ops[o])
      /\ \E R : ops' \in [Reserved -> [request : R, status : {"pending", "completed"}]]
  <2>1. PICK R : ops \in [Reserved -> [request : R, status : {"pending", "completed"}]]
    BY DEF JobTyped
  <2>2. /\ Reserved' = Reserved
        /\ \A o \in Reserved : ops'[o].request = ops[o].request /\ (o # id => ops'[o] = ops[o])
        /\ ops' \in [Reserved -> [request : R, status : {"pending", "completed"}]]
    BY <1>1, <2>1 DEF Reserved
  <2> QED BY <2>2
<1>3. \/ /\ journal' = journal /\ job'.state = job.state
      \/ /\ Recorded("budget.paused") /\ job'.state = "paused_budget"
         /\ job.state \in {"running", "validating"}
  BY BumpedFacts DEF JobRecord, Complete, Runnable, Recorded, RecordedFact
<1>4. /\ job'.version = job.version + 1 /\ job'.calls = job.calls
      /\ job' \in JobRecord
  <2> DEFINE active == job.active + time
             pause == Runnable /\ (job.calls >= MaxToolCalls \/ active >= MaxActiveTime)
             charged == [Bumped EXCEPT !.active = active]
  <2>1. active \in Nat
    BY GrantAssumption DEF JobTyped, JobRecord
  <2>2. job' = [charged EXCEPT !.state = IF pause THEN "paused_budget" ELSE job.state]
    BY BumpedFacts DEF Complete
  <2>3. /\ charged \in JobRecord
        /\ charged.version = job.version + 1 /\ charged.calls = job.calls
    BY <2>1, BumpedFacts DEF JobRecord
  <2>4. (IF pause THEN "paused_budget" ELSE job.state) \in States
    BY DEF JobTyped, JobRecord, States
  <2> HIDE DEF charged, pause
  <2> QED BY <2>2, <2>3, <2>4 DEF JobRecord
<1>5. /\ Cardinality(Reserved) \in Nat /\ Paid \in Nat
      /\ job.calls \in 0..MaxToolCalls /\ MaxToolCalls \in Nat
  BY FS_CardinalityType, JournalKept, GrantAssumption DEF JobTyped, JobRecord
<1>6. CASE journal' = journal /\ job'.state = job.state
  <2>1. Paid' = Paid /\ SubSeq(journal', 1, Len(journal)) = journal
    BY <1>6, JournalKept DEF Paid, Count
  <2>2. JobTyped'
    BY <1>2, <1>4, <1>6 DEF JobTyped
  <2>3. BudgetLeft'
    BY <1>2, <1>4, <1>6, <2>1 DEF BudgetLeft
  <2>4. JournalEndsTheJob'
    BY <1>6 DEF JournalEndsTheJob, Kinds
  <2>5. DurableStep
    BY <1>1, <1>2, <1>4, <1>6, <2>1 DEF DurableStep, CompletedOps, Reserved
  <2> QED BY <2>2, <2>3, <2>4, <2>5
<1>7. CASE /\ Recorded("budget.paused") /\ job'.state = "paused_budget"
           /\ job.state \in {"running", "validating"}
  <2>1. /\ IsSequence(journal')
        /\ SubSeq(journal', 1, Len(journal)) = journal
        /\ Paid' = Paid + MaxToolCalls
    BY <1>7, PaidByPauses, FactHasKind DEF Recorded
  <2>2. JobTyped'
    BY <1>2, <1>4, <2>1 DEF JobTyped
  <2>3. BudgetLeft'
    BY <1>2, <1>5, <1>7, <2>1 DEF BudgetLeft
  <2>4. JournalEndsTheJob'
    BY <1>7, StaysOpen, FactHasKind DEF Recorded, EndFacts, Terminal
  <2>5. DurableStep
    BY <1>1, <1>2, <1>4, <1>7, <2>1 DEF DurableStep, CompletedOps, Reserved, Terminal
  <2> QED BY <2>2, <2>3, <2>4, <2>5
<1> QED BY <1>3, <1>6, <1>7

-----------------------------------------------------------------------------
(* The theorems                                                            *)

\* What any client of the job may do to it: the ids, the request hashes and the facts
\* are the client's own, the facts of the lifecycle are not.
ClientStep ==
  \/ \E version : \E to \in States : Transition(version, to)
  \/ \E version, fact : fact.kind \notin LifecycleKinds /\ AppendCheckpoint(version, fact)
  \/ \E version, id, request : Reserve(version, id, request)
  \/ \E id, request : \E time \in Nat : Complete(id, request, time)

LEMMA ClientsKeep ==
  ASSUME IInv, [ClientStep]_jobVars
  PROVE  IInv' /\ [DurableStep]_jobVars
<1>1. CASE UNCHANGED jobVars
  <2>1. journal' = journal /\ job' = job /\ ops' = ops
    BY <1>1 DEF jobVars
  <2>2. JobTyped' /\ JournalEndsTheJob'
    BY <2>1 DEF IInv, JobTyped, Reserved, JournalEndsTheJob, Kinds
  <2>3. BudgetLeft'
    BY <2>1 DEF IInv, BudgetLeft, Paid, Count, Reserved
  <2> QED BY <1>1, <2>2, <2>3 DEF IInv
<1>2. ASSUME NEW version, NEW to \in States, Transition(version, to)
      PROVE  IInv' /\ DurableStep
  BY <1>2, TransitionStep
<1>3. ASSUME NEW version, NEW fact, fact.kind \notin LifecycleKinds,
             AppendCheckpoint(version, fact)
      PROVE  IInv' /\ DurableStep
  BY <1>3, CheckpointStep
<1>4. ASSUME NEW version, NEW id, NEW request, Reserve(version, id, request)
      PROVE  IInv' /\ DurableStep
  BY <1>4, ReserveStep
<1>5. ASSUME NEW id, NEW request, NEW time \in Nat, Complete(id, request, time)
      PROVE  IInv' /\ DurableStep
  BY <1>5, CompleteStep
<1> QED BY <1>1, <1>2, <1>3, <1>4, <1>5 DEF ClientStep

LEMMA NextIsOfClients == [JobNext]_jobVars => [ClientStep]_jobVars
<1>1. ASSUME NEW note \in Notes
      PROVE  Fact(note).kind \notin LifecycleKinds
  BY NotesAssumption, FactHasKind
<1>2. ASSUME JobNext PROVE ClientStep
  <2>1. CASE \E to \in States : Transition(job.version, to)
    BY <2>1 DEF ClientStep
  <2>2. CASE \E note \in Notes : AppendCheckpoint(job.version, Fact(note))
    BY <1>1, <2>2 DEF ClientStep
  <2>3. CASE \E id \in Operations, r \in Requests : Reserve(job.version, id, r)
    BY <2>3 DEF ClientStep
  <2>4. CASE \E id \in Operations, r \in Requests, t \in Times : Complete(id, r, t)
    BY <2>4, GrantAssumption DEF ClientStep
  <2> QED BY <1>2, <2>1, <2>2, <2>3, <2>4 DEF JobNext
<1> QED BY <1>2

LEMMA BudgetFromLeft == IInv => BudgetPerPause
<1>1. ASSUME IInv PROVE BudgetPerPause
  <2>1. /\ Cardinality(Reserved) \in Nat /\ Count("budget.paused") \in Nat
        /\ job.calls \in 0..MaxToolCalls /\ MaxToolCalls \in Nat
    BY <1>1, FS_CardinalityType, JournalKept, GrantAssumption DEF IInv, JobTyped, JobRecord
  <2>2. Cardinality(Reserved) <= MaxToolCalls + MaxToolCalls * Count("budget.paused")
    BY <1>1, <2>1, JournalKept DEF IInv, BudgetLeft, Paid
  <2>3. MaxToolCalls + MaxToolCalls * Count("budget.paused") =
          MaxToolCalls * (1 + Count("budget.paused"))
    BY <2>1
  <2> QED BY <2>2, <2>3 DEF BudgetPerPause
<1> QED BY <1>1

THEOREM JobInvariant == JobSpec => []IInv
<1>1. IInv /\ [JobNext]_jobVars => IInv'
  BY ClientsKeep, NextIsOfClients
<1> QED BY <1>1, InitEstablishes, PTL DEF JobSpec

\* However often a job is resumed and whatever is still pending when its budget ends,
\* it never reserves more than one grant beyond what its journaled pauses paid for
\* (reserveOperation, completeOperation and the reset of withState).
THEOREM BudgetHolds == JobSpec => []BudgetPerPause
BY BudgetFromLeft, JobInvariant, PTL

\* A job is closed exactly when its journal says so, once and last: a completion that
\* comes after a cancellation journals nothing (completeOperation, transition).
THEOREM JournalHolds == JobSpec => []JournalEndsTheJob
<1>1. IInv => JournalEndsTheJob
  BY DEF IInv
<1> QED BY <1>1, JobInvariant, PTL

\* Nothing durable is taken back, and every change moves the version by one, which is
\* what the expected version of the routes and of the executor relies on.
THEOREM FactsAreDurable == JobSpec => DurableFacts
<1>1. IInv /\ [JobNext]_jobVars => [DurableStep]_jobVars
  BY ClientsKeep, NextIsOfClients
<1> QED BY <1>1, JobInvariant, PTL DEF JobSpec, DurableFacts

-----------------------------------------------------------------------------
(* The asset files.  What a call is answered is true of the files because   *)
(* no file is ever changed, a record is linked only behind its object, and  *)
(* a call that links or verifies a file knows what is in it.                 *)

Storing == {"look", "verify", "write", "link", "reverify", "unlink", "unlink_failed"}

IsStored(record) ==
  LET path == RegistryPath(record.id, record.hash) IN
  /\ Exists(path) /\ files[path] = <<record>>
  /\ Exists(ObjectPath(record.hash)) /\ files[ObjectPath(record.hash)] = <<record.hash>>

\* Every object is its bytes, and every record has its name and its object.
FilesAreTrue ==
  \A path \in DOMAIN files :
    \/ path = ObjectPath(path[2]) /\ files[path] = <<path[2]>>
    \/ /\ path = RegistryPath(path[2], path[3])
       /\ files[path] = <<files[path][1]>>
       /\ files[path][1].id = path[2] /\ files[path][1].hash = path[3]
       /\ Exists(ObjectPath(path[3]))

StoringIsTrue(call) ==
  /\ DOMAIN call = {"at", "stage", "record"} /\ call.stage \in {"object", "registry"}
  /\ call.stage = "registry" => Exists(ObjectPath(call.record.hash))
  /\ call.at \in {"verify", "reverify"} => Exists(TargetOf(call))
  /\ call.at = "unlink" => Exists(TargetOf(call)) /\ files[TargetOf(call)] = PayloadOf(call)

AnswerIsTrue(call) ==
  /\ call.answer \notin {"corrupt_object", "object_missing"}
  /\ call.answer \in {"stored", "asset"} => IsStored(call.record)

CallIsTrue(call) ==
  /\ call.at \in Storing \cup {"idle", "over", "bytes"}
  /\ call.at \in Storing => StoringIsTrue(call)
  /\ call.at = "bytes" => IsStored(call.record)
  /\ call.at = "over" => AnswerIsTrue(call)

AssetIInv ==
  /\ DOMAIN assetCalls = AssetCalls
  /\ FilesAreTrue
  /\ \A c \in AssetCalls : CallIsTrue(assetCalls[c])

LEMMA AssetInitially == AssetInit => AssetIInv
BY DEF AssetInit, AssetIInv, FilesAreTrue, CallIsTrue, NoAssetCall, Storing

\* No step changes or removes a file.
FilesStay == \A path \in DOMAIN files : path \in DOMAIN files' /\ files'[path] = files[path]

\* A step of one call leaves what is true of another.
LEMMA OtherCallStays ==
  ASSUME FilesStay, NEW d \in AssetCalls, assetCalls'[d] = assetCalls[d],
         CallIsTrue(assetCalls[d])
  PROVE  CallIsTrue(assetCalls[d])'
BY DEF FilesStay, CallIsTrue, StoringIsTrue, AnswerIsTrue, IsStored, Exists, TargetOf, PayloadOf

LEMMA OneCallGoes ==
  ASSUME AssetIInv, FilesStay, FilesAreTrue', NEW c \in AssetCalls, NEW call,
         CallGoes(c, call), CallIsTrue(assetCalls[c])'
  PROVE  AssetIInv'
<1>1. ASSUME NEW d \in AssetCalls, d # c PROVE CallIsTrue(assetCalls[d])'
  <2>1. assetCalls'[d] = assetCalls[d] BY <1>1 DEF CallGoes, AssetIInv
  <2> QED BY <2>1, OtherCallStays DEF AssetIInv
<1> QED BY <1>1 DEF AssetIInv, CallGoes

\* The same where no file is made.
LEMMA OneCallMoves ==
  ASSUME AssetIInv, UNCHANGED files, NEW c \in AssetCalls, NEW call,
         CallGoes(c, call), CallIsTrue(assetCalls[c])'
  PROVE  AssetIInv'
<1>1. FilesStay BY DEF FilesStay
<1>2. FilesAreTrue' BY DEF AssetIInv, FilesAreTrue, Exists
<1> QED BY <1>1, <1>2, OneCallGoes

LEMMA WhereItGoes ==
  ASSUME AssetIInv, NEW c \in AssetCalls, NEW call, CallGoes(c, call)
  PROVE  assetCalls'[c] = call
BY DEF AssetIInv, CallGoes

\* What an answer that names no record must not be.
LEMMA EmptyAnswerKeeps ==
  ASSUME AssetIInv, UNCHANGED files, NEW c \in AssetCalls, NEW record,
         NEW answer \in {"failed", "refused", "not_found"}, Says(c, answer, record)
  PROVE  AssetIInv'
<1> DEFINE call == [at |-> "over", answer |-> answer, record |-> record]
<1>1. CallGoes(c, call) BY DEF Says
<1>2. assetCalls'[c] = call BY <1>1, WhereItGoes
<1>3. CallIsTrue(assetCalls[c])' BY <1>2 DEF CallIsTrue, AnswerIsTrue, Storing
<1> QED BY <1>1, <1>3, OneCallMoves

\* A call that has its file in place goes on to the other one, or is answered.
LEMMA PublishedKeeps ==
  ASSUME AssetIInv, UNCHANGED files, NEW c \in AssetCalls, Published(c),
         assetCalls[c].at \in Storing,
         Exists(TargetOf(assetCalls[c])), files[TargetOf(assetCalls[c])] = PayloadOf(assetCalls[c])
  PROVE  AssetIInv'
<1>0. StoringIsTrue(assetCalls[c]) BY DEF AssetIInv, CallIsTrue
<1>1. CASE assetCalls[c].stage = "object"
  <2>1. PICK call : call = [assetCalls[c] EXCEPT !.stage = "registry", !.at = "look"] OBVIOUS
  <2>2. CallGoes(c, call) BY <1>1, <2>1 DEF Published
  <2>3. assetCalls'[c] = call BY <2>2, WhereItGoes
  <2>4. /\ DOMAIN call = {"at", "stage", "record"}
        /\ call.at = "look" /\ call.stage = "registry" /\ call.record = assetCalls[c].record
    BY <1>0, <2>1 DEF StoringIsTrue
  <2>5. Exists(ObjectPath(call.record.hash)) BY <1>1, <2>4 DEF TargetOf
  <2>6. CallIsTrue(assetCalls[c])'
    BY <2>3, <2>4, <2>5 DEF CallIsTrue, StoringIsTrue, Storing, Exists
  <2> QED BY <2>2, <2>6, OneCallMoves
<1>2. CASE assetCalls[c].stage # "object"
  <2>1. PICK record : record = assetCalls[c].record OBVIOUS
  <2>2. PICK call : call = [at |-> "over", answer |-> "stored", record |-> record] OBVIOUS
  <2>3. CallGoes(c, call) BY <1>2, <2>1, <2>2 DEF Published, Says
  <2>4. assetCalls'[c] = call BY <2>3, WhereItGoes
  <2>5. /\ Exists(RegistryPath(record.id, record.hash))
        /\ files[RegistryPath(record.id, record.hash)] = <<record>>
        /\ Exists(ObjectPath(record.hash))
    BY <1>0, <1>2, <2>1 DEF StoringIsTrue, TargetOf, PayloadOf
  <2>6. files[ObjectPath(record.hash)] = <<record.hash>>
    BY <2>5 DEF AssetIInv, FilesAreTrue, Exists, ObjectPath, RegistryPath
  <2>7. IsStored(record)' BY <2>5, <2>6 DEF IsStored, Exists
  <2>8. CallIsTrue(assetCalls[c])'
    BY <2>2, <2>4, <2>7 DEF CallIsTrue, AnswerIsTrue, IsStored, Exists, Storing
  <2> QED BY <2>3, <2>8, OneCallMoves
<1> QED BY <1>1, <1>2

\* A storing call takes its next step.
LEMMA NextStepKeeps ==
  ASSUME AssetIInv, UNCHANGED files, NEW c \in AssetCalls, assetCalls[c].at \in Storing,
         NEW step \in Storing, MovesTo(c, step),
         step \in {"verify", "reverify", "unlink"} => Exists(TargetOf(assetCalls[c])),
         step = "unlink" => Verified(c)
  PROVE  AssetIInv'
<1>0. StoringIsTrue(assetCalls[c]) BY DEF AssetIInv, CallIsTrue
<1>1. PICK call : call = [assetCalls[c] EXCEPT !.at = step] OBVIOUS
<1>2. CallGoes(c, call) BY <1>1 DEF MovesTo, CallGoes
<1>3. assetCalls'[c] = call BY <1>2, WhereItGoes
<1>4. /\ DOMAIN call = {"at", "stage", "record"} /\ call.at = step
      /\ call.stage = assetCalls[c].stage /\ call.record = assetCalls[c].record
  BY <1>0, <1>1 DEF StoringIsTrue
<1>5. TargetOf(call) = TargetOf(assetCalls[c]) /\ PayloadOf(call) = PayloadOf(assetCalls[c])
  BY <1>4 DEF TargetOf, PayloadOf
<1>6. /\ call.stage \in {"object", "registry"}
      /\ call.stage = "registry" => Exists(ObjectPath(call.record.hash))
      /\ step \in {"verify", "reverify"} => Exists(TargetOf(call))
      /\ step = "unlink" => Exists(TargetOf(call)) /\ files[TargetOf(call)] = PayloadOf(call)
  BY <1>0, <1>4, <1>5 DEF StoringIsTrue, Verified
<1>7. StoringIsTrue(assetCalls[c])'
  BY <1>3, <1>4, <1>6 DEF StoringIsTrue, Exists, TargetOf, PayloadOf
<1>8. CallIsTrue(assetCalls[c])' BY <1>3, <1>4, <1>7 DEF CallIsTrue, Storing
<1> QED BY <1>2, <1>8, OneCallMoves

\* A file comes to a free place; a record only behind its object.
LEMMA LinkKeeps ==
  ASSUME AssetIInv, NEW c \in AssetCalls, assetCalls[c].at = "link",
         ~Exists(TargetOf(assetCalls[c])), LinkTemp(c)
  PROVE  AssetIInv'
<1>0. StoringIsTrue(assetCalls[c]) BY DEF AssetIInv, CallIsTrue, Storing
<1>1. PICK old : old = assetCalls[c] OBVIOUS
<1>2. PICK target : target = TargetOf(old) OBVIOUS
<1>3. PICK payload : payload = PayloadOf(old) OBVIOUS
<1>4. /\ files' = [path \in DOMAIN files \cup {target} |->
                     IF path = target THEN payload ELSE files[path]]
      /\ MovesTo(c, "unlink") /\ target \notin DOMAIN files
  BY <1>1, <1>2, <1>3 DEF LinkTemp, Linked, Exists
<1>5. FilesStay BY <1>4 DEF FilesStay
<1>6. target \in DOMAIN files' /\ files'[target] = payload BY <1>4
<1>7. \A path \in DOMAIN files' : path = target \/ path \in DOMAIN files BY <1>4
<1>8. FilesAreTrue'
  <2> SUFFICES ASSUME NEW path \in DOMAIN files'
               PROVE  \/ path = ObjectPath(path[2]) /\ files'[path] = <<path[2]>>
                      \/ /\ path = RegistryPath(path[2], path[3])
                         /\ files'[path] = <<files'[path][1]>>
                         /\ files'[path][1].id = path[2] /\ files'[path][1].hash = path[3]
                         /\ ObjectPath(path[3]) \in DOMAIN files'
    BY DEF FilesAreTrue, Exists
  <2>1. CASE path \in DOMAIN files
    BY <2>1, <1>5 DEF FilesStay, AssetIInv, FilesAreTrue, Exists
  <2>2. CASE path = target /\ old.stage = "object"
    BY <2>2, <1>2, <1>3, <1>6 DEF TargetOf, PayloadOf, ObjectPath
  <2>3. CASE path = target /\ old.stage = "registry"
    <3>1. path = RegistryPath(old.record.id, old.record.hash) /\ files'[path] = <<old.record>>
      BY <2>3, <1>2, <1>3, <1>6 DEF TargetOf, PayloadOf
    <3>2. path[2] = old.record.id /\ path[3] = old.record.hash
      BY <3>1 DEF RegistryPath
    <3>3. ObjectPath(old.record.hash) \in DOMAIN files'
      BY <1>0, <1>1, <1>5, <2>3 DEF StoringIsTrue, Exists, FilesStay
    <3> QED BY <3>1, <3>2, <3>3
  <2> QED BY <1>0, <1>1, <1>7, <2>1, <2>2, <2>3 DEF StoringIsTrue
<1>9. PICK call : call = [old EXCEPT !.at = "unlink"] OBVIOUS
<1>10. CallGoes(c, call) BY <1>1, <1>4, <1>9 DEF MovesTo, CallGoes
<1>11. assetCalls'[c] = call BY <1>10, WhereItGoes
<1>12. /\ DOMAIN call = {"at", "stage", "record"} /\ call.at = "unlink"
       /\ call.stage = old.stage /\ call.record = old.record
  BY <1>0, <1>1, <1>9 DEF StoringIsTrue
<1>13. /\ call.stage \in {"object", "registry"}
       /\ call.stage = "registry" => ObjectPath(call.record.hash) \in DOMAIN files'
       /\ TargetOf(call) = target /\ PayloadOf(call) = payload
  BY <1>0, <1>1, <1>2, <1>3, <1>5, <1>12 DEF StoringIsTrue, Exists, FilesStay, TargetOf, PayloadOf
<1>14. StoringIsTrue(assetCalls[c])'
  BY <1>6, <1>11, <1>12, <1>13 DEF StoringIsTrue, Exists, TargetOf, PayloadOf
<1>15. CallIsTrue(assetCalls[c])' BY <1>11, <1>12, <1>14 DEF CallIsTrue, Storing
<1> QED BY <1>5, <1>8, <1>10, <1>15, OneCallGoes

LEMMA IngestKeeps ==
  ASSUME AssetIInv, NEW c \in AssetCalls, NEW request \in AssetRequests, IngestAsset(c, request)
  PROVE  AssetIInv'
<1>1. CASE Accepted(request)
  <2>1. PICK call : call = [at |-> "look", stage |-> "object", record |-> RecordOf(request)]
    OBVIOUS
  <2>2. CallGoes(c, call) /\ UNCHANGED files BY <1>1, <2>1 DEF IngestAsset
  <2>3. assetCalls'[c] = call BY <2>2, WhereItGoes
  <2>4. CallIsTrue(assetCalls[c])' BY <2>1, <2>3 DEF CallIsTrue, StoringIsTrue, Storing
  <2> QED BY <2>2, <2>4, OneCallMoves
<1>2. CASE ~Accepted(request)
  BY <1>2, EmptyAnswerKeeps DEF IngestAsset
<1> QED BY <1>1, <1>2

LEMMA ReadRecordKeeps ==
  ASSUME AssetIInv, NEW c \in AssetCalls, NEW id, NEW hash, ReadRecord(c, id, hash)
  PROVE  AssetIInv'
<1>1. PICK path : path = RegistryPath(id, hash) OBVIOUS
<1>2. CASE ~Exists(path)
  BY <1>1, <1>2, EmptyAnswerKeeps DEF ReadRecord
<1>3. CASE Exists(path)
  <2>1. path = <<"registry", id, hash>> BY <1>1 DEF RegistryPath
  <2>2. path # ObjectPath(path[2]) BY <2>1 DEF ObjectPath
  <2>3. PICK record : record = files[path][1] OBVIOUS
  <2>4. /\ files[path] = <<record>> /\ record.id = id /\ record.hash = hash
        /\ Exists(ObjectPath(hash))
    BY <1>3, <2>1, <2>2, <2>3 DEF AssetIInv, FilesAreTrue, Exists
  <2>5. files[ObjectPath(hash)] = <<hash>>
    BY <2>4 DEF AssetIInv, FilesAreTrue, Exists, ObjectPath, RegistryPath
  <2>6. PICK call : call = [at |-> "bytes", record |-> record] OBVIOUS
  <2>7. CallGoes(c, call) /\ UNCHANGED files
    BY <1>1, <1>3, <2>3, <2>4, <2>6 DEF ReadRecord
  <2>8. assetCalls'[c] = call BY <2>7, WhereItGoes
  <2>9. IsStored(record) BY <1>1, <1>3, <2>4, <2>5 DEF IsStored
  <2>10. CallIsTrue(assetCalls[c])'
    BY <2>6, <2>7, <2>8, <2>9 DEF CallIsTrue, IsStored, Exists, Storing
  <2> QED BY <2>7, <2>10, OneCallMoves
<1> QED BY <1>2, <1>3

LEMMA ReadBytesKeeps ==
  ASSUME AssetIInv, NEW c \in AssetCalls, ReadBytes(c)
  PROVE  AssetIInv'
<1>1. PICK record : record = assetCalls[c].record OBVIOUS
<1>2. IsStored(record) BY <1>1 DEF ReadBytes, AssetIInv, CallIsTrue, Storing
<1>3. PICK call : call = [at |-> "over", answer |-> "asset", record |-> record] OBVIOUS
<1>4. CallGoes(c, call) /\ UNCHANGED files
  BY <1>1, <1>2, <1>3 DEF ReadBytes, Says, IsStored
<1>5. assetCalls'[c] = call BY <1>4, WhereItGoes
<1>6. CallIsTrue(assetCalls[c])'
  BY <1>2, <1>3, <1>4, <1>5 DEF CallIsTrue, AnswerIsTrue, IsStored, Exists, Storing
<1> QED BY <1>4, <1>6, OneCallMoves

LEMMA AssetStepKeeps ==
  ASSUME AssetIInv, [AssetNext]_assetVars
  PROVE  AssetIInv'
<1>1. CASE UNCHANGED assetVars
  BY <1>1 DEF assetVars, AssetIInv, FilesAreTrue, CallIsTrue, StoringIsTrue, AnswerIsTrue,
              IsStored, Exists
<1>2. ASSUME NEW c \in AssetCalls, NEW request \in AssetRequests,
             IngestAsset(c, request) \/ ReadRecord(c, request.id, request.bytes)
      PROVE  AssetIInv'
  BY <1>2, IngestKeeps, ReadRecordKeeps
<1>3. ASSUME NEW c \in AssetCalls, LookForTarget(c) PROVE AssetIInv'
  BY <1>3, NextStepKeeps DEF LookForTarget, Publishing, Storing
<1>4. ASSUME NEW c \in AssetCalls, VerifyExisting(c) PROVE AssetIInv'
  <2>1. /\ assetCalls[c].at = "verify" /\ UNCHANGED files
        /\ Exists(TargetOf(assetCalls[c]))
    BY <1>4 DEF VerifyExisting, Publishing, AssetIInv, CallIsTrue, StoringIsTrue, Storing
  <2>2. CASE Verified(c)
    BY <1>4, <2>1, <2>2, PublishedKeeps DEF VerifyExisting, Verified, Storing
  <2>3. CASE ~Verified(c)
    BY <1>4, <2>1, <2>3, EmptyAnswerKeeps DEF VerifyExisting, Fails
  <2> QED BY <2>2, <2>3
<1>5. ASSUME NEW c \in AssetCalls, WriteTemp(c) PROVE AssetIInv'
  BY <1>5, NextStepKeeps DEF WriteTemp, Publishing, Storing
<1>6. ASSUME NEW c \in AssetCalls, LinkTemp(c) PROVE AssetIInv'
  <2>1. assetCalls[c].at = "link" BY <1>6 DEF LinkTemp, Publishing
  <2>2. CASE Exists(TargetOf(assetCalls[c]))
    BY <1>6, <2>1, <2>2, NextStepKeeps DEF LinkTemp, Linked, Storing
  <2> QED BY <1>6, <2>1, <2>2, LinkKeeps
<1>7. ASSUME NEW c \in AssetCalls, VerifyRaced(c) PROVE AssetIInv'
  <2>1. /\ assetCalls[c].at = "reverify" /\ UNCHANGED files
        /\ Exists(TargetOf(assetCalls[c]))
    BY <1>7 DEF VerifyRaced, Publishing, AssetIInv, CallIsTrue, StoringIsTrue, Storing
  <2>2. CASE Verified(c)
    BY <1>7, <2>1, <2>2, NextStepKeeps DEF VerifyRaced, Storing
  <2>3. CASE ~Verified(c)
    BY <1>7, <2>1, <2>3, NextStepKeeps DEF VerifyRaced, Storing
  <2> QED BY <2>2, <2>3
<1>8. ASSUME NEW c \in AssetCalls, UnlinkTemp(c) PROVE AssetIInv'
  <2>1. UNCHANGED files BY <1>8 DEF UnlinkTemp
  <2>2. CASE Publishing(c, "unlink") /\ Published(c)
    <3>1. /\ assetCalls[c].at = "unlink"
          /\ Exists(TargetOf(assetCalls[c]))
          /\ files[TargetOf(assetCalls[c])] = PayloadOf(assetCalls[c])
      BY <2>2 DEF Publishing, AssetIInv, CallIsTrue, StoringIsTrue, Storing
    <3> QED BY <2>1, <2>2, <3>1, PublishedKeeps DEF Storing
  <2>3. CASE Fails(c)
    BY <2>1, <2>3, EmptyAnswerKeeps DEF Fails
  <2> QED BY <1>8, <2>2, <2>3 DEF UnlinkTemp
<1>9. ASSUME NEW c \in AssetCalls, FileOperationFails(c) PROVE AssetIInv'
  BY <1>9, EmptyAnswerKeeps DEF FileOperationFails, Fails
<1>10. ASSUME NEW c \in AssetCalls, ReadBytes(c) PROVE AssetIInv'
  BY <1>10, ReadBytesKeeps
<1> QED BY <1>1, <1>2, <1>3, <1>4, <1>5, <1>6, <1>7, <1>8, <1>9, <1>10 DEF AssetNext

\* An asset that was stored, or read, is on the disk whole and under its own record,
\* whoever stores it again meanwhile and wherever a call stops (LocalAssetStore, whose
\* files are linked to their place and verified, never written over).
THEOREM StoredAssetsStay == AssetSpec => []AssetsAreWhole
<1>1. AssetIInv /\ [AssetNext]_assetVars => AssetIInv' BY AssetStepKeeps
<1>2. AssetIInv => AssetsAreWhole
  BY DEF AssetIInv, CallIsTrue, AnswerIsTrue, IsStored, AssetsAreWhole
<1>3. AssetSpec => []AssetIInv BY <1>1, AssetInitially, PTL DEF AssetSpec
<1> QED BY <1>2, <1>3, PTL

-----------------------------------------------------------------------------
(* The assistant.  What the segment and the apply route rely on between two *)
(* awaits is durable: facts of the journal, completed operations and the    *)
(* versions of the draft only grow.  A proposal lands on the draft it was   *)
(* written against, so a draft never holds it twice, and a turn taken from  *)
(* the draft as it is now is not one whose proposal has landed.             *)

FromContext == {"context", "turn", "tool", "answer", "produced", "preview", "previewDone",
                "previewFact", "decide", "land", "landDone", "landFact", "succeed"}
FromTurn == FromContext \ {"context"}
FromProduced == FromTurn \ {"turn", "tool", "answer"}
FromPreview == FromProduced \ {"produced"}
FromPreviewFact == FromPreview \ {"preview", "previewDone"}
Landing == {"landDone", "landFact", "succeed"}
OfTurnRead == {"readDone", "readFact"} \cup FromContext

IsRead(turn) == ReadOp(turn) \in CompletedOps
IsOf(p, turn) == p.turn = turn /\ p.body \in Bodies
IsShown(p) == p.body \in Bodies /\ Journaled(Produced(p)) /\ PreviewOp(p) \in CompletedOps
IsLanded(p, n) == n \in DOMAIN draft /\ draft[n] = p
IsApplied(key, p) == key \in DOMAIN applications /\ applications[key].proposal = p

OperationsTyped ==
  ops \in [Reserved -> [request : {Hash}, status : {"pending", "completed"}]]

ArtifactsHold ==
  \A t \in DOMAIN artifacts :
    IsRead(t) /\ Journaled(Selected(t)) /\ IsOf(artifacts[t], t)

DraftHolds ==
  \A n \in DOMAIN draft : draft[n] # Person => IsShown(draft[n]) /\ Base(draft[n]) = n - 1

ApplicationsHold ==
  \A k \in DOMAIN applications : IsLanded(applications[k].proposal, applications[k].revision)

AppliedIsLanded ==
  \A i \in DOMAIN journal : journal[i].kind = "proposal.applied" =>
    IsLanded(journal[i].proposal, journal[i].revision)

\* The turn of the segment is not one whose application is complete, unless it is
\* this segment that completed it.
AppliedOnce ==
  \A o \in CompletedOps : o.kind = "proposal.apply" =>
    /\ Base(o.proposal) \in 0 .. (Current - 1)
    /\ seg.pc \in OfTurnRead \ {"landFact", "succeed"} => seg.turn # o.proposal.turn

SegmentHolds ==
  /\ DOMAIN seg = DOMAIN Idle /\ "revision" \in DOMAIN seg.turn
  /\ seg.pc \in {"idle", "pin", "read"} \cup OfTurnRead
  /\ At("readDone") /\ seg.replay => IsRead(seg.turn)
  /\ seg.pc \in {"readFact"} \cup FromContext => IsRead(seg.turn)
  /\ seg.pc \in FromTurn => Journaled(Selected(seg.turn))
  /\ seg.pc \in FromProduced => IsOf(seg.proposal, seg.turn)
  /\ seg.pc \in FromPreview => Journaled(Produced(seg.proposal))
  /\ At("previewDone") /\ seg.replay => PreviewOp(seg.proposal) \in CompletedOps
  /\ seg.pc \in FromPreviewFact => PreviewOp(seg.proposal) \in CompletedOps
  /\ seg.pc \in {"land", "landDone"} => ~seg.replay
  /\ seg.pc \in Landing => IsApplied(DerivedKey(seg.proposal), seg.proposal)
  /\ At("succeed") =>
       Journaled(Applied(seg.proposal, applications[DerivedKey(seg.proposal)].revision))

AppHolds ==
  /\ DOMAIN app = DOMAIN IdleApp
  /\ app.pc \in {"idle", "land", "look", "audit"}
  /\ app.pc # "idle" => IsShown(app.proposal)
  /\ app.pc \in {"look", "audit"} => IsApplied(app.key, app.proposal)

SuccessIsApplied ==
  job.state = "succeeded" =>
    \E n \in DOMAIN draft : draft[n] # Person /\ Journaled(Applied(draft[n], n))

StoreHolds ==
  /\ OperationsTyped /\ IsSequence(journal) /\ IsSequence(draft) /\ DOMAIN job = DOMAIN NoJob
  /\ ArtifactsHold /\ DraftHolds /\ ApplicationsHold /\ AppliedIsLanded
  /\ \A p \in ready \cup offered : IsShown(p)

AssistantIInv ==
  StoreHolds /\ AppliedOnce /\ SegmentHolds /\ AppHolds /\ SuccessIsApplied

\* What the journal, the operations and the draft hold stays.
JobGrows ==
  /\ OperationsTyped' /\ IsSequence(journal') /\ DOMAIN job' = DOMAIN NoJob
  /\ \A i \in DOMAIN journal : i \in DOMAIN journal' /\ journal'[i] = journal[i]
  /\ CompletedOps \subseteq CompletedOps'
  /\ job'.state = "succeeded" => job.state = "succeeded" \/ At("succeed")

JobFits == OperationsTyped /\ IsSequence(journal) /\ DOMAIN job = DOMAIN NoJob

\* All that is journaled by a step.
OnlyJournals(fact) == \A i \in DOMAIN journal' : i \in DOMAIN journal \/ journal'[i] = fact
NothingApplied ==
  \A i \in DOMAIN journal' : i \in DOMAIN journal \/ journal'[i].kind # "proposal.applied"

LEMMA AppendedOne ==
  ASSUME IsSequence(journal), NEW fact, journal' = Append(journal, fact)
  PROVE  /\ IsSequence(journal') /\ OnlyJournals(fact) /\ Journaled(fact)'
         /\ \A i \in DOMAIN journal : i \in DOMAIN journal' /\ journal'[i] = journal[i]
<1>1. /\ IsSequence(Append(journal, fact))
      /\ Len(journal) \in Nat /\ DOMAIN journal = 1..Len(journal)
      /\ DOMAIN Append(journal, fact) = 1..(Len(journal) + 1)
      /\ \A i \in 1..Len(journal) : Append(journal, fact)[i] = journal[i]
      /\ Append(journal, fact)[Len(journal) + 1] = fact
  BY AppendAny
<1>2. /\ DOMAIN journal' = 1..(Len(journal) + 1) /\ journal'[Len(journal) + 1] = fact
      /\ \A i \in 1..Len(journal) : journal'[i] = journal[i]
  BY <1>1
<1>3. Journaled(fact)'
  <2>1. Len(journal) + 1 \in DOMAIN journal'
    BY <1>1, <1>2
  <2> QED BY <1>2, <2>1 DEF Journaled
<1>4. OnlyJournals(fact)
  BY <1>1, <1>2 DEF OnlyJournals
<1> QED BY <1>1, <1>2, <1>3, <1>4

LEMMA BumpedShape ==
  ASSUME DOMAIN job = DOMAIN NoJob
  PROVE  DOMAIN Bumped = DOMAIN NoJob /\ Bumped.state = job.state
BY DEF Bumped, NoJob

LEMMA CheckpointGrows ==
  ASSUME JobFits, NEW version, NEW fact, AppendCheckpoint(version, fact)
  PROVE  /\ JobGrows /\ OnlyJournals(fact) /\ Journaled(fact)'
         /\ CompletedOps' = CompletedOps /\ job'.state = job.state
<1>1. /\ IsSequence(journal') /\ OnlyJournals(fact) /\ Journaled(fact)'
      /\ \A i \in DOMAIN journal : i \in DOMAIN journal' /\ journal'[i] = journal[i]
  BY AppendedOne DEF JobFits, AppendCheckpoint
<1>2. ops' = ops /\ DOMAIN job' = DOMAIN NoJob /\ job'.state = job.state
  BY BumpedShape DEF JobFits, AppendCheckpoint
<1>3. OperationsTyped' /\ CompletedOps' = CompletedOps
  BY <1>2 DEF JobFits, OperationsTyped, CompletedOps, Reserved
<1> QED BY <1>1, <1>2, <1>3 DEF JobGrows

LEMMA TransitionGrows ==
  ASSUME JobFits, NEW version, NEW to \in States, Transition(version, to),
         to = "succeeded" => At("succeed")
  PROVE  /\ JobGrows /\ NothingApplied /\ CompletedOps' = CompletedOps /\ job'.state = to
<1>1. ops' = ops /\ DOMAIN job' = DOMAIN NoJob /\ job'.state = to
  <2> DEFINE moved == [Bumped EXCEPT !.state = to]
  <2>1. DOMAIN moved = DOMAIN NoJob /\ moved.state = to
    BY BumpedShape DEF JobFits, NoJob
  <2>2. job' = IF job.state = "paused_budget" /\ to = "running"
               THEN [moved EXCEPT !.calls = 0, !.active = 0] ELSE moved
    BY DEF Transition, WithState
  <2> HIDE DEF moved
  <2>3. DOMAIN job' = DOMAIN NoJob /\ job'.state = to
    BY <2>1, <2>2 DEF NoJob
  <2> QED BY <2>3 DEF Transition
<1>2. \/ TransitionFact(to) = <<>>
      \/ \E kind \in LifecycleKinds : TransitionFact(to) = <<Fact(kind)>>
  BY DEF TransitionFact, LifecycleKinds
<1>3. /\ IsSequence(journal') /\ NothingApplied
      /\ \A i \in DOMAIN journal : i \in DOMAIN journal' /\ journal'[i] = journal[i]
  <2>1. PICK S : journal \in Seq(S)
    BY DEF JobFits, IsSequence
  <2>2. CASE TransitionFact(to) = <<>>
    <3>1. journal' = journal
      BY <2>1, <2>2, ConcatEmptySeq DEF Transition
    <3> QED BY <3>1 DEF JobFits, NothingApplied
  <2>3. CASE \E kind \in LifecycleKinds : TransitionFact(to) = <<Fact(kind)>>
    <3>1. PICK kind \in LifecycleKinds : TransitionFact(to) = <<Fact(kind)>>
      BY <2>3
    <3> DEFINE fact == Fact(kind)
    <3>2. fact.kind # "proposal.applied"
      BY DEF Fact, LifecycleKinds
    <3> HIDE DEF fact
    <3>3. journal \in Seq(S \cup {fact}) /\ fact \in S \cup {fact}
      BY <2>1, SeqMonotonic
    <3>4. journal \o <<fact>> = Append(journal, fact)
      BY <3>3
    <3>5. journal' = Append(journal, fact)
      BY <3>1, <3>4 DEF Transition, fact
    <3> QED BY <3>2, <3>5, AppendedOne DEF JobFits, NothingApplied, OnlyJournals
  <2> QED BY <1>2, <2>2, <2>3
<1>4. OperationsTyped' /\ CompletedOps' = CompletedOps
  BY <1>1 DEF JobFits, OperationsTyped, CompletedOps, Reserved
<1> QED BY <1>1, <1>3, <1>4 DEF JobGrows

LEMMA ReserveGrows ==
  ASSUME JobFits, NEW version, NEW id, Reserve(version, id, Hash)
  PROVE  /\ JobGrows /\ journal' = journal /\ CompletedOps' = CompletedOps
         /\ job'.state = job.state
<1>1. journal' = journal /\ DOMAIN job' = DOMAIN NoJob /\ job'.state = job.state
  BY BumpedShape DEF JobFits, Reserve, NoJob
<1>2. /\ id \notin Reserved /\ Reserved' = Reserved \cup {id}
      /\ \A o \in Reserved : ops'[o] = ops[o]
      /\ ops'[id] = [request |-> Hash, status |-> "pending"]
      /\ OperationsTyped'
  BY DEF JobFits, Reserve, Reserved, OperationsTyped
<1>3. CompletedOps' = CompletedOps
  BY <1>2 DEF CompletedOps
<1> QED BY <1>1, <1>2, <1>3 DEF JobGrows, JobFits

LEMMA CompleteGrows ==
  ASSUME JobFits, NEW id, NEW time, Complete(id, Hash, time)
  PROVE  /\ JobGrows /\ NothingApplied /\ CompletedOps' = CompletedOps \cup {id}
         /\ job'.state \in {job.state, "paused_budget"}
<1>1. /\ id \in Reserved /\ ops[id].status = "pending"
      /\ ops' = [ops EXCEPT ![id].status = "completed"]
  BY DEF Complete, Known
<1>2. /\ Reserved' = Reserved /\ ops'[id].status = "completed"
      /\ \A o \in Reserved : o # id => ops'[o] = ops[o]
      /\ OperationsTyped'
  BY <1>1 DEF JobFits, OperationsTyped, Reserved
<1>3. CompletedOps' = CompletedOps \cup {id}
  BY <1>1, <1>2 DEF CompletedOps
<1>4. \/ journal' = journal
      \/ journal' = Append(journal, Fact("budget.paused"))
  BY DEF Complete
<1>5. /\ DOMAIN job' = DOMAIN NoJob /\ job'.state \in {job.state, "paused_budget"}
  BY BumpedShape DEF JobFits, Complete, NoJob
<1>6. /\ IsSequence(journal') /\ NothingApplied
      /\ \A i \in DOMAIN journal : i \in DOMAIN journal' /\ journal'[i] = journal[i]
  <2>1. CASE journal' = journal
    BY <2>1 DEF JobFits, NothingApplied
  <2>2. CASE journal' = Append(journal, Fact("budget.paused"))
    <3>1. Fact("budget.paused").kind # "proposal.applied"
      BY DEF Fact
    <3> QED BY <2>2, <3>1, AppendedOne DEF JobFits, NothingApplied, OnlyJournals
  <2> QED BY <1>4, <2>1, <2>2
<1> QED BY <1>2, <1>3, <1>5, <1>6 DEF JobGrows

LEMMA NoJobStep ==
  ASSUME JobFits, UNCHANGED jobVars
  PROVE  /\ JobGrows /\ NothingApplied /\ CompletedOps' = CompletedOps /\ job'.state = job.state
         /\ journal' = journal
BY DEF JobFits, JobGrows, NothingApplied, jobVars, CompletedOps, Reserved, OperationsTyped

Grows ==
  /\ JobGrows /\ IsSequence(draft') /\ Current <= Current'
  /\ \A n \in DOMAIN draft : n \in DOMAIN draft' /\ draft'[n] = draft[n]
  /\ \A k \in DOMAIN applications : k \in DOMAIN applications' /\ applications'[k] = applications[k]

LEMMA WhatStays ==
  ASSUME Grows
  PROVE  /\ \A fact : Journaled(fact) => Journaled(fact)'
         /\ \A p : IsShown(p) => IsShown(p)'
         /\ \A turn : IsRead(turn) => IsRead(turn)'
         /\ \A p, n : IsLanded(p, n) => IsLanded(p, n)'
         /\ \A p, key : IsApplied(key, p) => IsApplied(key, p)'
         /\ \A o : o \in CompletedOps => o \in CompletedOps'
<1>1. \A fact : Journaled(fact) => Journaled(fact)'
  <2>1. SUFFICES ASSUME NEW fact, Journaled(fact) PROVE Journaled(fact)'
    OBVIOUS
  <2>2. PICK i \in DOMAIN journal : journal[i] = fact
    BY <2>1 DEF Journaled
  <2> QED BY <2>2 DEF Journaled, Grows, JobGrows
<1>2. \A o : o \in CompletedOps => o \in CompletedOps'
  BY DEF Grows, JobGrows
<1>3. \A p : IsShown(p) => IsShown(p)'
  BY <1>1, <1>2 DEF IsShown, Produced, PreviewOp
<1>4. \A turn : IsRead(turn) => IsRead(turn)'
  BY <1>2 DEF IsRead, ReadOp
<1>5. \A p, n : IsLanded(p, n) => IsLanded(p, n)'
  BY DEF IsLanded, Grows
<1>6. \A p, key : IsApplied(key, p) => IsApplied(key, p)'
  BY DEF IsApplied, Grows
<1> QED BY <1>1, <1>2, <1>3, <1>4, <1>5, <1>6

LEMMA DraftStays ==
  ASSUME StoreHolds, JobGrows, UNCHANGED <<draft, applications>>
  PROVE  Grows /\ DraftHolds' /\ ApplicationsHold' /\ Current \in Nat
<1>1. Current' = Current /\ Current \in Nat
  <2>1. PICK S : draft \in Seq(S)
    BY DEF StoreHolds, IsSequence
  <2> QED BY <2>1, LenProperties DEF Current
<1>2. Grows
  BY <1>1 DEF Grows, StoreHolds
<1>3. DraftHolds'
  <2>1. SUFFICES ASSUME NEW n \in DOMAIN draft, draft[n] # Person
                 PROVE  IsShown(draft[n])' /\ Base(draft[n]) = n - 1
    BY DEF DraftHolds, Base
  <2>2. IsShown(draft[n]) /\ Base(draft[n]) = n - 1
    BY <2>1 DEF StoreHolds, DraftHolds
  <2>3. PICK p : p = draft[n]
    OBVIOUS
  <2>4. draft'[n] = p
    BY <2>3
  <2>5. IsShown(p)'
    BY <1>2, <2>2, <2>3, WhatStays
  <2> QED BY <2>2, <2>4, <2>5 DEF IsShown
<1>4. ApplicationsHold'
  BY DEF StoreHolds, ApplicationsHold, IsLanded
<1> QED BY <1>1, <1>2, <1>3, <1>4

LEMMA ArtifactsStay ==
  ASSUME StoreHolds, Grows, UNCHANGED artifacts
  PROVE  ArtifactsHold'
<1>1. SUFFICES ASSUME NEW t \in DOMAIN artifacts
               PROVE  IsRead(t)' /\ Journaled(Selected(t))' /\ IsOf(artifacts[t], t)
  BY DEF ArtifactsHold, IsOf
<1>2. IsRead(t) /\ Journaled(Selected(t)) /\ IsOf(artifacts[t], t)
  BY DEF StoreHolds, ArtifactsHold
<1> QED BY <1>2, WhatStays

LEMMA OffersStay ==
  ASSUME StoreHolds, Grows, ready' \cup offered' \subseteq ready \cup offered
  PROVE  \A p \in ready' \cup offered' : IsShown(p)'
BY WhatStays DEF StoreHolds

LEMMA LandingsStay ==
  ASSUME StoreHolds, Grows, NothingApplied
  PROVE  AppliedIsLanded'
<1>1. SUFFICES ASSUME NEW i \in DOMAIN journal', journal'[i].kind = "proposal.applied"
               PROVE  IsLanded(journal[i].proposal, journal[i].revision)'
  BY DEF AppliedIsLanded
<1>2. i \in DOMAIN journal /\ journal'[i] = journal[i]
  BY <1>1 DEF NothingApplied, Grows, JobGrows
<1>3. PICK fact : fact = journal[i]
  OBVIOUS
<1>4. IsLanded(fact.proposal, fact.revision)
  BY <1>1, <1>2, <1>3 DEF StoreHolds, AppliedIsLanded
<1>5. IsLanded(fact.proposal, fact.revision)'
  BY <1>4, WhatStays
<1> QED BY <1>2, <1>3, <1>5 DEF IsLanded

LEMMA AppStays ==
  ASSUME AppHolds, Grows, UNCHANGED app
  PROVE  AppHolds'
<1>1. PICK p : p = app.proposal
  OBVIOUS
<1>2. PICK key : key = app.key
  OBVIOUS
<1>3. app.pc # "idle" => IsShown(p)'
  BY <1>1, WhatStays DEF AppHolds
<1>4. app.pc \in {"look", "audit"} => IsApplied(key, p)'
  BY <1>1, <1>2, WhatStays DEF AppHolds
<1> QED BY <1>1, <1>2, <1>3, <1>4 DEF AppHolds, IsShown, IsApplied

LEMMA SuccessStays ==
  ASSUME SuccessIsApplied, Grows, job'.state = "succeeded" => job.state = "succeeded"
  PROVE  SuccessIsApplied'
<1>1. SUFFICES ASSUME job'.state = "succeeded"
               PROVE  \E n \in DOMAIN draft' :
                        draft'[n] # Person /\ Journaled(Applied(draft[n], n))'
  BY DEF SuccessIsApplied
<1>2. PICK n \in DOMAIN draft : draft[n] # Person /\ Journaled(Applied(draft[n], n))
  BY <1>1 DEF SuccessIsApplied
<1>3. PICK p : p = draft[n]
  OBVIOUS
<1>4. draft'[n] = p /\ n \in DOMAIN draft'
  BY <1>3 DEF Grows
<1>5. Journaled(Applied(p, n))'
  BY <1>2, <1>3, WhatStays
<1> QED BY <1>2, <1>3, <1>4, <1>5 DEF Journaled

\* The segment does not move while somebody else does.
LEMMA SegmentStays ==
  ASSUME SegmentHolds, Grows, UNCHANGED seg
  PROVE  SegmentHolds'
<1>1. PICK t : t = seg.turn
  OBVIOUS
<1>2. PICK p : p = seg.proposal
  OBVIOUS
<1>3. /\ IsRead(t) => IsRead(t)'
      /\ Journaled(Selected(t)) => Journaled(Selected(t))'
      /\ Journaled(Produced(p)) => Journaled(Produced(p))'
      /\ PreviewOp(p) \in CompletedOps => PreviewOp(p) \in CompletedOps'
      /\ IsApplied(DerivedKey(p), p) => IsApplied(DerivedKey(p), p)'
  BY WhatStays
<1>4. At("succeed") => Journaled(Applied(p, applications[DerivedKey(p)].revision))'
  <2>1. SUFFICES ASSUME At("succeed")
                 PROVE  Journaled(Applied(p, applications[DerivedKey(p)].revision))'
    OBVIOUS
  <2>2. IsApplied(DerivedKey(p), p)
    BY <1>2, <2>1 DEF SegmentHolds, At, Landing
  <2>3. PICK a : a = applications[DerivedKey(p)]
    OBVIOUS
  <2>4. applications'[DerivedKey(p)] = a
    BY <2>2, <2>3 DEF IsApplied, Grows
  <2>5. Journaled(Applied(p, a.revision))'
    BY <1>2, <2>1, <2>3, WhatStays DEF SegmentHolds
  <2> QED BY <2>4, <2>5 DEF Journaled, Applied
<1>5. /\ seg' = seg /\ DOMAIN seg = DOMAIN Idle /\ "revision" \in DOMAIN t
      /\ seg.pc \in {"idle", "pin", "read"} \cup OfTurnRead
      /\ At("readDone") /\ seg.replay => IsRead(t)'
      /\ seg.pc \in {"readFact"} \cup FromContext => IsRead(t)'
      /\ seg.pc \in FromTurn => Journaled(Selected(t))'
      /\ seg.pc \in FromProduced => IsOf(p, t)
      /\ seg.pc \in FromPreview => Journaled(Produced(p))'
      /\ At("previewDone") /\ seg.replay => PreviewOp(p) \in CompletedOps'
      /\ seg.pc \in FromPreviewFact => PreviewOp(p) \in CompletedOps'
      /\ seg.pc \in {"land", "landDone"} => ~seg.replay
      /\ seg.pc \in Landing => IsApplied(DerivedKey(p), p)'
  BY <1>1, <1>2, <1>3 DEF SegmentHolds
<1> QED BY <1>1, <1>2, <1>4, <1>5 DEF SegmentHolds, At, IsRead, Journaled, Selected, Produced,
           IsApplied, IsOf, Applied, ReadOp, PreviewOp, DerivedKey

\* No application is completed, and the segment does not take a turn.
LEMMA OnceStays ==
  ASSUME AppliedOnce, Grows, Current \in Nat, Current' \in Nat,
         \A o \in CompletedOps' : o \in CompletedOps \/ o.kind # "proposal.apply",
         seg'.pc \in OfTurnRead \ {"landFact", "succeed"} =>
           seg.pc \in OfTurnRead \ {"landFact", "succeed"} /\ seg'.turn = seg.turn
  PROVE  AppliedOnce'
<1>1. SUFFICES ASSUME NEW o \in CompletedOps', o.kind = "proposal.apply"
               PROVE  /\ Base(o.proposal) \in 0 .. (Current' - 1)
                      /\ seg'.pc \in OfTurnRead \ {"landFact", "succeed"} =>
                           seg'.turn # o.proposal.turn
  BY DEF AppliedOnce, Base
<1>2. o \in CompletedOps
  BY <1>1
<1>3. /\ Base(o.proposal) \in 0 .. (Current - 1)
      /\ seg.pc \in OfTurnRead \ {"landFact", "succeed"} => seg.turn # o.proposal.turn
  BY <1>1, <1>2 DEF AppliedOnce
<1>4. Base(o.proposal) \in 0 .. (Current' - 1)
  BY <1>3 DEF Grows
<1> QED BY <1>3, <1>4

\* A step of the segment beside which nothing else happens, and no step of the segment.
OnlySegment == UNCHANGED <<draft, applications, artifacts, ready, offered, app>>
NoApplicationCompleted == \A o \in CompletedOps' : o \in CompletedOps \/ o.kind # "proposal.apply"
NoTurnTaken ==
  seg'.pc \in OfTurnRead \ {"landFact", "succeed"} =>
    seg.pc \in OfTurnRead \ {"landFact", "succeed"} /\ seg'.turn = seg.turn

LEMMA SegmentStepKeeps ==
  ASSUME AssistantIInv, JobGrows, NothingApplied, OnlySegment, NoApplicationCompleted,
         NoTurnTaken, job'.state = "succeeded" => job.state = "succeeded", SegmentHolds'
  PROVE  AssistantIInv'
<1>1. /\ StoreHolds /\ AppliedOnce /\ AppHolds /\ SuccessIsApplied
      /\ draft' = draft /\ applications' = applications /\ artifacts' = artifacts
      /\ ready' = ready /\ offered' = offered /\ app' = app
  BY DEF AssistantIInv, OnlySegment
<1>2. Grows /\ DraftHolds' /\ ApplicationsHold' /\ Current \in Nat
  BY <1>1, DraftStays
<1>3. ArtifactsHold' /\ AppliedIsLanded' /\ AppHolds' /\ SuccessIsApplied'
  BY <1>1, <1>2, ArtifactsStay, LandingsStay, AppStays, SuccessStays
<1>4. \A p \in ready' \cup offered' : IsShown(p)'
  BY <1>1, <1>2, OffersStay
<1>5. Current' = Current
  BY <1>1 DEF Current
<1>6. AppliedOnce'
  BY <1>1, <1>2, <1>5, OnceStays DEF NoTurnTaken, NoApplicationCompleted
<1>7. StoreHolds'
  BY <1>1, <1>2, <1>3, <1>4 DEF StoreHolds, JobGrows
<1> QED BY <1>3, <1>6, <1>7 DEF AssistantIInv

\* The segment is over.
LEMMA SegmentEnds ==
  ASSUME NEW answer, seg' = [Idle EXCEPT !.answer = answer] \/ seg' = Idle
  PROVE  SegmentHolds' /\ NoTurnTaken /\ seg'.pc = "idle"
<1>1. /\ DOMAIN seg' = DOMAIN Idle /\ seg'.pc = "idle" /\ "revision" \in DOMAIN seg'.turn
  BY DEF Idle, NoTurn
<1>2. SegmentHolds'
  BY <1>1 DEF SegmentHolds, At, FromContext, FromTurn, FromProduced, FromPreview,
              FromPreviewFact, Landing, OfTurnRead
<1>3. NoTurnTaken
  BY <1>1 DEF NoTurnTaken, OfTurnRead, FromContext
<1> QED BY <1>1, <1>2, <1>3

LEMMA FitsOf ==
  ASSUME AssistantIInv
  PROVE  JobFits
BY DEF AssistantIInv, StoreHolds, JobFits

LEMMA EndKeeps ==
  ASSUME AssistantIInv, OnlySegment, UNCHANGED jobVars, NEW kind, NEW record, End(kind, record)
  PROVE  AssistantIInv'
<1>1. SegmentHolds' /\ NoTurnTaken
  BY SegmentEnds DEF End
<1>2. /\ JobGrows /\ NothingApplied /\ CompletedOps' = CompletedOps /\ job'.state = job.state
  BY FitsOf, NoJobStep
<1> QED BY <1>1, <1>2, SegmentStepKeeps DEF NoApplicationCompleted

LEMMA FailKeeps ==
  ASSUME AssistantIInv, OnlySegment, Fail
  PROVE  AssistantIInv'
<1>1. SegmentHolds' /\ NoTurnTaken
  BY SegmentEnds DEF End, Fail
<1>2. CASE UNCHANGED jobVars
  <2>1. /\ JobGrows /\ NothingApplied /\ CompletedOps' = CompletedOps /\ job'.state = job.state
    BY <1>2, FitsOf, NoJobStep
  <2> QED BY <1>1, <2>1, SegmentStepKeeps DEF NoApplicationCompleted
<1>3. CASE Transition(job.version, "failed")
  <2>1. /\ JobGrows /\ NothingApplied /\ CompletedOps' = CompletedOps /\ job'.state = "failed"
    BY <1>3, FitsOf, TransitionGrows DEF States, Terminal
  <2> QED BY <1>1, <2>1, SegmentStepKeeps DEF NoApplicationCompleted
<1> QED BY <1>2, <1>3 DEF Fail

LEMMA ConflictKeeps ==
  ASSUME AssistantIInv, OnlySegment, Conflict
  PROVE  AssistantIInv'
BY EndKeeps DEF Conflict

\* The segment goes on to a place of which nothing more is asked than what is given here.
LEMMA MovedOn ==
  ASSUME SegmentHolds, NEW pc, NEW record, Goto(pc, record)
  PROVE  /\ DOMAIN seg' = DOMAIN Idle /\ seg'.pc = pc /\ seg'.turn = seg.turn
         /\ "revision" \in DOMAIN seg'.turn
         /\ seg'.proposal = seg.proposal /\ seg'.replay = seg.replay
BY DEF SegmentHolds, Goto, Idle

SegmentGoes(pc) ==
  DOMAIN seg' = DOMAIN Idle /\ seg'.pc = pc /\ seg'.turn = seg.turn /\ seg'.proposal = seg.proposal

LEMMA CarriedOver ==
  ASSUME SegmentHolds, Grows, NEW pc, SegmentGoes(pc)
  PROVE  /\ ("revision" \in DOMAIN seg.turn)'
         /\ seg.pc \in {"readFact"} \cup FromContext => IsRead(seg.turn)'
         /\ seg.pc \in FromTurn => Journaled(Selected(seg.turn))'
         /\ seg.pc \in FromProduced => IsOf(seg.proposal, seg.turn)'
         /\ seg.pc \in FromPreview => Journaled(Produced(seg.proposal))'
         /\ seg.pc \in FromPreviewFact => (PreviewOp(seg.proposal) \in CompletedOps)'
         /\ seg.pc \in Landing => IsApplied(DerivedKey(seg.proposal), seg.proposal)'
<1>1. PICK t : t = seg.turn
  OBVIOUS
<1>2. PICK p : p = seg.proposal
  OBVIOUS
<1>3. seg'.turn = t /\ seg'.proposal = p
  BY <1>1, <1>2 DEF SegmentGoes
<1>4. /\ "revision" \in DOMAIN t
      /\ seg.pc \in {"readFact"} \cup FromContext => IsRead(t)'
      /\ seg.pc \in FromTurn => Journaled(Selected(t))'
      /\ seg.pc \in FromProduced => IsOf(p, t)
      /\ seg.pc \in FromPreview => Journaled(Produced(p))'
      /\ seg.pc \in FromPreviewFact => PreviewOp(p) \in CompletedOps'
      /\ seg.pc \in Landing => IsApplied(DerivedKey(p), p)'
  BY <1>1, <1>2, WhatStays DEF SegmentHolds
<1>5. seg.pc \in {"readFact"} \cup FromContext => IsRead(seg.turn)'
  BY <1>3, <1>4 DEF IsRead, ReadOp
<1>6. seg.pc \in FromTurn => Journaled(Selected(seg.turn))'
  BY <1>3, <1>4 DEF Journaled, Selected
<1>7. seg.pc \in FromProduced => IsOf(seg.proposal, seg.turn)'
  BY <1>3, <1>4 DEF IsOf
<1>8. seg.pc \in FromPreview => Journaled(Produced(seg.proposal))'
  BY <1>3, <1>4 DEF Journaled, Produced
<1>9. seg.pc \in FromPreviewFact => (PreviewOp(seg.proposal) \in CompletedOps)'
  BY <1>3, <1>4 DEF PreviewOp
<1>10. seg.pc \in Landing => IsApplied(DerivedKey(seg.proposal), seg.proposal)'
  BY <1>3, <1>4 DEF IsApplied, DerivedKey
<1> QED BY <1>3, <1>4, <1>5, <1>6, <1>7, <1>8, <1>9, <1>10

\* A fact is journaled and the segment goes on, or the job has moved and it ends.
LEMMA JournalMoves ==
  ASSUME AssistantIInv, NEW fact, NEW pc, Journal(fact, pc)
  PROVE  \/ Conflict
         \/ /\ JobGrows /\ OnlyJournals(fact) /\ Journaled(fact)'
            /\ CompletedOps' = CompletedOps /\ job'.state = job.state
            /\ SegmentGoes(pc) /\ seg'.replay = seg.replay
<1>1. CASE AppendCheckpoint(seg.job.version, fact) /\ Goto(pc, job')
  <2>1. PICK record : record = job'
    OBVIOUS
  <2>2. Goto(pc, record)
    BY <1>1, <2>1 DEF Goto
  <2> QED BY <1>1, <2>2, FitsOf, CheckpointGrows, MovedOn DEF AssistantIInv, SegmentGoes
<1> QED BY <1>1 DEF Journal

\* The same, when nothing is to be done of the job.
LEMMA GotoMoves ==
  ASSUME AssistantIInv, NEW pc, UNCHANGED jobVars, Goto(pc, seg.job) \/ Goto(pc, job)
  PROVE  /\ JobGrows /\ NothingApplied /\ CompletedOps' = CompletedOps /\ job'.state = job.state
         /\ journal' = journal /\ SegmentGoes(pc) /\ seg'.replay = seg.replay
<1>1. PICK record : Goto(pc, record)
  OBVIOUS
<1> QED BY <1>1, FitsOf, NoJobStep, MovedOn DEF AssistantIInv, SegmentGoes

Places == OfTurnRead \cup {"idle", "pin", "read"}
LEMMA PlacesAre ==
  /\ Places = {"idle", "pin", "read", "readDone", "readFact", "context", "turn", "tool", "answer",
               "produced", "preview", "previewDone", "previewFact", "decide", "land", "landDone",
               "landFact", "succeed"}
  /\ FromTurn = FromContext \ {"context"}
  /\ FromPreview \subseteq FromProduced /\ FromProduced \subseteq FromTurn
BY DEF Places, OfTurnRead, FromContext, FromTurn, FromProduced, FromPreview

LEMMA PinKeeps ==
  ASSUME AssistantIInv, Pin
  PROVE  AssistantIInv'
<1>1. OnlySegment
  BY DEF Pin, Others, OnlySegment
<1>2. ASSUME JobGrows, NothingApplied, CompletedOps' = CompletedOps, job'.state = job.state,
             SegmentGoes("read")
      PROVE  AssistantIInv'
  <2>1. Grows
    BY <1>1, <1>2, DraftStays DEF AssistantIInv, OnlySegment
  <2>2. ("revision" \in DOMAIN seg.turn)'
    BY <1>2, <2>1, CarriedOver DEF AssistantIInv
  <2>3. SegmentHolds'
    BY <1>2, <2>2 DEF SegmentHolds, SegmentGoes, At, OfTurnRead, FromContext, FromTurn,
                      FromProduced, FromPreview, FromPreviewFact, Landing
  <2>4. NoTurnTaken
    BY <1>2 DEF NoTurnTaken, SegmentGoes, OfTurnRead, FromContext
  <2> QED BY <1>1, <1>2, <2>3, <2>4, SegmentStepKeeps DEF NoApplicationCompleted
<1>3. CASE Journal(Pinned, "read")
  <2>1. PICK fact : fact = Pinned
    OBVIOUS
  <2>2. fact.kind # "proposal.applied" /\ Journal(fact, "read")
    BY <1>3, <2>1 DEF Pinned, Journal
  <2>3. CASE Conflict
    BY <1>1, <2>3, ConflictKeeps
  <2>4. CASE ~Conflict
    BY <1>2, <2>2, <2>4, JournalMoves DEF NothingApplied, OnlyJournals
  <2> QED BY <2>3, <2>4
<1>4. CASE UNCHANGED jobVars /\ Goto("read", seg.job)
  BY <1>2, <1>4, GotoMoves
<1>5. CASE Fail
  BY <1>1, <1>5, FailKeeps
<1> QED BY <1>3, <1>4, <1>5 DEF Pin

SuccessKept == job'.state = "succeeded" => job.state = "succeeded"

\* An operation is reserved anew, or it was; or the segment ends.
LEMMA ReserveOpMoves ==
  ASSUME AssistantIInv, OnlySegment, NEW id, NEW pc, ReserveOp(id, pc)
  PROVE  \/ AssistantIInv'
         \/ /\ JobGrows /\ NothingApplied /\ CompletedOps' = CompletedOps /\ SuccessKept
            /\ SegmentGoes(pc)
            /\ seg'.replay => id \in CompletedOps
<1>1. CASE /\ Reserve(seg.job.version, id, Hash)
           /\ seg' = [seg EXCEPT !.pc = pc, !.job = job', !.replay = FALSE]
  <2>1. SegmentGoes(pc) /\ seg'.replay = FALSE
    BY <1>1 DEF AssistantIInv, SegmentHolds, SegmentGoes, Idle
  <2>2. /\ JobGrows /\ journal' = journal /\ CompletedOps' = CompletedOps /\ job'.state = job.state
    BY <1>1, FitsOf, ReserveGrows
  <2> QED BY <2>1, <2>2 DEF NothingApplied, SuccessKept
<1>2. CASE /\ id \in Reserved /\ UNCHANGED jobVars
           /\ seg' = [seg EXCEPT !.pc = pc, !.job = job, !.replay = id \in CompletedOps]
  <2>1. SegmentGoes(pc) /\ seg'.replay = (id \in CompletedOps)
    BY <1>2 DEF AssistantIInv, SegmentHolds, SegmentGoes, Idle
  <2>2. /\ JobGrows /\ NothingApplied /\ CompletedOps' = CompletedOps /\ job'.state = job.state
    BY <1>2, FitsOf, NoJobStep
  <2> QED BY <2>1, <2>2 DEF SuccessKept
<1>3. CASE UNCHANGED jobVars /\ End("paused_budget", job)
  BY <1>3, EndKeeps
<1>4. CASE Conflict
  BY <1>4, ConflictKeeps
<1> QED BY <1>1, <1>2, <1>3, <1>4 DEF ReserveOp

\* An operation is completed now, or it was.
LEMMA CompleteOpMoves ==
  ASSUME AssistantIInv, NEW id, NEW fresh, NEW replayed, CompleteOp(id, fresh, replayed)
  PROVE  /\ JobGrows /\ NothingApplied /\ SuccessKept
         /\ \/ /\ ~seg.replay /\ CompletedOps' = CompletedOps \cup {id} /\ SegmentGoes(fresh)
            \/ /\ seg.replay /\ CompletedOps' = CompletedOps /\ SegmentGoes(replayed)
<1>1. CASE ~seg.replay /\ Complete(id, Hash, 0) /\ Goto(fresh, job')
  <2>1. PICK record : record = job'
    OBVIOUS
  <2>2. Goto(fresh, record)
    BY <1>1, <2>1 DEF Goto
  <2>3. SegmentGoes(fresh)
    BY <2>2, MovedOn DEF AssistantIInv, SegmentGoes
  <2>4. /\ JobGrows /\ NothingApplied /\ CompletedOps' = CompletedOps \cup {id}
        /\ job'.state \in {job.state, "paused_budget"}
    BY <1>1, FitsOf, CompleteGrows
  <2> QED BY <1>1, <2>3, <2>4 DEF SuccessKept
<1>2. CASE seg.replay /\ UNCHANGED jobVars /\ Goto(replayed, seg.job)
  BY <1>2, GotoMoves DEF SuccessKept
<1> QED BY <1>1, <1>2 DEF CompleteOp

LEMMA GrowsOf ==
  ASSUME AssistantIInv, OnlySegment, JobGrows
  PROVE  Grows
BY DraftStays DEF AssistantIInv, OnlySegment

\* What is known of the segment when it gets to a place.
LEMMA Arrives ==
  ASSUME AssistantIInv, OnlySegment, JobGrows, NothingApplied, NoApplicationCompleted, SuccessKept,
         NEW pc \in Places, SegmentGoes(pc), NoTurnTaken,
         pc = "readDone" => (seg'.replay => IsRead(seg.turn)'),
         pc \in {"readFact"} \cup FromContext => IsRead(seg.turn)',
         pc \in FromTurn => Journaled(Selected(seg.turn))',
         pc \in FromProduced => IsOf(seg.proposal, seg.turn)',
         pc \in FromPreview => Journaled(Produced(seg.proposal))',
         pc = "previewDone" => (seg'.replay => (PreviewOp(seg.proposal) \in CompletedOps)'),
         pc \in FromPreviewFact => (PreviewOp(seg.proposal) \in CompletedOps)',
         pc \in {"land", "landDone"} => ~seg'.replay,
         pc \in Landing => IsApplied(DerivedKey(seg.proposal), seg.proposal)',
         pc = "succeed" =>
           Journaled(Applied(seg.proposal, applications[DerivedKey(seg.proposal)].revision))'
  PROVE  AssistantIInv'
<1>1. ("revision" \in DOMAIN seg.turn)'
  BY GrowsOf, CarriedOver DEF AssistantIInv
<1>2. DOMAIN seg' = DOMAIN Idle /\ seg'.pc = pc /\ pc \in {"idle", "pin", "read"} \cup OfTurnRead
  BY DEF SegmentGoes, Places
<1>3. SegmentHolds'
  BY <1>1, <1>2 DEF SegmentHolds, At
<1> QED BY <1>3, SegmentStepKeeps DEF SuccessKept

LEMMA ReadDraftKeeps ==
  ASSUME AssistantIInv, ReadDraft
  PROVE  AssistantIInv'
<1>1. OnlySegment
  BY DEF ReadDraft, Others, OnlySegment
<1> DEFINE turn == [seg.turn EXCEPT !.revision = Current]
           id == ReadOp(turn)
<1>2. "revision" \in DOMAIN turn /\ turn.revision = Current
  BY DEF AssistantIInv, SegmentHolds
<1>3. \/ /\ Reserve(seg.job.version, id, Hash)
         /\ seg' = [seg EXCEPT !.pc = "readDone", !.job = job', !.turn = turn, !.replay = FALSE]
      \/ /\ id \in Reserved /\ UNCHANGED jobVars
         /\ seg' = [seg EXCEPT !.pc = "readDone", !.job = job, !.turn = turn,
                               !.replay = id \in CompletedOps]
      \/ UNCHANGED jobVars /\ End("paused_budget", job)
      \/ Conflict
  BY DEF ReadDraft
<1> HIDE DEF turn
<1>4. ASSUME JobGrows, NothingApplied, CompletedOps' = CompletedOps, SuccessKept,
             DOMAIN seg' = DOMAIN Idle, seg'.pc = "readDone", seg'.turn = turn,
             seg'.replay => id \in CompletedOps
      PROVE  AssistantIInv'
  <2>1. SegmentHolds'
    <3>1. seg'.replay => IsRead(seg.turn)'
      BY <1>4 DEF IsRead
    <3> QED BY <1>2, <1>4, <3>1 DEF SegmentHolds, At, OfTurnRead, FromContext, FromTurn,
                 FromProduced, FromPreview, FromPreviewFact, Landing
  <2>2. /\ StoreHolds /\ AppliedOnce /\ AppHolds /\ SuccessIsApplied
        /\ draft' = draft /\ applications' = applications /\ artifacts' = artifacts
        /\ ready' = ready /\ offered' = offered /\ app' = app
    BY <1>1 DEF AssistantIInv, OnlySegment
  <2>3. Grows /\ DraftHolds' /\ ApplicationsHold' /\ Current \in Nat
    BY <1>4, <2>2, DraftStays
  <2>4. ArtifactsHold' /\ AppliedIsLanded' /\ AppHolds' /\ SuccessIsApplied'
    BY <1>4, <2>2, <2>3, ArtifactsStay, LandingsStay, AppStays, SuccessStays DEF SuccessKept
  <2>5. \A p \in ready' \cup offered' : IsShown(p)'
    BY <2>2, <2>3, OffersStay
  <2>6. AppliedOnce'
    <3>1. SUFFICES ASSUME NEW o \in CompletedOps, o.kind = "proposal.apply"
                   PROVE  Base(o.proposal) \in 0 .. (Current - 1) /\ turn # o.proposal.turn
      BY <1>4, <2>2 DEF AppliedOnce, Base, Current
    <3>2. Base(o.proposal) \in 0 .. (Current - 1)
      BY <2>2, <3>1 DEF AppliedOnce
    <3> QED BY <1>2, <2>3, <3>2 DEF Base
  <2>7. StoreHolds'
    BY <1>4, <2>2, <2>3, <2>4, <2>5 DEF StoreHolds, JobGrows
  <2> QED BY <2>1, <2>4, <2>6, <2>7 DEF AssistantIInv
<1>5. CASE /\ Reserve(seg.job.version, id, Hash)
           /\ seg' = [seg EXCEPT !.pc = "readDone", !.job = job', !.turn = turn, !.replay = FALSE]
  <2>1. DOMAIN seg' = DOMAIN Idle /\ seg'.pc = "readDone" /\ seg'.turn = turn /\ ~seg'.replay
    BY <1>5 DEF AssistantIInv, SegmentHolds, Idle
  <2>2. /\ JobGrows /\ journal' = journal /\ CompletedOps' = CompletedOps /\ job'.state = job.state
    BY <1>5, FitsOf, ReserveGrows
  <2> QED BY <1>4, <2>1, <2>2 DEF NothingApplied, SuccessKept
<1>6. CASE /\ id \in Reserved /\ UNCHANGED jobVars
           /\ seg' = [seg EXCEPT !.pc = "readDone", !.job = job, !.turn = turn,
                                 !.replay = id \in CompletedOps]
  <2>1. /\ DOMAIN seg' = DOMAIN Idle /\ seg'.pc = "readDone" /\ seg'.turn = turn
        /\ seg'.replay = (id \in CompletedOps)
    BY <1>6 DEF AssistantIInv, SegmentHolds, Idle
  <2>2. /\ JobGrows /\ NothingApplied /\ CompletedOps' = CompletedOps /\ job'.state = job.state
    BY <1>6, FitsOf, NoJobStep
  <2> QED BY <1>4, <2>1, <2>2 DEF SuccessKept
<1> QED BY <1>1, <1>3, <1>5, <1>6, EndKeeps, ConflictKeeps

\* The facts of a step that goes on, for Arrives.
Passes(pc) ==
  /\ OnlySegment /\ JobGrows /\ NothingApplied /\ NoApplicationCompleted /\ SuccessKept
  /\ SegmentGoes(pc)

LEMMA Passing ==
  ASSUME AssistantIInv, NEW pc \in Places, Passes(pc),
         seg.pc \in OfTurnRead \ {"landFact", "succeed"} \/ pc \notin OfTurnRead \ {"landFact", "succeed"}
  PROVE  /\ NoTurnTaken /\ Grows
         /\ seg.pc \in {"readFact"} \cup FromContext => IsRead(seg.turn)'
         /\ seg.pc \in FromTurn => Journaled(Selected(seg.turn))'
         /\ seg.pc \in FromProduced => IsOf(seg.proposal, seg.turn)'
         /\ seg.pc \in FromPreview => Journaled(Produced(seg.proposal))'
         /\ seg.pc \in FromPreviewFact => (PreviewOp(seg.proposal) \in CompletedOps)'
         /\ seg.pc \in Landing => IsApplied(DerivedKey(seg.proposal), seg.proposal)'
<1>1. Grows
  BY GrowsOf DEF Passes
<1>2. NoTurnTaken
  BY DEF Passes, SegmentGoes, NoTurnTaken
<1> QED BY <1>1, <1>2, CarriedOver DEF Passes, AssistantIInv

LEMMA CompleteReadKeeps ==
  ASSUME AssistantIInv, CompleteRead
  PROVE  AssistantIInv'
<1> DEFINE id == ReadOp(seg.turn)
<1>1. OnlySegment /\ seg.pc = "readDone" /\ CompleteOp(id, "readFact", "context")
  BY DEF CompleteRead, Others, OnlySegment, At
<1>2. PICK o : o = id
  OBVIOUS
<1>3. o.kind # "proposal.apply"
  BY <1>2 DEF ReadOp
<1>4. /\ JobGrows /\ NothingApplied /\ SuccessKept
      /\ \/ ~seg.replay /\ CompletedOps' = CompletedOps \cup {o} /\ SegmentGoes("readFact")
         \/ seg.replay /\ CompletedOps' = CompletedOps /\ SegmentGoes("context")
  BY <1>1, <1>2, CompleteOpMoves
<1>5. NoApplicationCompleted
  BY <1>3, <1>4 DEF NoApplicationCompleted
<1>6. o \in CompletedOps'
  BY <1>1, <1>2, <1>4 DEF AssistantIInv, SegmentHolds, At, IsRead
<1>7. IsRead(seg.turn)'
  BY <1>2, <1>4, <1>6 DEF IsRead, SegmentGoes, ReadOp
<1>8. ASSUME NEW pc \in {"readFact", "context"}, SegmentGoes(pc) PROVE AssistantIInv'
  <2>1. pc \in Places /\ NoTurnTaken
    BY <1>1, <1>8 DEF Places, OfTurnRead, FromContext, NoTurnTaken, SegmentGoes
  <2> QED BY <1>1, <1>4, <1>5, <1>7, <1>8, <2>1, Arrives
      DEF FromContext, FromTurn, FromProduced, FromPreview, FromPreviewFact, Landing
<1> QED BY <1>4, <1>8

LEMMA ReadFactKeeps ==
  ASSUME AssistantIInv, ReadFact
  PROVE  AssistantIInv'
<1>1. OnlySegment /\ seg.pc = "readFact" /\ Journal(Fact("draft.read"), "context")
  BY DEF ReadFact, Others, OnlySegment, At
<1>2. CASE Conflict
  BY <1>1, <1>2, ConflictKeeps
<1>3. CASE ~Conflict
  <2>1. Passes("context")
    BY <1>1, <1>3, JournalMoves
    DEF Passes, NothingApplied, OnlyJournals, Fact, NoApplicationCompleted, SuccessKept
  <2>2. "context" \in Places /\ NoTurnTaken /\ IsRead(seg.turn)'
    BY <1>1, <2>1, Passing DEF Places, OfTurnRead, FromContext
  <2> QED BY <2>1, <2>2, Arrives
      DEF Passes, FromContext, FromTurn, FromProduced, FromPreview, FromPreviewFact, Landing
<1> QED BY <1>2, <1>3

LEMMA SelectContextKeeps ==
  ASSUME AssistantIInv, SelectContext
  PROVE  AssistantIInv'
<1>1. PICK t : t = seg.turn
  OBVIOUS
<1>2. PICK fact : fact = Selected(t)
  OBVIOUS
<1>3. OnlySegment /\ seg.pc = "context" /\ JournalOnce(fact, "turn") /\ fact.kind # "proposal.applied"
  BY <1>1, <1>2 DEF SelectContext, Others, OnlySegment, At, Selected
<1>4. ASSUME Passes("turn"), Journaled(fact)' PROVE AssistantIInv'
  <2>1. "turn" \in Places /\ NoTurnTaken /\ IsRead(seg.turn)'
    BY <1>3, <1>4, Passing DEF Places, OfTurnRead, FromContext
  <2>2. Journaled(Selected(seg.turn))'
    BY <1>1, <1>2, <1>4 DEF Passes, SegmentGoes, Journaled, Selected
  <2> QED BY <1>4, <2>1, <2>2, Arrives
      DEF Passes, FromContext, FromTurn, FromProduced, FromPreview, FromPreviewFact, Landing
<1>5. CASE Journal(fact, "turn")
  <2>1. CASE Conflict
    BY <1>3, <2>1, ConflictKeeps
  <2>2. CASE ~Conflict
    BY <1>3, <1>4, <1>5, <2>2, JournalMoves
    DEF Passes, NothingApplied, OnlyJournals, NoApplicationCompleted, SuccessKept
  <2> QED BY <2>1, <2>2
<1>6. CASE Journaled(fact) /\ UNCHANGED jobVars /\ Goto("turn", seg.job)
  <2>1. Passes("turn") /\ journal' = journal
    BY <1>3, <1>6, GotoMoves DEF Passes, NoApplicationCompleted, SuccessKept
  <2>2. Journaled(fact)'
    BY <1>6, <2>1 DEF Journaled
  <2> QED BY <1>4, <2>1, <2>2
<1> QED BY <1>3, <1>5, <1>6 DEF JournalOnce

\* A proposal for the turn of the segment: saved before, or just now.
LEMMA ProposalTaken ==
  ASSUME AssistantIInv, seg.pc \in {"turn", "answer"}, UNCHANGED jobVars,
         UNCHANGED <<draft, applications, ready, offered, app>>,
         NEW p, IsOf(p, seg.turn), NEW record, UseProposal(p, record), ArtifactsHold'
  PROVE  AssistantIInv'
<1>1. /\ JobGrows /\ NothingApplied /\ CompletedOps' = CompletedOps /\ job'.state = job.state
      /\ journal' = journal
  BY FitsOf, NoJobStep
<1>2. /\ StoreHolds /\ AppliedOnce /\ AppHolds /\ SuccessIsApplied
  BY DEF AssistantIInv
<1>3. Grows /\ DraftHolds' /\ ApplicationsHold' /\ Current \in Nat /\ Current' = Current
  BY <1>1, <1>2, DraftStays DEF Current
<1>4. AppliedIsLanded' /\ AppHolds' /\ SuccessIsApplied' /\ \A q \in ready' \cup offered' : IsShown(q)'
  BY <1>1, <1>2, <1>3, LandingsStay, AppStays, SuccessStays, OffersStay
<1>5. /\ DOMAIN seg' = DOMAIN Idle /\ seg'.pc = "produced" /\ seg'.turn = seg.turn
      /\ seg'.proposal = p
  BY DEF AssistantIInv, SegmentHolds, UseProposal, Idle
<1>6. PICK t : t = seg.turn
  OBVIOUS
<1>7. /\ "revision" \in DOMAIN t /\ IsRead(t) /\ Journaled(Selected(t))
  BY <1>6 DEF AssistantIInv, SegmentHolds, FromContext, FromTurn
<1>8. IsRead(seg.turn)' /\ Journaled(Selected(seg.turn))' /\ IsOf(seg.proposal, seg.turn)'
  <2>1. IsRead(t)' /\ Journaled(Selected(t))'
    BY <1>3, <1>7, WhatStays
  <2> QED BY <1>5, <1>6, <2>1 DEF IsRead, ReadOp, Journaled, Selected, IsOf
<1>9. SegmentHolds'
  BY <1>5, <1>6, <1>7, <1>8 DEF SegmentHolds, At, OfTurnRead, FromContext, FromTurn,
     FromProduced, FromPreview, FromPreviewFact, Landing
<1>10. AppliedOnce'
  BY <1>1, <1>2, <1>3, <1>5, OnceStays DEF OfTurnRead, FromContext
<1>11. StoreHolds'
  BY <1>1, <1>3, <1>4 DEF StoreHolds, JobGrows, Grows
<1> QED BY <1>4, <1>9, <1>10, <1>11 DEF AssistantIInv

LEMMA AnswersKeep ==
  ASSUME AssistantIInv, seg.pc \in {"turn", "answer"}, Answers,
         UNCHANGED <<draft, applications, ready, offered, app>>
  PROVE  AssistantIInv'
<1>1. CASE Fail /\ UNCHANGED artifacts
  BY <1>1, FailKeeps DEF OnlySegment
<1>2. CASE UNCHANGED <<jobVars, artifacts>> /\ End("cancelled", job)
  BY <1>2, EndKeeps DEF OnlySegment
<1>3. CASE /\ UNCHANGED jobVars
           /\ \E body \in Bodies :
                LET p == [turn |-> seg.turn, body |-> body]
                IN  /\ artifacts' = [t \in DOMAIN artifacts \union {seg.turn} |->
                                       IF t = seg.turn THEN p ELSE artifacts[t]]
                    /\ UseProposal(p, seg.job)
  <2>1. PICK body \in Bodies :
          LET p == [turn |-> seg.turn, body |-> body]
          IN  /\ artifacts' = [t \in DOMAIN artifacts \union {seg.turn} |->
                                 IF t = seg.turn THEN p ELSE artifacts[t]]
              /\ UseProposal(p, seg.job)
    BY <1>3
  <2>2. PICK p : p = [turn |-> seg.turn, body |-> body]
    OBVIOUS
  <2>3. IsOf(p, seg.turn)
    BY <2>2 DEF IsOf
  <2>4. PICK record : record = seg.job
    OBVIOUS
  <2>5. UseProposal(p, record)
    BY <2>1, <2>2, <2>4
  <2>6. IsRead(seg.turn) /\ Journaled(Selected(seg.turn))
    BY DEF AssistantIInv, SegmentHolds, FromContext, FromTurn
  <2>7. ArtifactsHold'
    <3>1. SUFFICES ASSUME NEW t \in DOMAIN artifacts'
                   PROVE  IsRead(t)' /\ Journaled(Selected(t))' /\ IsOf(artifacts'[t], t)
      BY DEF ArtifactsHold, IsOf
    <3>2. IsRead(t) /\ Journaled(Selected(t)) /\ IsOf(artifacts'[t], t)
      <4>1. CASE t = seg.turn
        <5>1. artifacts'[t] = p
          BY <2>1, <2>2, <4>1
        <5> QED BY <2>3, <2>6, <4>1, <5>1
      <4>2. CASE t # seg.turn
        <5>1. t \in DOMAIN artifacts /\ artifacts'[t] = artifacts[t]
          BY <2>1, <4>2
        <5> QED BY <5>1 DEF AssistantIInv, StoreHolds, ArtifactsHold
      <4> QED BY <4>1, <4>2
    <3>3. Grows
      BY <1>3, FitsOf, NoJobStep, DraftStays DEF AssistantIInv
    <3> QED BY <3>2, <3>3, WhatStays
  <2> QED BY <1>3, <2>3, <2>5, <2>7, ProposalTaken
<1> QED BY <1>1, <1>2, <1>3 DEF Answers

LEMMA AskToolKeeps ==
  ASSUME AssistantIInv, seg.pc = "turn", AskTool, OnlySegment
  PROVE  AssistantIInv'
<1> DEFINE id == ToolOp(seg.turn)
<1>1. ASSUME NEW pc \in {"tool", "answer"}, Passes(pc) PROVE AssistantIInv'
  <2>1. /\ pc \in Places /\ NoTurnTaken /\ IsRead(seg.turn)' /\ Journaled(Selected(seg.turn))'
    BY <1>1, Passing DEF Places, OfTurnRead, FromContext, FromTurn
  <2> QED BY <1>1, <2>1, Arrives
      DEF Passes, FromContext, FromTurn, FromProduced, FromPreview, FromPreviewFact, Landing
<1>2. CASE Reserve(job.version, id, Hash) /\ Goto("tool", job')
  <2>1. PICK record : record = job'
    OBVIOUS
  <2>2. Goto("tool", record)
    BY <1>2, <2>1 DEF Goto
  <2>3. SegmentGoes("tool")
    BY <2>2, MovedOn DEF AssistantIInv, SegmentGoes
  <2>4. /\ JobGrows /\ journal' = journal /\ CompletedOps' = CompletedOps /\ job'.state = job.state
    BY <1>2, FitsOf, ReserveGrows
  <2> QED BY <1>1, <2>3, <2>4 DEF Passes, NothingApplied, NoApplicationCompleted, SuccessKept
<1>3. CASE UNCHANGED jobVars /\ Goto("answer", job)
  BY <1>1, <1>3, GotoMoves DEF Passes, NoApplicationCompleted, SuccessKept
<1>4. CASE UNCHANGED jobVars /\ End("paused_budget", job)
  BY <1>4, EndKeeps
<1>5. CASE Fail
  BY <1>5, FailKeeps
<1> QED BY <1>2, <1>3, <1>4, <1>5 DEF AskTool

LEMMA TurnKeeps ==
  ASSUME AssistantIInv, Turn
  PROVE  AssistantIInv'
<1>1. seg.pc = "turn" /\ UNCHANGED <<draft, applications, ready, offered, app>>
  BY DEF Turn, At
<1>2. CASE UNCHANGED <<jobVars, artifacts>> /\ End("paused_budget", seg.job)
  BY <1>1, <1>2, EndKeeps DEF OnlySegment
<1>3. CASE /\ seg.turn \in DOMAIN artifacts /\ UseProposal(artifacts[seg.turn], seg.job)
           /\ UNCHANGED <<jobVars, artifacts>>
  <2>1. PICK p : p = artifacts[seg.turn]
    OBVIOUS
  <2>2. PICK record : record = seg.job
    OBVIOUS
  <2>3. IsOf(p, seg.turn)
    BY <1>3, <2>1 DEF AssistantIInv, StoreHolds, ArtifactsHold
  <2>4. ArtifactsHold'
    BY <1>1, <1>3, FitsOf, NoJobStep, DraftStays, ArtifactsStay DEF AssistantIInv
  <2> QED BY <1>1, <1>3, <2>1, <2>2, <2>3, <2>4, ProposalTaken
<1>4. CASE Answers
  BY <1>1, <1>4, AnswersKeep
<1>5. CASE AskTool /\ UNCHANGED artifacts
  BY <1>1, <1>5, AskToolKeeps DEF OnlySegment
<1> QED BY <1>2, <1>3, <1>4, <1>5 DEF Turn

LEMMA SecondTurnKeeps ==
  ASSUME AssistantIInv, SecondTurn
  PROVE  AssistantIInv'
BY AnswersKeep DEF SecondTurn, At

LEMMA FinishToolKeeps ==
  ASSUME AssistantIInv, FinishTool
  PROVE  AssistantIInv'
<1>1. OnlySegment /\ seg.pc = "tool"
  BY DEF FinishTool, Others, OnlySegment, At
<1>2. PICK time \in Times : Complete(ToolOp(seg.turn), Hash, time)
  BY DEF FinishTool
<1>3. PICK o : o = ToolOp(seg.turn)
  OBVIOUS
<1>4. /\ JobGrows /\ NothingApplied /\ CompletedOps' = CompletedOps \cup {o} /\ SuccessKept
  BY <1>2, <1>3, FitsOf, CompleteGrows DEF SuccessKept
<1>5. o.kind # "proposal.apply"
  BY <1>3 DEF ToolOp
<1>6. NoApplicationCompleted
  BY <1>4, <1>5 DEF NoApplicationCompleted
<1>7. PICK record : record = job'
  OBVIOUS
<1>8. (\E kind : End(kind, record)) \/ Goto("answer", record)
  BY <1>7 DEF FinishTool, End, Goto
<1>9. CASE \E kind : End(kind, record)
  <2>1. SegmentHolds' /\ NoTurnTaken
    BY <1>9, SegmentEnds DEF End
  <2> QED BY <1>1, <1>4, <1>6, <2>1, SegmentStepKeeps DEF SuccessKept
<1>10. CASE Goto("answer", record)
  <2>1. Passes("answer")
    BY <1>1, <1>4, <1>6, <1>10, MovedOn DEF Passes, AssistantIInv, SegmentGoes
  <2>2. /\ "answer" \in Places /\ NoTurnTaken /\ IsRead(seg.turn)' /\ Journaled(Selected(seg.turn))'
    BY <1>1, <2>1, Passing DEF Places, OfTurnRead, FromContext, FromTurn
  <2> QED BY <2>1, <2>2, Arrives
      DEF Passes, FromContext, FromTurn, FromProduced, FromPreview, FromPreviewFact, Landing
<1> QED BY <1>8, <1>9, <1>10

LEMMA JournalProducedKeeps ==
  ASSUME AssistantIInv, JournalProduced
  PROVE  AssistantIInv'
<1>1. PICK p : p = seg.proposal
  OBVIOUS
<1>2. PICK fact : fact = Produced(p)
  OBVIOUS
<1>3. /\ OnlySegment /\ seg.pc = "produced" /\ JournalOnce(fact, "preview")
      /\ fact.kind # "proposal.applied"
  BY <1>1, <1>2 DEF JournalProduced, Others, OnlySegment, At, Produced
<1>4. ASSUME Passes("preview"), Journaled(fact)' PROVE AssistantIInv'
  <2>1. /\ "preview" \in Places /\ NoTurnTaken /\ IsRead(seg.turn)'
        /\ Journaled(Selected(seg.turn))' /\ IsOf(seg.proposal, seg.turn)'
    BY <1>3, <1>4, Passing DEF Places, OfTurnRead, FromContext, FromTurn, FromProduced
  <2>2. Journaled(Produced(seg.proposal))'
    BY <1>1, <1>2, <1>4 DEF Passes, SegmentGoes, Journaled, Produced
  <2> QED BY <1>4, <2>1, <2>2, Arrives
      DEF Passes, FromContext, FromTurn, FromProduced, FromPreview, FromPreviewFact, Landing
<1>5. CASE Journal(fact, "preview")
  <2>1. CASE Conflict
    BY <1>3, <2>1, ConflictKeeps
  <2>2. CASE ~Conflict
    BY <1>3, <1>4, <1>5, <2>2, JournalMoves
    DEF Passes, NothingApplied, OnlyJournals, NoApplicationCompleted, SuccessKept
  <2> QED BY <2>1, <2>2
<1>6. CASE Journaled(fact) /\ UNCHANGED jobVars /\ Goto("preview", seg.job)
  <2>1. Passes("preview") /\ journal' = journal
    BY <1>3, <1>6, GotoMoves DEF Passes, NoApplicationCompleted, SuccessKept
  <2>2. Journaled(fact)'
    BY <1>6, <2>1 DEF Journaled
  <2> QED BY <1>4, <2>1, <2>2
<1> QED BY <1>3, <1>5, <1>6 DEF JournalOnce

LEMMA ReservePreviewKeeps ==
  ASSUME AssistantIInv, ReservePreview
  PROVE  AssistantIInv'
<1>1. PICK p : p = seg.proposal
  OBVIOUS
<1>2. PICK id : id = PreviewOp(p)
  OBVIOUS
<1>3. OnlySegment /\ seg.pc = "preview" /\ ReserveOp(id, "previewDone")
  BY <1>1, <1>2 DEF ReservePreview, Others, OnlySegment, At
<1>4. CASE AssistantIInv'
  BY <1>4
<1>5. CASE ~AssistantIInv'
  <2>0. /\ JobGrows /\ NothingApplied /\ CompletedOps' = CompletedOps /\ SuccessKept
        /\ SegmentGoes("previewDone") /\ (seg'.replay => id \in CompletedOps)
    BY <1>3, <1>5, ReserveOpMoves
  <2>1. Passes("previewDone") /\ (seg'.replay => id \in CompletedOps')
    BY <1>3, <2>0 DEF Passes, NoApplicationCompleted
  <2>2. /\ "previewDone" \in Places /\ NoTurnTaken /\ IsRead(seg.turn)'
        /\ Journaled(Selected(seg.turn))' /\ IsOf(seg.proposal, seg.turn)'
        /\ Journaled(Produced(seg.proposal))'
    BY <1>3, <2>1, Passing
    DEF Places, OfTurnRead, FromContext, FromTurn, FromProduced, FromPreview
  <2>3. seg'.replay => (PreviewOp(seg.proposal) \in CompletedOps)'
    BY <1>1, <1>2, <2>1 DEF Passes, SegmentGoes, PreviewOp
  <2> QED BY <2>1, <2>2, <2>3, Arrives
      DEF Passes, FromContext, FromTurn, FromProduced, FromPreview, FromPreviewFact, Landing
<1> QED BY <1>4, <1>5

LEMMA PreviewKeeps ==
  ASSUME AssistantIInv, Preview
  PROVE  AssistantIInv'
<1>1. PICK p : p = seg.proposal
  OBVIOUS
<1>2. PICK id : id = PreviewOp(p)
  OBVIOUS
<1>3. OnlySegment /\ seg.pc = "previewDone"
  BY DEF Preview, Others, OnlySegment, At
<1>4. \/ /\ Complete(id, Hash, 0)
         /\ seg' = [seg EXCEPT !.pc = "previewFact", !.job = job', !.stale = Base(seg.proposal) # Current]
      \/ /\ seg.replay /\ UNCHANGED jobVars
         /\ seg' = [seg EXCEPT !.pc = "decide", !.stale = Base(seg.proposal) # Current]
  BY <1>1, <1>2 DEF Preview
<1>5. id.kind # "proposal.apply"
  BY <1>2 DEF PreviewOp
<1>6. ASSUME NEW pc \in {"previewFact", "decide"}, Passes(pc), id \in CompletedOps'
      PROVE  AssistantIInv'
  <2>1. /\ pc \in Places /\ NoTurnTaken /\ IsRead(seg.turn)'
        /\ Journaled(Selected(seg.turn))' /\ IsOf(seg.proposal, seg.turn)'
        /\ Journaled(Produced(seg.proposal))'
    BY <1>3, <1>6, Passing
    DEF Places, OfTurnRead, FromContext, FromTurn, FromProduced, FromPreview
  <2>2. (PreviewOp(seg.proposal) \in CompletedOps)'
    BY <1>1, <1>2, <1>6 DEF Passes, SegmentGoes, PreviewOp
  <2> QED BY <1>6, <2>1, <2>2, Arrives
      DEF Passes, FromContext, FromTurn, FromProduced, FromPreview, FromPreviewFact, Landing
<1>7. CASE /\ Complete(id, Hash, 0)
           /\ seg' = [seg EXCEPT !.pc = "previewFact", !.job = job', !.stale = Base(seg.proposal) # Current]
  <2>1. SegmentGoes("previewFact")
    BY <1>7 DEF AssistantIInv, SegmentHolds, SegmentGoes, Idle
  <2>2. JobGrows /\ NothingApplied /\ CompletedOps' = CompletedOps \cup {id} /\ SuccessKept
    BY <1>7, FitsOf, CompleteGrows DEF SuccessKept
  <2> QED BY <1>3, <1>5, <1>6, <2>1, <2>2 DEF Passes, NoApplicationCompleted
<1>8. CASE /\ seg.replay /\ UNCHANGED jobVars
           /\ seg' = [seg EXCEPT !.pc = "decide", !.stale = Base(seg.proposal) # Current]
  <2>1. SegmentGoes("decide")
    BY <1>8 DEF AssistantIInv, SegmentHolds, SegmentGoes, Idle
  <2>2. JobGrows /\ NothingApplied /\ CompletedOps' = CompletedOps /\ SuccessKept
    BY <1>8, FitsOf, NoJobStep DEF SuccessKept
  <2>3. id \in CompletedOps
    BY <1>1, <1>2, <1>3, <1>8 DEF AssistantIInv, SegmentHolds, At
  <2> QED BY <1>3, <1>6, <2>1, <2>2, <2>3 DEF Passes, NoApplicationCompleted
<1> QED BY <1>4, <1>7, <1>8

LEMMA PreviewFactKeeps ==
  ASSUME AssistantIInv, PreviewFact
  PROVE  AssistantIInv'
<1>1. OnlySegment /\ seg.pc = "previewFact" /\ Journal(Fact("proposal.previewed"), "decide")
  BY DEF PreviewFact, Others, OnlySegment, At
<1>2. CASE Conflict
  BY <1>1, <1>2, ConflictKeeps
<1>3. CASE ~Conflict
  <2>1. Passes("decide")
    BY <1>1, <1>3, JournalMoves
    DEF Passes, NothingApplied, OnlyJournals, Fact, NoApplicationCompleted, SuccessKept
  <2>2. /\ "decide" \in Places /\ NoTurnTaken /\ IsRead(seg.turn)'
        /\ Journaled(Selected(seg.turn))' /\ IsOf(seg.proposal, seg.turn)'
        /\ Journaled(Produced(seg.proposal))' /\ (PreviewOp(seg.proposal) \in CompletedOps)'
    BY <1>1, <2>1, Passing
    DEF Places, OfTurnRead, FromContext, FromTurn, FromProduced, FromPreview, FromPreviewFact
  <2> QED BY <2>1, <2>2, Arrives
      DEF Passes, FromContext, FromTurn, FromProduced, FromPreview, FromPreviewFact, Landing
<1> QED BY <1>2, <1>3

\* What the author is shown.
LEMMA SegmentShows ==
  ASSUME AssistantIInv, seg.pc \in FromPreviewFact
  PROVE  IsShown(seg.proposal) /\ IsOf(seg.proposal, seg.turn)
BY DEF AssistantIInv, SegmentHolds, IsShown, IsOf, FromPreviewFact, FromPreview, FromProduced

\* The proposal is left to the author: it becomes one that can be applied.
LEMMA WaitKeeps ==
  ASSUME AssistantIInv, seg.pc = "decide", WaitForUser,
         UNCHANGED <<draft, applications, artifacts, offered, app>>
  PROVE  AssistantIInv'
<1>1. CASE Conflict /\ UNCHANGED ready
  BY <1>1, ConflictKeeps DEF OnlySegment
<1>2. CASE /\ Transition(seg.job.version, "waiting_user")
           /\ End("proposal_ready", job') /\ ready' = ready \union {seg.proposal}
  <2>1. SegmentHolds' /\ NoTurnTaken
    BY <1>2, SegmentEnds DEF End
  <2>2. /\ JobGrows /\ NothingApplied /\ CompletedOps' = CompletedOps /\ job'.state = "waiting_user"
    BY <1>2, FitsOf, TransitionGrows DEF States
  <2>3. StoreHolds /\ AppliedOnce /\ AppHolds /\ SuccessIsApplied
    BY DEF AssistantIInv
  <2>4. Grows /\ DraftHolds' /\ ApplicationsHold' /\ Current \in Nat /\ Current' = Current
    BY <2>2, <2>3, DraftStays DEF Current
  <2>5. ArtifactsHold' /\ AppliedIsLanded' /\ AppHolds' /\ SuccessIsApplied'
    BY <2>2, <2>3, <2>4, ArtifactsStay, LandingsStay, AppStays, SuccessStays
  <2>6. \A p \in ready' \cup offered' : IsShown(p)'
    BY <1>2, <2>3, <2>4, SegmentShows, WhatStays
    DEF StoreHolds, FromPreviewFact, FromPreview, FromProduced, FromTurn, FromContext
  <2>7. AppliedOnce'
    BY <2>1, <2>2, <2>3, <2>4, OnceStays DEF NoTurnTaken
  <2>8. StoreHolds'
    BY <2>2, <2>4, <2>5, <2>6 DEF StoreHolds, JobGrows, Grows
  <2> QED BY <2>1, <2>5, <2>7, <2>8 DEF AssistantIInv
<1> QED BY <1>1, <1>2 DEF WaitForUser

LEMMA DecideKeeps ==
  ASSUME AssistantIInv, Decide
  PROVE  AssistantIInv'
<1>1. seg.pc = "decide" /\ UNCHANGED <<draft, applications, artifacts, offered, app>>
  BY DEF Decide, At
<1>2. CASE UNCHANGED <<jobVars, ready>> /\ End("paused_budget", seg.job)
  BY <1>1, <1>2, EndKeeps DEF OnlySegment
<1>3. CASE Fail /\ UNCHANGED ready
  BY <1>1, <1>3, FailKeeps DEF OnlySegment
<1>4. CASE WaitForUser
  BY <1>1, <1>4, WaitKeeps
<1>5. CASE ReserveOp(ApplyOp(seg.proposal), "land") /\ UNCHANGED ready
  <2>1. OnlySegment
    BY <1>1, <1>5 DEF OnlySegment
  <2>2. PICK id : id = ApplyOp(seg.proposal)
    OBVIOUS
  <2>3. CASE AssistantIInv'
    BY <2>3
  <2>4. CASE ~AssistantIInv'
    <3>0. /\ JobGrows /\ NothingApplied /\ CompletedOps' = CompletedOps /\ SuccessKept
          /\ SegmentGoes("land") /\ (seg'.replay => id \in CompletedOps)
      BY <1>5, <2>1, <2>2, <2>4, ReserveOpMoves
    <3>1. Passes("land") /\ (seg'.replay => id \in CompletedOps)
      BY <2>1, <3>0 DEF Passes, NoApplicationCompleted
    <3>2. id \notin CompletedOps
      <4>1. seg.proposal.turn = seg.turn
        BY <1>1, SegmentShows
        DEF IsOf, FromPreviewFact, FromPreview, FromProduced, FromTurn, FromContext
      <4>2. id.kind = "proposal.apply" /\ id.proposal = seg.proposal
        BY <2>2 DEF ApplyOp
      <4>3. seg.pc \in OfTurnRead \ {"landFact", "succeed"}
        BY <1>1 DEF OfTurnRead, FromContext
      <4> QED BY <4>1, <4>2, <4>3 DEF AssistantIInv, AppliedOnce
    <3>3. /\ "land" \in Places /\ NoTurnTaken /\ IsRead(seg.turn)'
          /\ Journaled(Selected(seg.turn))' /\ IsOf(seg.proposal, seg.turn)'
          /\ Journaled(Produced(seg.proposal))' /\ (PreviewOp(seg.proposal) \in CompletedOps)'
      BY <1>1, <3>1, Passing
      DEF Places, OfTurnRead, FromContext, FromTurn, FromProduced, FromPreview, FromPreviewFact
    <3> QED BY <3>1, <3>2, <3>3, Arrives
        DEF Passes, FromContext, FromTurn, FromProduced, FromPreview, FromPreviewFact, Landing
  <2> QED BY <2>3, <2>4
<1> QED BY <1>2, <1>3, <1>4, <1>5 DEF Decide

\* A proposal is applied: it is the next version, or nothing changes.
LEMMA ApplyKeeps ==
  ASSUME StoreHolds, JobGrows, NEW key, NEW p, IsShown(p), ApplyToDraft(key, p)
  PROVE  /\ Grows /\ DraftHolds' /\ ApplicationsHold' /\ Current \in Nat /\ Current' \in Nat
         /\ Answered(key, p) => IsApplied(key, p)'
<1>1. CASE UNCHANGED <<draft, applications>> /\ ~Lands(key, p)
  <2>1. Answered(key, p) => IsApplied(key, p)'
    BY <1>1 DEF Answered, Replays, IsApplied
  <2> QED BY <1>1, <2>1, DraftStays DEF Current
<1>2. CASE /\ Lands(key, p) /\ draft' = Append(draft, p)
           /\ applications' = [k \in DOMAIN applications \union {key} |->
                IF k = key THEN [proposal |-> p, revision |-> Current + 1] ELSE applications[k]]
  <2>1. /\ IsSequence(Append(draft, p))
        /\ Len(draft) \in Nat /\ DOMAIN draft = 1..Len(draft)
        /\ Len(Append(draft, p)) = Len(draft) + 1
        /\ DOMAIN Append(draft, p) = 1..(Len(draft) + 1)
        /\ \A i \in 1..Len(draft) : Append(draft, p)[i] = draft[i]
        /\ Append(draft, p)[Len(draft) + 1] = p
    BY AppendAny DEF StoreHolds
  <2>2. /\ IsSequence(draft') /\ Current \in Nat /\ Current' = Current + 1
        /\ DOMAIN draft = 1..Current /\ DOMAIN draft' = 1..(Current + 1)
        /\ \A i \in 1..Current : draft'[i] = draft[i]
        /\ draft'[Current + 1] = p
    BY <1>2, <2>1 DEF Current
  <2>3. key \notin DOMAIN applications /\ Base(p) = Current
    BY <1>2 DEF Lands
  <2>4. /\ DOMAIN applications' = DOMAIN applications \cup {key}
        /\ \A k \in DOMAIN applications : applications'[k] = applications[k]
        /\ applications'[key].proposal = p /\ applications'[key].revision = Current + 1
    BY <1>2, <2>3
  <2>5. Grows
    BY <2>2, <2>4 DEF Grows
  <2>6. DraftHolds'
    <3>1. SUFFICES ASSUME NEW n \in DOMAIN draft', draft'[n] # Person
                   PROVE  IsShown(draft[n])' /\ Base(draft[n])' = n - 1
      BY DEF DraftHolds
    <3>2. PICK r : r = draft'[n]
      OBVIOUS
    <3>3. CASE n = Current + 1
      BY <2>2, <2>3, <2>5, <3>2, <3>3, WhatStays DEF IsShown, Base
    <3>4. CASE n # Current + 1
      <4>1. n \in DOMAIN draft /\ draft[n] = r
        BY <2>2, <3>2, <3>4
      <4>2. IsShown(r) /\ Base(r) = n - 1
        BY <3>1, <3>2, <4>1 DEF StoreHolds, DraftHolds
      <4>3. IsShown(r)'
        BY <2>5, <4>2, WhatStays
      <4> QED BY <3>2, <4>2, <4>3 DEF IsShown, Base
    <3> QED BY <3>3, <3>4
  <2>7. ApplicationsHold'
    <3>1. SUFFICES ASSUME NEW k \in DOMAIN applications'
                   PROVE  LET a == applications'[k] IN
                          a.revision \in DOMAIN draft' /\ draft'[a.revision] = a.proposal
      BY DEF ApplicationsHold, IsLanded
    <3>2. CASE k = key
      <4>1. Current + 1 \in DOMAIN draft'
        BY <2>2
      <4> QED BY <2>2, <2>4, <3>2, <4>1
    <3>3. CASE k # key
      <4>1. k \in DOMAIN applications /\ applications'[k] = applications[k]
        BY <2>4, <3>3
      <4>2. IsLanded(applications[k].proposal, applications[k].revision)
        BY <4>1 DEF StoreHolds, ApplicationsHold
      <4> QED BY <2>2, <4>1, <4>2 DEF IsLanded
    <3> QED BY <3>2, <3>3
  <2>8. IsApplied(key, p)'
    BY <2>4 DEF IsApplied
  <2> QED BY <2>2, <2>5, <2>6, <2>7, <2>8
<1> QED BY <1>1, <1>2 DEF ApplyToDraft

LEMMA StoreKeeps ==
  ASSUME StoreHolds, Grows, DraftHolds', ApplicationsHold', AppliedIsLanded',
         UNCHANGED <<artifacts, ready, offered>>
  PROVE  StoreHolds'
<1>1. ArtifactsHold' /\ \A p \in ready' \cup offered' : IsShown(p)'
  BY ArtifactsStay, OffersStay
<1> QED BY <1>1 DEF StoreHolds, Grows, JobGrows

LEMMA LandKeeps ==
  ASSUME AssistantIInv, Land
  PROVE  AssistantIInv'
<1>1. PICK p : p = seg.proposal
  OBVIOUS
<1>2. PICK key : key = DerivedKey(p)
  OBVIOUS
<1>3. /\ seg.pc = "land" /\ ApplyToDraft(key, p) /\ UNCHANGED <<artifacts, ready, offered, app>>
      /\ IF Answered(key, p) THEN UNCHANGED jobVars /\ Goto("landDone", seg.job) ELSE Fail
  BY <1>1, <1>2 DEF Land, At
<1>4. /\ StoreHolds /\ AppliedOnce /\ SegmentHolds /\ AppHolds /\ SuccessIsApplied /\ JobFits
  BY FitsOf DEF AssistantIInv
<1>5. IsShown(p)
  BY <1>1, <1>3, SegmentShows
  DEF FromPreviewFact, FromPreview, FromProduced, FromTurn, FromContext
<1>6. ASSUME JobGrows, NothingApplied, CompletedOps' = CompletedOps, SuccessKept,
             NoTurnTaken, SegmentHolds'
      PROVE  AssistantIInv'
  <2>1. /\ Grows /\ DraftHolds' /\ ApplicationsHold' /\ Current \in Nat /\ Current' \in Nat
    BY <1>3, <1>4, <1>5, <1>6, ApplyKeeps
  <2>2. AppliedIsLanded' /\ AppHolds' /\ SuccessIsApplied'
    BY <1>3, <1>4, <1>6, <2>1, LandingsStay, AppStays, SuccessStays DEF SuccessKept
  <2>3. StoreHolds'
    BY <1>3, <1>4, <2>1, <2>2, StoreKeeps
  <2>4. AppliedOnce'
    BY <1>4, <1>6, <2>1, OnceStays DEF NoTurnTaken
  <2> QED BY <1>6, <2>2, <2>3, <2>4 DEF AssistantIInv
<1>7. CASE Answered(key, p)
  <2>1. /\ JobGrows /\ NothingApplied /\ CompletedOps' = CompletedOps /\ job'.state = job.state
        /\ SegmentGoes("landDone") /\ seg'.replay = seg.replay
    BY <1>3, <1>7, GotoMoves
  <2>2. Grows /\ IsApplied(key, p)'
    BY <1>3, <1>4, <1>5, <1>7, <2>1, ApplyKeeps
  <2>3. /\ ("revision" \in DOMAIN seg.turn)' /\ IsRead(seg.turn)'
        /\ Journaled(Selected(seg.turn))' /\ IsOf(seg.proposal, seg.turn)'
        /\ Journaled(Produced(seg.proposal))' /\ (PreviewOp(seg.proposal) \in CompletedOps)'
    BY <1>3, <1>4, <2>1, <2>2, CarriedOver
    DEF FromContext, FromTurn, FromProduced, FromPreview, FromPreviewFact
  <2>4. IsApplied(DerivedKey(seg.proposal), seg.proposal)'
    BY <1>1, <1>2, <2>1, <2>2 DEF SegmentGoes, IsApplied, DerivedKey
  <2>5. ~seg'.replay
    BY <1>3, <1>4, <2>1 DEF SegmentHolds
  <2>6. SegmentHolds'
    BY <2>1, <2>3, <2>4, <2>5 DEF SegmentHolds, SegmentGoes, At, OfTurnRead, FromContext
  <2>7. NoTurnTaken
    BY <1>3, <2>1 DEF NoTurnTaken, SegmentGoes, OfTurnRead, FromContext
  <2> QED BY <1>6, <2>1, <2>6, <2>7 DEF SuccessKept
<1>8. CASE Fail
  <2>1. SegmentHolds' /\ NoTurnTaken
    BY <1>8, SegmentEnds DEF Fail, End
  <2>2. CASE UNCHANGED jobVars
    BY <1>4, <1>6, <2>1, <2>2, NoJobStep DEF SuccessKept
  <2>3. CASE Transition(job.version, "failed")
    BY <1>4, <1>6, <2>1, <2>3, TransitionGrows DEF SuccessKept, States, Terminal
  <2> QED BY <1>8, <2>2, <2>3 DEF Fail
<1> QED BY <1>3, <1>7, <1>8

\* The proposal of a segment past its application is a version of the draft.
LEMMA SegmentLanded ==
  ASSUME AssistantIInv, seg.pc \in Landing, NEW p, p = seg.proposal
  PROVE  LET n == applications[DerivedKey(p)].revision IN
         /\ n \in 1 .. Current /\ Current \in Nat /\ DOMAIN draft = 1 .. Current
         /\ draft[n] = p /\ p # Person /\ Base(p) = n - 1
<1>1. IsApplied(DerivedKey(p), p)
  BY DEF AssistantIInv, SegmentHolds
<1>2. PICK n : n = applications[DerivedKey(p)].revision
  OBVIOUS
<1>3. IsLanded(p, n)
  BY <1>1, <1>2 DEF IsApplied, AssistantIInv, StoreHolds, ApplicationsHold
<1>4. Current \in Nat /\ DOMAIN draft = 1 .. Current
  <2>1. PICK S : draft \in Seq(S)
    BY DEF AssistantIInv, StoreHolds, IsSequence
  <2> QED BY <2>1, LenProperties DEF Current
<1>5. p # Person
  <2>1. p.body \in Bodies
    BY DEF AssistantIInv, SegmentHolds, IsOf, Landing, FromProduced, FromTurn, FromContext
  <2> QED BY <2>1, BodiesAssumption DEF Person, NoProposal
<1>6. Base(p) = n - 1
  BY <1>3, <1>5 DEF IsLanded, AssistantIInv, StoreHolds, DraftHolds
<1> QED BY <1>2, <1>3, <1>4, <1>5, <1>6 DEF IsLanded

LEMMA CompleteLandKeeps ==
  ASSUME AssistantIInv, CompleteLand
  PROVE  AssistantIInv'
<1>1. PICK p : p = seg.proposal
  OBVIOUS
<1>2. PICK id : id = ApplyOp(p)
  OBVIOUS
<1>3. OnlySegment /\ seg.pc = "landDone" /\ CompleteOp(id, "landFact", "succeed")
  BY <1>1, <1>2 DEF CompleteLand, Others, OnlySegment, At
<1>4. ~seg.replay
  BY <1>3 DEF AssistantIInv, SegmentHolds
<1>5. /\ JobGrows /\ NothingApplied /\ SuccessKept
      /\ CompletedOps' = CompletedOps \cup {id} /\ SegmentGoes("landFact")
  BY <1>3, <1>4, CompleteOpMoves
<1>6. /\ StoreHolds /\ AppliedOnce /\ SegmentHolds /\ AppHolds /\ SuccessIsApplied
      /\ draft' = draft /\ applications' = applications /\ artifacts' = artifacts
      /\ ready' = ready /\ offered' = offered /\ app' = app
  BY <1>3 DEF AssistantIInv, OnlySegment
<1>7. Grows /\ DraftHolds' /\ ApplicationsHold' /\ Current \in Nat /\ Current' = Current
  BY <1>5, <1>6, DraftStays DEF Current
<1>8. AppliedIsLanded' /\ AppHolds' /\ SuccessIsApplied'
  BY <1>5, <1>6, <1>7, LandingsStay, AppStays, SuccessStays DEF SuccessKept
<1>9. StoreHolds'
  BY <1>6, <1>7, <1>8, StoreKeeps
<1>10. AppliedOnce'
  <2>1. SUFFICES ASSUME NEW o \in CompletedOps', o.kind = "proposal.apply"
                 PROVE  Base(o.proposal) \in 0 .. (Current - 1)
    BY <1>5, <1>7 DEF AppliedOnce, Base, SegmentGoes
  <2>2. CASE o \in CompletedOps
    BY <1>6, <2>1, <2>2 DEF AppliedOnce
  <2>3. CASE o = id
    <3>1. o.proposal = p
      BY <1>2, <2>3 DEF ApplyOp
    <3>2. PICK n \in 1 .. Current : Base(p) = n - 1
      BY <1>1, <1>3, SegmentLanded DEF Landing
    <3> QED BY <1>7, <3>1, <3>2
  <2> QED BY <1>5, <2>2, <2>3
<1>11. /\ ("revision" \in DOMAIN seg.turn)' /\ IsRead(seg.turn)'
       /\ Journaled(Selected(seg.turn))' /\ IsOf(seg.proposal, seg.turn)'
       /\ Journaled(Produced(seg.proposal))' /\ (PreviewOp(seg.proposal) \in CompletedOps)'
       /\ IsApplied(DerivedKey(seg.proposal), seg.proposal)'
  BY <1>3, <1>5, <1>6, <1>7, CarriedOver
  DEF FromContext, FromTurn, FromProduced, FromPreview, FromPreviewFact, Landing
<1>12. SegmentHolds'
  BY <1>5, <1>11 DEF SegmentHolds, SegmentGoes, At, OfTurnRead, FromContext
<1> QED BY <1>8, <1>9, <1>10, <1>12 DEF AssistantIInv

LEMMA LandFactKeeps ==
  ASSUME AssistantIInv, LandFact
  PROVE  AssistantIInv'
<1>1. PICK p : p = seg.proposal
  OBVIOUS
<1>2. PICK n : n = applications[DerivedKey(p)].revision
  OBVIOUS
<1>3. PICK fact : fact = Applied(p, n)
  OBVIOUS
<1>4. OnlySegment /\ seg.pc = "landFact" /\ Journal(fact, "succeed")
  BY <1>1, <1>2, <1>3 DEF LandFact, Others, OnlySegment, At
<1>5. CASE Conflict
  BY <1>4, <1>5, ConflictKeeps
<1>6. CASE ~Conflict
  <2>1. /\ JobGrows /\ OnlyJournals(fact) /\ Journaled(fact)'
        /\ CompletedOps' = CompletedOps /\ job'.state = job.state /\ SegmentGoes("succeed")
    BY <1>4, <1>6, JournalMoves
  <2>2. /\ StoreHolds /\ AppliedOnce /\ SegmentHolds /\ AppHolds /\ SuccessIsApplied
        /\ draft' = draft /\ applications' = applications /\ artifacts' = artifacts
        /\ ready' = ready /\ offered' = offered /\ app' = app
    BY <1>4 DEF AssistantIInv, OnlySegment
  <2>3. Grows /\ DraftHolds' /\ ApplicationsHold' /\ Current \in Nat /\ Current' = Current
    BY <2>1, <2>2, DraftStays DEF Current
  <2>4. AppHolds' /\ SuccessIsApplied'
    BY <2>1, <2>2, <2>3, AppStays, SuccessStays
  <2>5. AppliedIsLanded'
    <3>1. SUFFICES ASSUME NEW i \in DOMAIN journal', journal'[i].kind = "proposal.applied"
                   PROVE  LET f == journal'[i] IN
                          f.revision \in DOMAIN draft /\ draft[f.revision] = f.proposal
      BY <2>2 DEF AppliedIsLanded, IsLanded
    <3>2. CASE i \in DOMAIN journal
      <4>1. journal'[i] = journal[i]
        BY <2>1, <3>2 DEF JobGrows
      <4> QED BY <2>2, <3>1, <3>2, <4>1 DEF StoreHolds, AppliedIsLanded, IsLanded
    <3>3. CASE journal'[i] = fact
      <4>1. fact.revision = n /\ fact.proposal = p
        BY <1>3 DEF Applied
      <4>2. n \in 1 .. Current /\ DOMAIN draft = 1 .. Current /\ draft[n] = p
        BY <1>1, <1>2, <1>4, SegmentLanded DEF Landing
      <4> QED BY <3>3, <4>1, <4>2
    <3> QED BY <2>1, <3>2, <3>3 DEF OnlyJournals
  <2>6. StoreHolds'
    BY <2>2, <2>3, <2>5, StoreKeeps
  <2>7. AppliedOnce'
    BY <2>1, <2>2, <2>3, OnceStays DEF SegmentGoes
  <2>8. /\ ("revision" \in DOMAIN seg.turn)' /\ IsRead(seg.turn)'
        /\ Journaled(Selected(seg.turn))' /\ IsOf(seg.proposal, seg.turn)'
        /\ Journaled(Produced(seg.proposal))' /\ (PreviewOp(seg.proposal) \in CompletedOps)'
        /\ IsApplied(DerivedKey(seg.proposal), seg.proposal)'
    BY <1>4, <2>1, <2>2, <2>3, CarriedOver
    DEF FromContext, FromTurn, FromProduced, FromPreview, FromPreviewFact, Landing
  <2>9. Journaled(Applied(seg.proposal, applications[DerivedKey(seg.proposal)].revision))'
    BY <1>1, <1>2, <1>3, <2>1, <2>2 DEF SegmentGoes, Journaled, Applied, DerivedKey
  <2>10. SegmentHolds'
    BY <2>1, <2>8, <2>9 DEF SegmentHolds, SegmentGoes, At, OfTurnRead, FromContext
  <2> QED BY <2>4, <2>6, <2>7, <2>10 DEF AssistantIInv
<1> QED BY <1>5, <1>6

LEMMA SucceedKeeps ==
  ASSUME AssistantIInv, Succeed
  PROVE  AssistantIInv'
<1>1. OnlySegment /\ seg.pc = "succeed"
  BY DEF Succeed, Others, OnlySegment, At
<1>2. CASE UNCHANGED jobVars /\ End("paused_budget", seg.job)
  BY <1>1, <1>2, EndKeeps
<1>3. CASE Conflict
  BY <1>1, <1>3, ConflictKeeps
<1>4. CASE Transition(seg.job.version, "succeeded") /\ End("applied", job')
  <2>1. SegmentHolds' /\ NoTurnTaken
    BY <1>4, SegmentEnds DEF End
  <2>2. /\ JobGrows /\ NothingApplied /\ CompletedOps' = CompletedOps
    BY <1>1, <1>4, FitsOf, TransitionGrows DEF States, Terminal, At
  <2>3. /\ StoreHolds /\ AppliedOnce /\ SegmentHolds /\ AppHolds
        /\ draft' = draft /\ applications' = applications /\ artifacts' = artifacts
        /\ ready' = ready /\ offered' = offered /\ app' = app
    BY <1>1 DEF AssistantIInv, OnlySegment
  <2>4. Grows /\ DraftHolds' /\ ApplicationsHold' /\ Current \in Nat /\ Current' = Current
    BY <2>2, <2>3, DraftStays DEF Current
  <2>5. AppliedIsLanded' /\ AppHolds'
    BY <2>2, <2>3, <2>4, LandingsStay, AppStays
  <2>6. StoreHolds'
    BY <2>3, <2>4, <2>5, StoreKeeps
  <2>7. AppliedOnce'
    BY <2>1, <2>2, <2>3, <2>4, OnceStays DEF NoTurnTaken
  <2>8. SuccessIsApplied'
    <3>1. PICK p : p = seg.proposal
      OBVIOUS
    <3>2. PICK n : n = applications[DerivedKey(p)].revision
      OBVIOUS
    <3>3. n \in 1 .. Current /\ DOMAIN draft = 1 .. Current /\ draft[n] = p /\ p # Person
      BY <1>1, <3>1, <3>2, SegmentLanded DEF Landing
    <3>4. Journaled(Applied(p, n))
      BY <1>1, <2>3, <3>1, <3>2 DEF SegmentHolds, At
    <3>5. Journaled(Applied(p, n))'
      BY <2>4, <3>4, WhatStays
    <3> QED BY <2>3, <3>3, <3>5 DEF SuccessIsApplied, Journaled
  <2> QED BY <2>1, <2>5, <2>6, <2>7, <2>8 DEF AssistantIInv
<1> QED BY <1>2, <1>3, <1>4 DEF Succeed

\* A step beside the segment that leaves the draft alone.
LEMMA BesideSegment ==
  ASSUME AssistantIInv, JobGrows, AppliedIsLanded', CompletedOps' = CompletedOps, SuccessKept,
         UNCHANGED <<seg, draft, applications, artifacts>>,
         ready' \cup offered' \subseteq ready \cup offered, AppHolds'
  PROVE  AssistantIInv'
<1>1. /\ StoreHolds /\ AppliedOnce /\ SegmentHolds /\ SuccessIsApplied
  BY DEF AssistantIInv
<1>2. Grows /\ DraftHolds' /\ ApplicationsHold' /\ Current \in Nat /\ Current' = Current
  BY <1>1, DraftStays DEF Current
<1>3. ArtifactsHold' /\ SuccessIsApplied' /\ \A p \in ready' \cup offered' : IsShown(p)'
  BY <1>1, <1>2, ArtifactsStay, SuccessStays, OffersStay DEF SuccessKept
<1>4. SegmentHolds'
  BY <1>1, <1>2, SegmentStays
<1>5. AppliedOnce'
  BY <1>1, <1>2, OnceStays
<1>6. StoreHolds'
  BY <1>2, <1>3 DEF StoreHolds, Grows, JobGrows
<1> QED BY <1>3, <1>4, <1>5, <1>6 DEF AssistantIInv

LEMMA BesideGrows ==
  ASSUME AssistantIInv, JobGrows, NothingApplied, UNCHANGED <<draft, applications>>
  PROVE  AppliedIsLanded' /\ (UNCHANGED app => AppHolds')
BY DraftStays, LandingsStay, AppStays DEF AssistantIInv

LEMMA RequestSegmentKeeps ==
  ASSUME AssistantIInv, NEW i, NEW resume, RequestSegment(i, resume)
  PROVE  AssistantIInv'
<1>1. PICK fact : fact = Requested(i, resume)
  OBVIOUS
<1>2. PICK version : version = job.version
  OBVIOUS
<1>3. AppendCheckpoint(version, fact) /\ UNCHANGED assistantVars
  BY <1>1, <1>2 DEF RequestSegment
<1>4. /\ JobGrows /\ OnlyJournals(fact) /\ CompletedOps' = CompletedOps /\ job'.state = job.state
  BY <1>3, FitsOf, CheckpointGrows
<1>5. NothingApplied
  BY <1>1, <1>4 DEF NothingApplied, OnlyJournals, Requested
<1> QED BY <1>3, <1>4, <1>5, BesideGrows, BesideSegment DEF assistantVars, SuccessKept

LEMMA BeginSegmentKeeps ==
  ASSUME AssistantIInv, NEW i, NEW resume, BeginSegment(i, resume)
  PROVE  AssistantIInv'
<1>1. OnlySegment
  BY DEF BeginSegment, Others, OnlySegment
<1>2. seg' = [Idle EXCEPT !.pc = "pin", !.job = job', !.turn.instruction = i]
  BY DEF BeginSegment
<1>3. DOMAIN seg' = DOMAIN Idle /\ seg'.pc = "pin" /\ "revision" \in DOMAIN seg'.turn
  BY <1>2 DEF Idle, NoTurn
<1>4. SegmentHolds' /\ NoTurnTaken
  BY <1>3 DEF SegmentHolds, NoTurnTaken, At, OfTurnRead, FromContext, FromTurn,
     FromProduced, FromPreview, FromPreviewFact, Landing
<1>5. PICK version : version = job.version
  OBVIOUS
<1>6. Transition(version, "running") \/ UNCHANGED jobVars
  BY <1>5 DEF BeginSegment
<1>7. JobGrows /\ NothingApplied /\ CompletedOps' = CompletedOps /\ SuccessKept
  <2>1. CASE Transition(version, "running")
    BY <2>1, FitsOf, TransitionGrows DEF States, SuccessKept
  <2>2. CASE UNCHANGED jobVars
    BY <2>2, FitsOf, NoJobStep DEF SuccessKept
  <2> QED BY <1>6, <2>1, <2>2
<1> QED BY <1>1, <1>4, <1>7, SegmentStepKeeps DEF SuccessKept, NoApplicationCompleted

LEMMA CancelKeeps ==
  ASSUME AssistantIInv, Cancel
  PROVE  AssistantIInv'
<1>1. PICK version : version = job.version
  OBVIOUS
<1>2. Transition(version, "cancelled") /\ UNCHANGED assistantVars
  BY <1>1 DEF Cancel
<1>3. JobGrows /\ NothingApplied /\ CompletedOps' = CompletedOps /\ SuccessKept
  BY <1>2, FitsOf, TransitionGrows DEF States, Terminal, SuccessKept
<1> QED BY <1>2, <1>3, BesideGrows, BesideSegment DEF assistantVars

\* Steps that leave the job alone.
LEMMA OfferKeeps ==
  ASSUME AssistantIInv, NEW p, OfferProposal(p)
  PROVE  AssistantIInv'
<1>1. JobGrows /\ NothingApplied /\ CompletedOps' = CompletedOps /\ SuccessKept
  BY FitsOf, NoJobStep DEF OfferProposal, SuccessKept
<1>2. /\ UNCHANGED <<seg, draft, applications, artifacts, app>>
      /\ ready' \cup offered' \subseteq ready \cup offered
  BY DEF OfferProposal
<1> QED BY <1>1, <1>2, BesideGrows, BesideSegment

LEMMA BeginApplyKeeps ==
  ASSUME AssistantIInv, NEW p \in offered, NEW key, BeginApply(p, key)
  PROVE  AssistantIInv'
<1>1. JobGrows /\ NothingApplied /\ CompletedOps' = CompletedOps /\ SuccessKept
  BY FitsOf, NoJobStep DEF BeginApply, SuccessKept
<1>2. /\ UNCHANGED <<seg, draft, applications, artifacts, ready, offered>>
      /\ app' = [IdleApp EXCEPT !.pc = "land", !.proposal = p, !.key = key]
  BY DEF BeginApply
<1>3. DOMAIN app' = DOMAIN IdleApp /\ app'.pc = "land" /\ app'.proposal = p
  BY <1>2 DEF IdleApp
<1>4. Grows
  BY <1>1, <1>2, DraftStays DEF AssistantIInv
<1>5. IsShown(p)'
  BY <1>4, WhatStays DEF AssistantIInv, StoreHolds
<1>6. AppHolds'
  BY <1>3, <1>5 DEF AppHolds, IsShown, Produced, PreviewOp, Journaled
<1> QED BY <1>1, <1>2, <1>6, BesideGrows, BesideSegment

LEMMA LookAtJobKeeps ==
  ASSUME AssistantIInv, LookAtJob
  PROVE  AssistantIInv'
<1>1. JobGrows /\ NothingApplied /\ CompletedOps' = CompletedOps /\ SuccessKept
  BY FitsOf, NoJobStep DEF LookAtJob, SuccessKept
<1>2. /\ UNCHANGED <<seg, draft, applications, artifacts, ready, offered>>
      /\ app.pc = "look" /\ app' = [app EXCEPT !.pc = "audit", !.job = job]
  BY DEF LookAtJob
<1>3. PICK p : p = app.proposal
  OBVIOUS
<1>4. PICK key : key = app.key
  OBVIOUS
<1>5. /\ DOMAIN app' = DOMAIN IdleApp /\ app'.pc = "audit" /\ app'.proposal = p /\ app'.key = key
      /\ IsShown(p) /\ IsApplied(key, p)
  BY <1>2, <1>3, <1>4 DEF IdleApp, AssistantIInv, AppHolds
<1>6. Grows
  BY <1>1, <1>2, DraftStays DEF AssistantIInv
<1>7. IsShown(p)' /\ IsApplied(key, p)'
  BY <1>5, <1>6, WhatStays
<1>8. AppHolds'
  BY <1>5, <1>7 DEF AppHolds, IsShown, IsApplied
<1> QED BY <1>1, <1>2, <1>8, BesideGrows, BesideSegment

LEMMA AppEnds ==
  ASSUME app' = IdleApp
  PROVE  AppHolds'
BY DEF AppHolds, IdleApp

\* The proposal of an application is journaled as what the draft holds.
LEMMA AuditKeeps ==
  ASSUME AssistantIInv, Audit
  PROVE  AssistantIInv'
<1>1. PICK p : p = app.proposal
  OBVIOUS
<1>2. PICK key : key = app.key
  OBVIOUS
<1>3. PICK n : n = applications[key].revision
  OBVIOUS
<1>4. PICK fact : fact = Applied(p, n)
  OBVIOUS
<1>5. PICK version : version = app.job.version
  OBVIOUS
<1>6. /\ app.pc = "audit" /\ UNCHANGED <<seg, draft, applications, artifacts, ready, offered>>
      /\ \/ UNCHANGED jobVars /\ app' = IdleApp
         \/ AppendCheckpoint(version, fact) /\ app' = IdleApp
         \/ /\ UNCHANGED jobVars
            /\ app' = [app EXCEPT !.pc = "look", !.left = @ - 1] \/ app' = IdleApp
  BY <1>1, <1>2, <1>3, <1>4, <1>5 DEF Audit, AppliedByApp
<1>7. IsApplied(key, p) /\ IsShown(p) /\ IsLanded(p, n) /\ DOMAIN app = DOMAIN IdleApp
  BY <1>1, <1>2, <1>3, <1>6 DEF AssistantIInv, AppHolds, IsApplied, StoreHolds, ApplicationsHold
<1>8. CASE UNCHANGED jobVars
  <2>1. JobGrows /\ NothingApplied /\ CompletedOps' = CompletedOps /\ SuccessKept
    BY <1>8, FitsOf, NoJobStep DEF SuccessKept
  <2>2. CASE app' = IdleApp
    BY <1>6, <2>1, <2>2, AppEnds, BesideGrows, BesideSegment
  <2>3. CASE app' = [app EXCEPT !.pc = "look", !.left = @ - 1]
    <3>1. /\ DOMAIN app' = DOMAIN IdleApp /\ app'.pc = "look" /\ app'.proposal = p
          /\ app'.key = key
      BY <1>1, <1>2, <1>7, <2>3 DEF IdleApp
    <3>2. Grows
      BY <1>6, <2>1, DraftStays DEF AssistantIInv
    <3>3. IsShown(p)' /\ IsApplied(key, p)'
      BY <1>7, <3>2, WhatStays
    <3>4. AppHolds'
      BY <3>1, <3>3 DEF AppHolds, IsShown, IsApplied
    <3> QED BY <1>6, <2>1, <3>4, BesideGrows, BesideSegment
  <2> QED BY <1>6, <2>2, <2>3
<1>9. CASE AppendCheckpoint(version, fact) /\ app' = IdleApp
  <2>1. /\ JobGrows /\ OnlyJournals(fact) /\ CompletedOps' = CompletedOps
        /\ job'.state = job.state
    BY <1>9, FitsOf, CheckpointGrows
  <2>2. AppliedIsLanded'
    <3>1. SUFFICES ASSUME NEW i \in DOMAIN journal', journal'[i].kind = "proposal.applied"
                   PROVE  LET f == journal'[i] IN
                          f.revision \in DOMAIN draft /\ draft[f.revision] = f.proposal
      BY <1>6 DEF AppliedIsLanded, IsLanded
    <3>2. CASE i \in DOMAIN journal
      <4>1. journal'[i] = journal[i]
        BY <2>1, <3>2 DEF JobGrows
      <4> QED BY <3>1, <3>2, <4>1 DEF AssistantIInv, StoreHolds, AppliedIsLanded, IsLanded
    <3>3. CASE journal'[i] = fact
      BY <1>4, <1>7, <3>3 DEF Applied, IsLanded
    <3> QED BY <2>1, <3>2, <3>3 DEF OnlyJournals
  <2> QED BY <1>6, <1>9, <2>1, <2>2, AppEnds, BesideSegment DEF SuccessKept
<1> QED BY <1>6, <1>8, <1>9

\* A step beside the segment that adds a version to the draft.
LEMMA DraftMoves ==
  ASSUME AssistantIInv, UNCHANGED <<jobVars, seg, artifacts, ready, offered>>,
         Grows, DraftHolds', ApplicationsHold', Current \in Nat, Current' \in Nat, AppHolds'
  PROVE  AssistantIInv'
<1>1. /\ NothingApplied /\ CompletedOps' = CompletedOps /\ job'.state = job.state
  BY FitsOf, NoJobStep
<1>2. /\ StoreHolds /\ AppliedOnce /\ SegmentHolds /\ SuccessIsApplied
  BY DEF AssistantIInv
<1>3. AppliedIsLanded' /\ SuccessIsApplied' /\ SegmentHolds'
  BY <1>1, <1>2, LandingsStay, SuccessStays, SegmentStays
<1>4. StoreHolds'
  BY <1>2, <1>3, StoreKeeps
<1>5. AppliedOnce'
  BY <1>1, <1>2, OnceStays
<1> QED BY <1>3, <1>4, <1>5 DEF AssistantIInv

LEMMA LandApplyKeeps ==
  ASSUME AssistantIInv, LandApply
  PROVE  AssistantIInv'
<1>1. PICK p : p = app.proposal
  OBVIOUS
<1>2. PICK key : key = app.key
  OBVIOUS
<1>3. /\ app.pc = "land" /\ ApplyToDraft(key, p)
      /\ app' = IF Answered(key, p) THEN [app EXCEPT !.pc = "look", !.left = 4] ELSE IdleApp
      /\ UNCHANGED <<jobVars, seg, artifacts, ready, offered>>
  BY <1>1, <1>2 DEF LandApply
<1>4. JobGrows
  BY <1>3, FitsOf, NoJobStep
<1>5. IsShown(p) /\ DOMAIN app = DOMAIN IdleApp
  BY <1>1, <1>3 DEF AssistantIInv, AppHolds
<1>6. /\ Grows /\ DraftHolds' /\ ApplicationsHold' /\ Current \in Nat /\ Current' \in Nat
      /\ Answered(key, p) => IsApplied(key, p)'
  BY <1>3, <1>4, <1>5, ApplyKeeps DEF AssistantIInv
<1>7. AppHolds'
  <2>1. CASE Answered(key, p)
    <3>1. /\ DOMAIN app' = DOMAIN IdleApp /\ app'.pc = "look" /\ app'.proposal = p
          /\ app'.key = key
      BY <1>1, <1>2, <1>3, <1>5, <2>1 DEF IdleApp
    <3>2. IsShown(p)' /\ IsApplied(key, p)'
      BY <1>5, <1>6, <2>1, WhatStays
    <3> QED BY <3>1, <3>2 DEF AppHolds, IsShown, IsApplied
  <2>2. CASE ~Answered(key, p)
    BY <1>3, <2>2, AppEnds
  <2> QED BY <2>1, <2>2
<1> QED BY <1>3, <1>6, <1>7, DraftMoves

LEMMA PersonEditsKeeps ==
  ASSUME AssistantIInv, PersonEdits
  PROVE  AssistantIInv'
<1>1. /\ draft' = Append(draft, Person)
      /\ UNCHANGED <<jobVars, applications, artifacts, ready, offered, seg, app>>
  BY DEF PersonEdits
<1>2. /\ IsSequence(Append(draft, Person))
      /\ Len(draft) \in Nat /\ DOMAIN draft = 1..Len(draft)
      /\ Len(Append(draft, Person)) = Len(draft) + 1
      /\ DOMAIN Append(draft, Person) = 1..(Len(draft) + 1)
      /\ \A i \in 1..Len(draft) : Append(draft, Person)[i] = draft[i]
      /\ Append(draft, Person)[Len(draft) + 1] = Person
  BY AppendAny DEF AssistantIInv, StoreHolds
<1>3. /\ IsSequence(draft') /\ Current \in Nat /\ Current' = Current + 1
      /\ DOMAIN draft = 1..Current /\ DOMAIN draft' = 1..(Current + 1)
      /\ \A i \in 1..Current : draft'[i] = draft[i]
      /\ draft'[Current + 1] = Person
  BY <1>1, <1>2 DEF Current
<1>4. JobGrows
  BY <1>1, FitsOf, NoJobStep
<1>5. Grows
  BY <1>1, <1>3, <1>4 DEF Grows
<1>6. DraftHolds'
  <2>1. SUFFICES ASSUME NEW n \in DOMAIN draft', draft'[n] # Person
                 PROVE  IsShown(draft[n])' /\ Base(draft[n])' = n - 1
    BY DEF DraftHolds, Person, NoProposal, NoTurn
  <2>2. PICK r : r = draft'[n]
    OBVIOUS
  <2>3. n \in DOMAIN draft /\ draft[n] = r
    BY <1>3, <2>1, <2>2
  <2>4. IsShown(r) /\ Base(r) = n - 1
    BY <2>1, <2>2, <2>3 DEF AssistantIInv, StoreHolds, DraftHolds
  <2>5. IsShown(r)'
    BY <1>5, <2>4, WhatStays
  <2> QED BY <2>2, <2>4, <2>5 DEF IsShown, Base
<1>7. ApplicationsHold'
  BY <1>1, <1>3 DEF AssistantIInv, StoreHolds, ApplicationsHold, IsLanded
<1>8. AppHolds'
  BY <1>1, <1>5, AppStays DEF AssistantIInv
<1> QED BY <1>1, <1>3, <1>5, <1>6, <1>7, <1>8, DraftMoves

LEMMA CrashKeeps ==
  ASSUME AssistantIInv, Crash
  PROVE  AssistantIInv'
<1>1. /\ seg' = Idle /\ app' = IdleApp /\ ready' = {}
      /\ UNCHANGED <<jobVars, draft, applications, artifacts, offered>>
  BY DEF Crash
<1>2. JobGrows /\ NothingApplied /\ CompletedOps' = CompletedOps /\ job'.state = job.state
  BY <1>1, FitsOf, NoJobStep
<1>3. /\ StoreHolds /\ AppliedOnce /\ SuccessIsApplied
  BY DEF AssistantIInv
<1>4. Grows /\ DraftHolds' /\ ApplicationsHold' /\ Current \in Nat /\ Current' = Current
  BY <1>1, <1>2, <1>3, DraftStays DEF Current
<1>5. AppliedIsLanded' /\ AppHolds' /\ SuccessIsApplied' /\ ArtifactsHold'
  BY <1>1, <1>2, <1>3, <1>4, LandingsStay, AppEnds, SuccessStays, ArtifactsStay
<1>6. \A p \in ready' \cup offered' : IsShown(p)'
  BY <1>1, <1>3, <1>4, OffersStay
<1>7. SegmentHolds' /\ NoTurnTaken
  BY <1>1, SegmentEnds
<1>8. AppliedOnce'
  BY <1>2, <1>3, <1>4, <1>7, OnceStays DEF NoTurnTaken
<1>9. StoreHolds'
  BY <1>4, <1>5, <1>6 DEF StoreHolds, Grows, JobGrows
<1> QED BY <1>5, <1>7, <1>8, <1>9 DEF AssistantIInv

LEMMA AssistantIdles ==
  ASSUME AssistantIInv, UNCHANGED allVars
  PROVE  AssistantIInv'
<1>1. UNCHANGED <<jobVars, seg, draft, applications, artifacts, ready, offered, app>>
  BY DEF allVars, assistantVars
<1>2. JobGrows /\ NothingApplied /\ CompletedOps' = CompletedOps /\ SuccessKept
  BY <1>1, FitsOf, NoJobStep DEF SuccessKept
<1> QED BY <1>1, <1>2, BesideGrows, BesideSegment

LEMMA AssistantInitially == AssistantInit => AssistantIInv
<1> SUFFICES ASSUME AssistantInit PROVE AssistantIInv
  OBVIOUS
<1>1. /\ job = NoJob /\ journal = <<Fact("job.created")>> /\ Reserved = {}
      /\ draft = <<>> /\ DOMAIN applications = {} /\ DOMAIN artifacts = {}
      /\ ready = {} /\ offered = {} /\ seg = Idle /\ app = IdleApp
  BY DEF AssistantInit, JobInit, NoJob, Reserved
<1>2. IsSequence(journal) /\ IsSequence(draft) /\ Current = 0
  <2>1. journal \in Seq({Fact("job.created")}) /\ draft \in Seq({1}) /\ Len(draft) = 0
    BY <1>1
  <2> QED BY <2>1 DEF IsSequence, Current
<1>3. CompletedOps = {} /\ OperationsTyped
  BY <1>1 DEF CompletedOps, OperationsTyped, AssistantInit, JobInit, Reserved
<1>4. AppliedIsLanded
  BY <1>1 DEF AppliedIsLanded, Fact
<1>5. StoreHolds
  BY <1>1, <1>2, <1>3, <1>4 DEF StoreHolds, ArtifactsHold, DraftHolds, ApplicationsHold
<1>6. SegmentHolds
  BY <1>1 DEF SegmentHolds, Idle, NoTurn, At, OfTurnRead, FromContext, FromTurn,
     FromProduced, FromPreview, FromPreviewFact, Landing
<1>7. AppHolds /\ SuccessIsApplied /\ AppliedOnce
  BY <1>1, <1>3 DEF AppHolds, IdleApp, SuccessIsApplied, AppliedOnce, NoJob
<1> QED BY <1>5, <1>6, <1>7 DEF AssistantIInv

LEMMA AssistantSteps == AssistantIInv /\ [AssistantNext]_allVars => AssistantIInv'
<1> SUFFICES ASSUME AssistantIInv, [AssistantNext]_allVars PROVE AssistantIInv'
  OBVIOUS
<1>1. CASE SegmentStep
  BY <1>1, PinKeeps, ReadDraftKeeps, CompleteReadKeeps, ReadFactKeeps, SelectContextKeeps,
     TurnKeeps, FinishToolKeeps, SecondTurnKeeps, JournalProducedKeeps, ReservePreviewKeeps,
     PreviewKeeps, PreviewFactKeeps, DecideKeeps, LandKeeps, CompleteLandKeeps, LandFactKeeps,
     SucceedKeeps DEF SegmentStep
<1>2. CASE ApplyStep
  BY <1>2, LandApplyKeeps, LookAtJobKeeps, AuditKeeps DEF ApplyStep
<1>3. CASE \E i \in Instructions, resume \in BOOLEAN :
             RequestSegment(i, resume) \/ BeginSegment(i, resume)
  BY <1>3, RequestSegmentKeeps, BeginSegmentKeeps
<1>4. CASE \E p \in ready : OfferProposal(p)
  BY <1>4, OfferKeeps
<1>5. CASE \E p \in offered, key \in Keys : BeginApply(p, key)
  BY <1>5, BeginApplyKeeps
<1>6. CASE Cancel \/ PersonEdits \/ Crash
  BY <1>6, CancelKeeps, PersonEditsKeeps, CrashKeeps
<1>7. CASE UNCHANGED allVars
  BY <1>7, AssistantIdles
<1> QED BY <1>1, <1>2, <1>3, <1>4, <1>5, <1>6, <1>7 DEF AssistantNext

\* Whatever crashes, retries and people do in between, a saved proposal has its read and its
\* context behind it, and what is in the draft was produced and previewed
\* (runAuthorAssistantSegment, executeModelTurn and the apply route).
THEOREM ProposalsHaveEvidence == AssistantSpec => []EvidenceFirst
<1>1. AssistantIInv => EvidenceFirst
  BY DEF AssistantIInv, StoreHolds, ArtifactsHold, DraftHolds, IsShown, IsRead, EvidenceFirst
<1> QED BY AssistantInitially, AssistantSteps, <1>1, PTL DEF AssistantSpec

\* What the journal says was applied is that version of the draft, no proposal lands twice,
\* by whichever of the two ways and under whatever keys, and a job that succeeded has
\* journaled a landing (applyAuthoringProposalFromStore, ensureAppliedCheckpoint).
THEOREM LandingsAreTrue == AssistantSpec => []LandingsTrue
<1>1. AssistantIInv => LandingsTrue
  <2> SUFFICES ASSUME AssistantIInv PROVE LandingsTrue
    OBVIOUS
  <2>1. Current \in Nat /\ DOMAIN draft = 1 .. Current
    <3>1. PICK S : draft \in Seq(S)
      BY DEF AssistantIInv, StoreHolds, IsSequence
    <3> QED BY <3>1, LenProperties DEF Current
  <2>2. \A i \in DOMAIN journal : journal[i].kind = "proposal.applied" =>
          journal[i].revision <= Current /\ draft[journal[i].revision] = journal[i].proposal
    BY <2>1 DEF AssistantIInv, StoreHolds, AppliedIsLanded, IsLanded
  <2>3. \A m, n \in DOMAIN draft : draft[m] = draft[n] /\ draft[m] # Person => m = n
    <3>1. SUFFICES ASSUME NEW m \in 1 .. Current, NEW n \in 1 .. Current,
                          draft[m] = draft[n], draft[m] # Person
                   PROVE  m = n
      BY <2>1
    <3>2. Base(draft[m]) = m - 1 /\ Base(draft[n]) = n - 1
      BY <2>1, <3>1 DEF AssistantIInv, StoreHolds, DraftHolds
    <3>3. m - 1 = n - 1
      BY <3>1, <3>2
    <3> QED BY <2>1, <3>3
  <2> QED BY <2>2, <2>3 DEF LandingsTrue, AssistantIInv, SuccessIsApplied
<1> QED BY AssistantInitially, AssistantSteps, <1>1, PTL DEF AssistantSpec

-----------------------------------------------------------------------------
(* The executor and the routes are clients of the job: whatever they do in  *)
(* one step, they do to it through one of its operations.                   *)

\* No fact the assistant journals is one of the lifecycle's.
LEMMA FactsOfClients ==
  /\ \A i, resume : Requested(i, resume).kind \notin LifecycleKinds
  /\ Pinned.kind \notin LifecycleKinds
  /\ \A turn : Selected(turn).kind \notin LifecycleKinds
  /\ \A p : Produced(p).kind \notin LifecycleKinds
  /\ \A p, n : Applied(p, n).kind \notin LifecycleKinds
  /\ Fact("draft.read").kind \notin LifecycleKinds
  /\ Fact("proposal.previewed").kind \notin LifecycleKinds
BY DEF Requested, Pinned, Selected, Produced, Applied, Fact, LifecycleKinds

LEMMA MovesOfClients ==
  /\ \A version : \A to \in States : Transition(version, to) => ClientStep
  /\ \A version, fact :
       fact.kind \notin LifecycleKinds /\ AppendCheckpoint(version, fact) => ClientStep
  /\ \A version, id, request : Reserve(version, id, request) => ClientStep
  /\ \A id, request : \A time \in Nat : Complete(id, request, time) => ClientStep
BY DEF ClientStep

LEMMA GroupsOfMoves ==
  /\ Fail => [ClientStep]_jobVars
  /\ \A fact, pc : fact.kind \notin LifecycleKinds /\ Journal(fact, pc) => [ClientStep]_jobVars
  /\ \A fact, pc : fact.kind \notin LifecycleKinds /\ JournalOnce(fact, pc) => [ClientStep]_jobVars
  /\ \A id, pc : ReserveOp(id, pc) => [ClientStep]_jobVars
  /\ \A id, fresh, replayed : CompleteOp(id, fresh, replayed) => [ClientStep]_jobVars
<1>1. "failed" \in States /\ 0 \in Nat
  BY DEF States, Terminal
<1>2. Fail => [ClientStep]_jobVars
  BY <1>1, MovesOfClients DEF Fail
<1>3. Conflict => UNCHANGED jobVars
  BY DEF Conflict
<1>4. \A fact, pc : fact.kind \notin LifecycleKinds /\ Journal(fact, pc) => [ClientStep]_jobVars
  BY <1>3, MovesOfClients DEF Journal
<1>5. \A fact, pc : fact.kind \notin LifecycleKinds /\ JournalOnce(fact, pc) => [ClientStep]_jobVars
  BY <1>4 DEF JournalOnce
<1>6. \A id, pc : ReserveOp(id, pc) => [ClientStep]_jobVars
  BY <1>3, MovesOfClients DEF ReserveOp
<1>7. \A id, fresh, replayed : CompleteOp(id, fresh, replayed) => [ClientStep]_jobVars
  BY <1>1, MovesOfClients DEF CompleteOp
<1> QED BY <1>2, <1>4, <1>5, <1>6, <1>7

LEMMA SegmentIsAClient == SegmentStep => [ClientStep]_jobVars
<1> SUFFICES ASSUME SegmentStep PROVE [ClientStep]_jobVars
  OBVIOUS
<1>1. /\ 0 \in Nat /\ Times \subseteq Nat
      /\ "waiting_user" \in States /\ "succeeded" \in States
  BY GrantAssumption DEF States, Terminal
<1>2. Conflict => UNCHANGED jobVars
  BY DEF Conflict
<1>3. CASE Pin
  BY <1>3, FactsOfClients, GroupsOfMoves DEF Pin
<1>4. CASE ReadDraft
  BY <1>2, <1>4, MovesOfClients DEF ReadDraft
<1>5. CASE CompleteRead
  BY <1>5, GroupsOfMoves DEF CompleteRead
<1>6. CASE ReadFact
  BY <1>6, FactsOfClients, GroupsOfMoves DEF ReadFact
<1>7. CASE SelectContext
  BY <1>7, FactsOfClients, GroupsOfMoves DEF SelectContext
<1>8. Answers => [ClientStep]_jobVars
  BY GroupsOfMoves DEF Answers, jobVars
<1>9. CASE Turn
  <2>1. AskTool => [ClientStep]_jobVars
    BY GroupsOfMoves, MovesOfClients DEF AskTool
  <2> QED BY <1>8, <1>9, <2>1 DEF Turn, jobVars
<1>10. CASE FinishTool
  BY <1>1, <1>10, MovesOfClients DEF FinishTool
<1>11. CASE SecondTurn
  BY <1>8, <1>11 DEF SecondTurn
<1>12. CASE JournalProduced
  BY <1>12, FactsOfClients, GroupsOfMoves DEF JournalProduced
<1>13. CASE ReservePreview
  BY <1>13, GroupsOfMoves DEF ReservePreview
<1>14. CASE Preview
  BY <1>1, <1>14, MovesOfClients DEF Preview
<1>15. CASE PreviewFact
  BY <1>15, FactsOfClients, GroupsOfMoves DEF PreviewFact
<1>16. CASE Decide
  <2>1. WaitForUser => [ClientStep]_jobVars
    BY <1>1, <1>2, MovesOfClients DEF WaitForUser
  <2> QED BY <1>16, <2>1, GroupsOfMoves DEF Decide, jobVars
<1>17. CASE Land
  BY <1>17, GroupsOfMoves DEF Land
<1>18. CASE CompleteLand
  BY <1>18, GroupsOfMoves DEF CompleteLand
<1>19. CASE LandFact
  BY <1>19, FactsOfClients, GroupsOfMoves DEF LandFact
<1>20. CASE Succeed
  BY <1>1, <1>2, <1>20, MovesOfClients DEF Succeed
<1> QED BY <1>3, <1>4, <1>5, <1>6, <1>7, <1>9, <1>10, <1>11, <1>12, <1>13, <1>14, <1>15,
           <1>16, <1>17, <1>18, <1>19, <1>20 DEF SegmentStep

LEMMA AssistantIsAClient == [AssistantNext]_allVars => [ClientStep]_jobVars
<1> SUFFICES ASSUME [AssistantNext]_allVars PROVE [ClientStep]_jobVars
  OBVIOUS
<1>1. "running" \in States /\ "cancelled" \in States
  BY DEF States, Terminal
<1>2. ASSUME NEW i, NEW resume, RequestSegment(i, resume) PROVE ClientStep
  BY <1>2, FactsOfClients, MovesOfClients DEF RequestSegment
<1>3. ASSUME NEW i, NEW resume, BeginSegment(i, resume) PROVE [ClientStep]_jobVars
  BY <1>1, <1>3, MovesOfClients DEF BeginSegment
<1>4. CASE ApplyStep
  <2>1. CASE LandApply \/ LookAtJob
    BY <2>1 DEF LandApply, LookAtJob
  <2>2. CASE Audit
    BY <2>2, FactsOfClients, MovesOfClients DEF Audit, AppliedByApp
  <2> QED BY <1>4, <2>1, <2>2 DEF ApplyStep
<1>5. CASE Cancel
  BY <1>1, <1>5, MovesOfClients DEF Cancel
<1>6. ASSUME \/ \E p \in ready : OfferProposal(p)
             \/ \E p \in offered, key \in Keys : BeginApply(p, key)
             \/ PersonEdits \/ Crash
      PROVE  UNCHANGED jobVars
  BY <1>6 DEF OfferProposal, BeginApply, PersonEdits, Crash, jobVars
<1>7. CASE UNCHANGED allVars
  BY <1>7 DEF allVars
<1> QED BY <1>2, <1>3, <1>4, <1>5, <1>6, <1>7, SegmentIsAClient DEF AssistantNext

LEMMA AssistantKeepsJob == AssistantSpec => []IInv /\ [][DurableStep]_jobVars
<1>1. AssistantInit => IInv
  BY InitEstablishes DEF AssistantInit
<1>2. IInv /\ [AssistantNext]_allVars => IInv'
  BY AssistantIsAClient, ClientsKeep
<1>3. IInv /\ [AssistantNext]_allVars => [DurableStep]_jobVars
  BY AssistantIsAClient, ClientsKeep
<1> QED BY <1>1, <1>2, <1>3, PTL DEF AssistantSpec

\* The segment, the apply route and the cancellation move the job by its own operations
\* only, whatever ids they derive and whatever they journal: a job they work on keeps to
\* its budget and its journal ends with it (runAuthorAssistantSegment, markFailed,
\* ensureAppliedCheckpoint).
THEOREM AssistantKeepsTheLifecycle == AssistantSpec => [](BudgetPerPause /\ JournalEndsTheJob)
<1>1. IInv => BudgetPerPause /\ JournalEndsTheJob
  BY BudgetFromLeft DEF IInv
<1> QED BY <1>1, AssistantKeepsJob, PTL

\* No step of theirs takes back a fact, a completed operation or the end of the job, and
\* each moves the version, so that the version the segment last saw tells it of every
\* change made beside it.
THEOREM AssistantKeepsFacts == AssistantSpec => DurableFacts
BY AssistantKeepsJob, PTL DEF DurableFacts

-----------------------------------------------------------------------------
(* The conversation and the reads of references are clients of the job too. *)

CONSTANTS Callers, SegmentKeys, MaxMessages, LastDraft
VARIABLES messages, revision, active, calls
Conversation == INSTANCE AuthorConversation

CONSTANTS ToolCalls, Docs, Outputs, Unfit
VARIABLES tool, recorded, toolCalls, asked
Reads == INSTANCE ReferenceReads

\* Their moves of the job are those of any client.
LEMMA ConversationMoves ==
  /\ \A version : \A to \in States : Conversation!Transition(version, to) => ClientStep
  /\ \A version, fact :
       fact.kind \notin LifecycleKinds /\ Conversation!AppendCheckpoint(version, fact) => ClientStep
  /\ \A version, id, request : Conversation!Reserve(version, id, request) => ClientStep
  /\ \A id, request : \A time \in Nat : Conversation!Complete(id, request, time) => ClientStep
<1>1. \A version, to : Conversation!Transition(version, to) => Transition(version, to)
  BY DEF Conversation!Transition, Transition, Conversation!Allowed, Allowed, Conversation!WithState, WithState,
         Conversation!TransitionFact, TransitionFact, Conversation!Terminal, Terminal, Conversation!Bumped, Bumped,
         Conversation!Fact, Fact
<1>2. \A version, fact : Conversation!AppendCheckpoint(version, fact) => AppendCheckpoint(version, fact)
  BY DEF Conversation!AppendCheckpoint, AppendCheckpoint, Conversation!Terminal, Terminal, Conversation!Bumped, Bumped
<1>3. \A version, id, request : Conversation!Reserve(version, id, request) => Reserve(version, id, request)
  BY DEF Conversation!Reserve, Reserve, Conversation!Reserved, Reserved, Conversation!Runnable, Runnable,
         Conversation!BudgetExhausted, BudgetExhausted, Conversation!Bumped, Bumped
<1>4. \A id, request, time : Conversation!Complete(id, request, time) => Complete(id, request, time)
  BY DEF Conversation!Complete, Complete, Conversation!Known, Known, Conversation!Reserved, Reserved,
         Conversation!Runnable, Runnable, Conversation!Bumped, Bumped, Conversation!Fact, Fact
<1> QED BY <1>1, <1>2, <1>3, <1>4, MovesOfClients

LEMMA ReadsMoves ==
  /\ \A version : \A to \in States : Reads!Transition(version, to) => ClientStep
  /\ \A version, fact :
       fact.kind \notin LifecycleKinds /\ Reads!AppendCheckpoint(version, fact) => ClientStep
  /\ \A version, id, request : Reads!Reserve(version, id, request) => ClientStep
  /\ \A id, request : \A time \in Nat : Reads!Complete(id, request, time) => ClientStep
<1>1. \A version, to : Reads!Transition(version, to) => Transition(version, to)
  BY DEF Reads!Transition, Transition, Reads!Allowed, Allowed, Reads!WithState, WithState,
         Reads!TransitionFact, TransitionFact, Reads!Terminal, Terminal, Reads!Bumped, Bumped, Reads!Fact, Fact
<1>2. \A version, fact : Reads!AppendCheckpoint(version, fact) => AppendCheckpoint(version, fact)
  BY DEF Reads!AppendCheckpoint, AppendCheckpoint, Reads!Terminal, Terminal, Reads!Bumped, Bumped
<1>3. \A version, id, request : Reads!Reserve(version, id, request) => Reserve(version, id, request)
  BY DEF Reads!Reserve, Reserve, Reads!Reserved, Reserved, Reads!Runnable, Runnable,
         Reads!BudgetExhausted, BudgetExhausted, Reads!Bumped, Bumped
<1>4. \A id, request, time : Reads!Complete(id, request, time) => Complete(id, request, time)
  BY DEF Reads!Complete, Complete, Reads!Known, Known, Reads!Reserved, Reserved,
         Reads!Runnable, Runnable, Reads!Bumped, Bumped, Reads!Fact, Fact
<1> QED BY <1>1, <1>2, <1>3, <1>4, MovesOfClients

LEMMA ConversationIsAClient == [Conversation!ConversationNext]_(Conversation!conversationVars) => [ClientStep]_jobVars
<1> SUFFICES ASSUME [Conversation!ConversationNext]_(Conversation!conversationVars) PROVE [ClientStep]_jobVars
  OBVIOUS
<1> USE DEF Conversation!jobVars, jobVars
<1>2. {"running", "waiting_user", "failed", "cancelled"} \subseteq States /\ 0 \in Nat
  BY DEF States, Terminal
<1>3. ASSUME NEW c, Conversation!FailSegment(c) PROVE [ClientStep]_jobVars
  BY <1>2, <1>3, ConversationMoves DEF Conversation!FailSegment
<1>4. ASSUME NEW c, NEW x, NEW next, Conversation!ReserveOperation(c, x, next) PROVE [ClientStep]_jobVars
  BY <1>4, ConversationMoves DEF Conversation!ReserveOperation
<1>5. ASSUME NEW c, Conversation!JournalRequest(c) PROVE [ClientStep]_jobVars
  <2>1. \A key, hash : [kind |-> "segment.requested", key |-> key, hash |-> hash].kind \notin LifecycleKinds
    BY DEF LifecycleKinds
  <2> QED BY <1>5, <2>1, ConversationMoves DEF Conversation!JournalRequest
<1>6. ASSUME NEW c, Conversation!StartSegment(c) PROVE [ClientStep]_jobVars
  BY <1>2, <1>6, ConversationMoves DEF Conversation!StartSegment
<1>7. ASSUME NEW c, Conversation!CompleteOperation(c) PROVE [ClientStep]_jobVars
  BY <1>2, <1>7, ConversationMoves DEF Conversation!CompleteOperation
<1>8. ASSUME NEW c, Conversation!Answer(c) PROVE [ClientStep]_jobVars
  BY <1>3, <1>8 DEF Conversation!Answer
<1>9. ASSUME NEW c, Conversation!ProduceProposal(c) PROVE [ClientStep]_jobVars
  <2>1. \A p : Conversation!Produced(p).kind \notin LifecycleKinds
    BY DEF LifecycleKinds, Conversation!Produced
  <2> QED BY <1>9, <2>1, ConversationMoves DEF Conversation!ProduceProposal
<1>10. ASSUME NEW c, Conversation!SettleSegment(c) PROVE [ClientStep]_jobVars
  BY <1>2, <1>3, <1>10, ConversationMoves DEF Conversation!SettleSegment
<1>11. ASSUME NEW c, Conversation!ReadDraft(c) \/ Conversation!Preview(c) PROVE [ClientStep]_jobVars
  BY <1>4, <1>11 DEF Conversation!ReadDraft, Conversation!Preview
<1>12. ASSUME NEW c, \/ \E k, ask : Conversation!Receive(c, k, ask)
                     \/ Conversation!AppendAuthorMessage(c) \/ Conversation!BeginActiveSegment(c)
                     \/ Conversation!PreviewProposal(c) \/ Conversation!AppendAssistantMessage(c)
       PROVE  UNCHANGED jobVars
  BY <1>12 DEF Conversation!Receive, Conversation!AppendAuthorMessage, Conversation!BeginActiveSegment,
                     Conversation!PreviewProposal, Conversation!AppendAssistantMessage
<1>13. CASE Conversation!Cancel
  BY <1>2, <1>13, ConversationMoves DEF Conversation!Cancel
<1>14. CASE Conversation!DraftMoves \/ Conversation!Crash
  BY <1>14 DEF Conversation!DraftMoves, Conversation!Crash
<1>15. CASE UNCHANGED Conversation!conversationVars
  BY <1>15 DEF Conversation!conversationVars, jobVars
<1> QED BY <1>5, <1>6, <1>7, <1>8, <1>9, <1>10, <1>11, <1>12, <1>13, <1>14, <1>15 DEF Conversation!ConversationNext

LEMMA ConversationKeepsJob == Conversation!ConversationSpec => []IInv /\ [][DurableStep]_jobVars
<1>1. Conversation!ConversationInit => IInv
  <2>1. Conversation!JobInit => JobInit
    BY DEF Conversation!JobInit, JobInit, Conversation!Fact, Fact
  <2> QED BY <2>1, InitEstablishes DEF Conversation!ConversationInit
<1>2. IInv /\ [Conversation!ConversationNext]_(Conversation!conversationVars) => IInv'
  BY ConversationIsAClient, ClientsKeep
<1>3. IInv /\ [Conversation!ConversationNext]_(Conversation!conversationVars) => [DurableStep]_jobVars
  BY ConversationIsAClient, ClientsKeep
<1> QED BY <1>1, <1>2, <1>3, PTL DEF Conversation!ConversationSpec

\* Requests, retries, messages and crashes of a conversation keep the job to its budget, and
\* its journal ends with it (author-job-http.ts over runAuthorAssistantSegment).
THEOREM ConversationKeepsTheLifecycle ==
  Conversation!ConversationSpec => [](BudgetPerPause /\ JournalEndsTheJob)
<1>1. IInv => BudgetPerPause /\ JournalEndsTheJob
  BY BudgetFromLeft DEF IInv
<1> QED BY <1>1, ConversationKeepsJob, PTL

\* No step of a conversation takes back a fact, a completed operation or the end of the job,
\* and each that changes the job moves its version.
THEOREM ConversationKeepsFacts == Conversation!ConversationSpec => DurableFacts
BY ConversationKeepsJob, PTL DEF DurableFacts

LEMMA ReadsAreAClient == [Reads!ReadsNext]_(Reads!readVars) => [ClientStep]_jobVars
<1> SUFFICES ASSUME [Reads!ReadsNext]_(Reads!readVars) PROVE [ClientStep]_jobVars
  OBVIOUS
<1> USE DEF Reads!jobVars, jobVars
<1>1. ASSUME NEW c, NEW code, Reads!Denied(c, code) PROVE UNCHANGED jobVars
  BY <1>1 DEF Reads!Denied
<1>2. ASSUME NEW c, NEW result, Reads!Records(c, result) PROVE ClientStep
  <2>1. Times \subseteq Nat
    BY GrantAssumption
  <2> QED BY <1>2, <2>1, ReadsMoves DEF Reads!Records
<1>3. ASSUME NEW c, \/ \E id, request : Reads!CallTool(c, id, request)
                    \/ Reads!FindPin(c) \/ Reads!AskTransport(c)
      PROVE  UNCHANGED jobVars
  <2>1. CASE \E id, request : Reads!CallTool(c, id, request)
    BY <2>1 DEF Reads!CallTool
  <2>2. CASE Reads!FindPin(c)
    BY <1>1, <2>2 DEF Reads!FindPin
  <2>3. CASE Reads!AskTransport(c)
    BY <2>3 DEF Reads!AskTransport
  <2> QED BY <1>3, <2>1, <2>2, <2>3
<1>4. ASSUME NEW c, Reads!WritePin(c) PROVE [ClientStep]_jobVars
  <2>1. \A docs : Reads!PinOf(docs).kind \notin LifecycleKinds
    BY DEF Reads!PinOf, LifecycleKinds
  <2> QED BY <1>1, <1>4, <2>1, ReadsMoves DEF Reads!WritePin
<1>5. ASSUME NEW c, Reads!ReserveRead(c) PROVE [ClientStep]_jobVars
  BY <1>1, <1>5, ReadsMoves DEF Reads!ReserveRead
<1>6. ASSUME NEW c, \/ Reads!Offline(c) \/ Reads!TransportAnswers(c) \/ Reads!TransportFails(c)
                    \/ Reads!TimerFires(c) \/ Reads!CallerAborts(c)
      PROVE  ClientStep
  BY <1>2, <1>6 DEF Reads!Offline, Reads!TransportAnswers, Reads!TransportFails, Reads!TimerFires, Reads!CallerAborts
<1>7. CASE Reads!JobMoves
  <2>1. CASE \E to \in Reads!States : Reads!Transition(job.version, to)
    BY <2>1, ReadsMoves DEF Reads!States, States, Reads!Terminal, Terminal
  <2>2. CASE \E note \in Notes : Reads!AppendCheckpoint(job.version, Reads!Fact(note))
    <3>1. \A note \in Notes : Reads!Fact(note).kind \notin LifecycleKinds
      BY NotesAssumption DEF Reads!Fact
    <3> QED BY <2>2, <3>1, ReadsMoves
  <2> QED BY <1>7, <2>1, <2>2 DEF Reads!JobMoves
<1>8. CASE Reads!ConnectionChanges \/ Reads!Restart
  BY <1>8 DEF Reads!ConnectionChanges, Reads!Restart
<1>9. CASE UNCHANGED Reads!readVars
  BY <1>9 DEF Reads!readVars
<1>10. ASSUME NEW c, Reads!ReadStep(c) PROVE [ClientStep]_jobVars
  BY <1>3, <1>4, <1>5, <1>6, <1>10 DEF Reads!ReadStep
<1> QED BY <1>7, <1>8, <1>9, <1>10 DEF Reads!ReadsNext

LEMMA ReadsKeepJob == Reads!ReadsSpec => []IInv /\ [][DurableStep]_jobVars
<1>1. Reads!ReadsInit => IInv
  <2>1. Reads!JobInit => JobInit
    BY DEF Reads!JobInit, JobInit, Reads!Fact, Fact
  <2> QED BY <2>1, InitEstablishes DEF Reads!ReadsInit
<1>2. IInv /\ [Reads!ReadsNext]_(Reads!readVars) => IInv'
  BY ReadsAreAClient, ClientsKeep
<1>3. IInv /\ [Reads!ReadsNext]_(Reads!readVars) => [DurableStep]_jobVars
  BY ReadsAreAClient, ClientsKeep
<1> QED BY <1>1, <1>2, <1>3, PTL DEF Reads!ReadsSpec

\* The brokered reads of a job keep it to its budget, and its journal ends with it, although
\* a result is recorded whatever became of the job meanwhile (completeOperation).
THEOREM ReadsKeepTheLifecycle == Reads!ReadsSpec => [](BudgetPerPause /\ JournalEndsTheJob)
<1>1. IInv => BudgetPerPause /\ JournalEndsTheJob
  BY BudgetFromLeft DEF IInv
<1> QED BY <1>1, ReadsKeepJob, PTL

\* No read takes back a fact, a completed operation or the end of the job, and each step that
\* changes the job moves its version.
THEOREM ReadsKeepFacts == Reads!ReadsSpec => DurableFacts
BY ReadsKeepJob, PTL DEF DurableFacts
=============================================================================
