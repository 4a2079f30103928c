--------------------------- MODULE ReferenceReads ---------------------------
(***************************************************************************)
(* One read of an external reference on behalf of a job: the brokered call *)
(* invokeBrokeredAuthorReferenceRead (author-tool-loop.ts) with the broker *)
(* that pins and authorizes it (author-tool-broker.ts) and the race of its *)
(* transport against a timer and the caller (author-mcp.ts).  The read is  *)
(* reserved as an operation of the job before the transport is asked, and  *)
(* its result is recorded with the operation; a call that finds the        *)
(* operation completed is answered from the record.                        *)
(*                                                                         *)
(* Between two awaits the job may be moved, paused or closed by others,    *)
(* the connection may go, and the process may die; the next one may have   *)
(* other documents installed.                                              *)
(***************************************************************************)
EXTENDS AuthorAgentJobs

CONSTANTS
  ToolCalls,    \* calls of the tool
  Docs,         \* hashes of the installed agent kit, a new build's among them
  Outputs       \* what the transport may hand over, Unfit among it

CONSTANT Unfit  \* an output that cannot be kept: not JSON, or too long
ASSUME UnfitAssumption == Unfit \in Outputs

\* Nobody but the broker journals its pin.
ASSUME PinAssumption == "broker.pinned" \notin Notes

VARIABLES
  tool,         \* the running build's documents, the connection, the grant
  recorded,     \* the results kept with the completed operations
  toolCalls,    \* what each call is doing
  asked         \* auxiliary: per operation, the documents of each asking build

toolVars == <<tool, recorded, toolCalls, asked>>
readVars == <<jobVars, toolVars>>

NotCalled == [at |-> "idle"]
Unavailable(code) == [outcome |-> "unavailable", code |-> code]
InvalidResponse == [outcome |-> "invalid_response"]
CompletedWith(output) == [outcome |-> "completed", output |-> output]

ToolAt(c, at) == toolCalls[c].at = at
Goes(c, at, version) == toolCalls' = [toolCalls EXCEPT ![c].at = at, ![c].version = version]

\* The call ends with an answer that is no result of a read.
Denied(c, code) ==
  /\ toolCalls' = [toolCalls EXCEPT ![c] = [at |-> "denied", code |-> code]]
  /\ UNCHANGED <<jobVars, tool, recorded, asked>>

\* replayResult: what is told is what the operation's record says.
Tells(c, result, replay) ==
  toolCalls' = [toolCalls EXCEPT ![c] =
    [at |-> "answered", id |-> @.id, request |-> @.request, result |-> result, replay |-> replay]]

-----------------------------------------------------------------------------
(* The broker's pin: the documents the job was begun with, journaled once. *)

PinOf(docs) == [kind |-> "broker.pinned", docs |-> docs]
PinsOf(facts) == {facts[i] : i \in Positions(facts, "broker.pinned")}

\* The one pin of the job is the one the running build would make.
PinHolds == Count("broker.pinned") = 1 /\ PinsOf(journal) = {PinOf(tool.docs)}

\* What authorizeAuthorToolBrokerRequest says under a pin that holds.
Authorized == tool.granted

CallTool(c, id, request) ==
  /\ toolCalls[c] = NotCalled
  /\ toolCalls' = [toolCalls EXCEPT ![c] =
       [at |-> "pin", id |-> id, request |-> request, version |-> job.version, online |-> FALSE]]
  /\ UNCHANGED <<jobVars, tool, recorded, asked>>

\* ensureAuthorToolBrokerPin reads the journal.
FindPin(c) ==
  /\ ToolAt(c, "pin")
  /\ CASE Count("broker.pinned") = 0 ->
            /\ Goes(c, "write", toolCalls[c].version)
            /\ UNCHANGED <<jobVars, tool, recorded, asked>>
       [] PinHolds ->
            /\ Goes(c, "reserve", toolCalls[c].version)
            /\ UNCHANGED <<jobVars, tool, recorded, asked>>
       [] OTHER -> Denied(c, "broker_denied")

\* The pin is journaled under the version the call began with.
WritePin(c) ==
  /\ ToolAt(c, "write")
  /\ \/ /\ AppendCheckpoint(toolCalls[c].version, PinOf(tool.docs))
        /\ Goes(c, "reserve", job'.version)
        /\ UNCHANGED <<tool, recorded, asked>>
     \/ job.version # toolCalls[c].version /\ Denied(c, "job_conflict")
     \/ job.version = toolCalls[c].version /\ job.state \in Terminal /\ Denied(c, "broker_denied")

-----------------------------------------------------------------------------
(* The reservation.                                                        *)

\* A bug: a reservation that is still pending is taken over by the retry.
ReserveTakesOver(c) ==
  LET call == toolCalls[c] IN
  /\ ToolAt(c, "reserve") /\ Authorized
  /\ \/ /\ Reserve(call.version, call.id, call.request)
        /\ toolCalls' = [toolCalls EXCEPT ![c].at = "send", ![c].online = tool.online]
        /\ UNCHANGED <<tool, recorded, asked>>
     \/ /\ Known(call.id, call.request) /\ call.id \notin CompletedOps
        /\ toolCalls' = [toolCalls EXCEPT ![c].at = "send", ![c].online = tool.online]
        /\ UNCHANGED <<jobVars, tool, recorded, asked>>

\* The authorization, whose word on the connection is kept, and reserveOperation.
\* An operation id already reserved is answered before the version is looked at.
ReserveRead(c) ==
  LET call == toolCalls[c]
      free == call.id \notin Reserved
      current == call.version = job.version
  IN
  /\ ToolAt(c, "reserve")
  /\ \/ ~Authorized /\ Denied(c, "broker_denied")
     \/ /\ Authorized /\ Reserve(call.version, call.id, call.request)
        /\ toolCalls' = [toolCalls EXCEPT ![c].at = "send", ![c].online = tool.online]
        /\ UNCHANGED <<tool, recorded, asked>>
     \/ /\ Authorized /\ Known(call.id, call.request) /\ call.id \in CompletedOps
        /\ Tells(c, recorded[call.id], TRUE)
        /\ UNCHANGED <<jobVars, tool, recorded, asked>>
     \/ /\ Authorized /\ Known(call.id, call.request) /\ call.id \notin CompletedOps
        /\ Denied(c, "pending")
     \/ /\ Authorized /\ ~free /\ ~Known(call.id, call.request)
        /\ Denied(c, "operation_id_reused")
     \/ Authorized /\ free /\ ~current /\ Denied(c, "job_conflict")
     \/ Authorized /\ free /\ current /\ ~Runnable /\ Denied(c, "job_not_runnable")
     \/ /\ Authorized /\ free /\ current /\ Runnable /\ BudgetExhausted
        /\ Denied(c, "paused_budget")

-----------------------------------------------------------------------------
(* The transport.                                                          *)

\* completeOperation and the answer: whatever became of the job meanwhile.
Records(c, result) ==
  LET call == toolCalls[c] IN
  /\ \E t \in Times : Complete(call.id, call.request, t)
  /\ recorded' = [o \in DOMAIN recorded \cup {call.id} |->
                    IF o = call.id THEN result ELSE recorded[o]]
  /\ Tells(c, result, FALSE)
  /\ UNCHANGED <<tool, asked>>

\* A connection that is gone is not asked, whether it went before or after the
\* reservation.
Offline(c) ==
  /\ ToolAt(c, "send") /\ ~(toolCalls[c].online /\ tool.online)
  /\ Records(c, Unavailable("mcp_offline"))

AskTransport(c) ==
  /\ ToolAt(c, "send") /\ toolCalls[c].online /\ tool.online
  /\ toolCalls' = [toolCalls EXCEPT ![c].at = "race"]
  /\ asked' = [asked EXCEPT ![toolCalls[c].id] = Append(@, tool.docs)]
  /\ UNCHANGED <<jobVars, tool, recorded>>

\* The first of the transport's answer, the timer and the caller's abort is the
\* result; whatever comes after it is dropped.
Normalized(output) == IF output = Unfit THEN InvalidResponse ELSE CompletedWith(output)

TransportAnswers(c) ==
  /\ ToolAt(c, "race")
  /\ \E output \in Outputs : Records(c, Normalized(output))

TransportFails(c) ==
  /\ ToolAt(c, "race")
  /\ \E code \in {"mcp_offline", "mcp_transport_error"} : Records(c, Unavailable(code))

TimerFires(c) == ToolAt(c, "race") /\ Records(c, Unavailable("mcp_timeout"))

CallerAborts(c) == ToolAt(c, "race") /\ Records(c, Unavailable("mcp_aborted"))

-----------------------------------------------------------------------------
(* Around the calls.                                                       *)

JobMoves ==
  /\ \/ \E to \in States : Transition(job.version, to)
     \/ \E note \in Notes : AppendCheckpoint(job.version, Fact(note))
  /\ UNCHANGED toolVars

ConnectionChanges ==
  /\ tool' = [tool EXCEPT !.online = ~@]
  /\ UNCHANGED <<jobVars, recorded, toolCalls, asked>>

\* The calls under way are lost; the next process may be a newer build.  The documents
\* are files of the build, and stay as they are while it runs.
Restart ==
  /\ \E docs \in Docs : tool' = [tool EXCEPT !.docs = docs]
  /\ toolCalls' = [c \in ToolCalls |->
       IF toolCalls[c].at \in {"pin", "write", "reserve", "send", "race"}
       THEN [at |-> "denied", code |-> "lost"] ELSE toolCalls[c]]
  /\ UNCHANGED <<jobVars, recorded, asked>>

-----------------------------------------------------------------------------
ReadsInit ==
  /\ JobInit
  /\ tool \in [docs : Docs, online : BOOLEAN, granted : BOOLEAN]
  /\ recorded = [o \in {} |-> {}]
  /\ toolCalls = [c \in ToolCalls |-> NotCalled]
  /\ asked = [o \in Operations |-> <<>>]

ReadStep(c) ==
  \/ \E id \in Operations, request \in Requests : CallTool(c, id, request)
  \/ FindPin(c) \/ WritePin(c) \/ ReserveRead(c)
  \/ Offline(c) \/ AskTransport(c)
  \/ TransportAnswers(c) \/ TransportFails(c) \/ TimerFires(c) \/ CallerAborts(c)

ReadsNext ==
  \/ \E c \in ToolCalls : ReadStep(c)
  \/ job.version < MaxVersion /\ JobMoves
  \/ ConnectionChanges \/ Restart

ReadsSpec == ReadsInit /\ [][ReadsNext]_readVars

-----------------------------------------------------------------------------
(* Properties.                                                             *)

\* One read, one result: whatever calls, retries and restarts there were under an
\* operation id, the transport has been asked at most once, on a reservation charged
\* to the job and by a build whose documents the job is pinned to; and every answer,
\* the first and the replayed ones, is the result recorded for that very request.
ReadsAreRecordedOnce ==
  /\ Count("broker.pinned") <= 1
  /\ \A o \in Operations :
       /\ Len(asked[o]) <= 1
       /\ \A i \in DOMAIN asked[o] :
            o \in Reserved /\ tool.granted /\ PinOf(asked[o][i]) \in PinsOf(journal)
  /\ \A c \in ToolCalls : ToolAt(c, "answered") =>
       /\ toolCalls[c].id \in CompletedOps
       /\ recorded[toolCalls[c].id] = toolCalls[c].result
       /\ ops[toolCalls[c].id].request = toolCalls[c].request
=============================================================================
