------------------------------- MODULE Studio -------------------------------
(***************************************************************************)
(* The Studio in the author's browser.  Its state is one object that every *)
(* handler of a click reads before it sends a request and writes when the  *)
(* answer arrives; nothing keeps two handlers apart, so the answers of one *)
(* meet the state another one left.  The control server serves requests    *)
(* atomically, other authors work on the same quests, and any request or   *)
(* answer may be lost.                                                     *)
(*                                                                         *)
(* A quest stands for its project and its id, a revision of a quest for    *)
(* the content hash of that revision.                                      *)
(***************************************************************************)
EXTENDS Naturals, Sequences, FiniteSets

CONSTANTS
  Quests,          \* quests of the server
  Releases,        \* release ids
  Handlers,        \* handlers that may be under way at once
  Desks,           \* the sets of panels an author may work with
  MaxDraft,        \* bound on the draft revisions another author makes
  MaxClicks        \* bound on the clicks of the author

None == "none"
NotUsed == [op |-> "none"]
Panels == {"versions", "playtest", "author", "copies", "deletion", "session"}

ASSUME None \notin Quests \cup Releases /\ Desks \subseteq SUBSET Panels

VARIABLES
  server,          \* revision, current release, releases, edits landed
  ui,              \* the state object of StudioApp
  handlers,        \* the request each handler waits for, and what it keeps
  clicks,          \* clicks of the author so far
  desk             \* the panels this author works with

studioVars == <<server, ui, handlers, clicks, desk>>

Cleared == [validation |-> NotUsed, playtest |-> NotUsed, versions |-> NotUsed, assistant |-> NotUsed,
            conflict |-> NotUsed, restore |-> NotUsed, build |-> NotUsed, report |-> NotUsed,
            receipt |-> NotUsed]
\* { ...g, ...f }: @@ of the module TLC, which the provers do not know.
Joined(f, g) == [x \in DOMAIN f \cup DOMAIN g |-> IF x \in DOMAIN f THEN f[x] ELSE g[x]]
With(u, changes) == [f \in DOMAIN u |-> IF f \in DOMAIN changes THEN changes[f] ELSE u[f]]

DraftOf(q) == [op |-> "draft", quest |-> q, revision |-> server.revision[q]]
VersionsOf(q) == [op |-> "versions", quest |-> q, current |-> server.current[q],
                  releases |-> server.releases[q]]

\* The author has opened a quest, and its releases have been built.
StudioInit ==
  /\ server = [revision |-> [q \in Quests |-> 0], current |-> [q \in Quests |-> None],
               releases |-> [q \in Quests |-> Releases], landed |-> <<>>]
  /\ \E q \in Quests :
       ui = With(Joined(Cleared, [quest |-> q, draft |-> DraftOf(q), phase |-> "idle",
                                  deletion |-> NotUsed, trace |-> NotUsed, player |-> NotUsed]),
                 [versions |-> VersionsOf(q), assistant |-> DraftOf(q)])
  /\ handlers = [h \in Handlers |-> NotUsed]
  /\ clicks = 0
  /\ desk \in Desks

(***************************************************************************)
(* Requests.  A handler sends the requests of todo one after the other;    *)
(* asking for versions empties the panel, and asking for the comparison of *)
(* a conflict shows the conflict phase.                                    *)
(***************************************************************************)
Asked(u, request) ==
  CASE request = "versions" -> [u EXCEPT !.versions = NotUsed]
    [] request = "compare" -> [u EXCEPT !.restore = NotUsed, !.phase = "conflict"]
    [] OTHER -> u

Sends(h, call, todo, u) ==
  /\ handlers' = [handlers EXCEPT ![h] =
       Joined(call, [todo |-> todo, end |-> "idle", state |-> "sent", answer |-> <<>>])]
  /\ ui' = Asked(u, Head(todo))

\* end: the phase that is set when the last of them is answered.
Continues(h, todo, end, u) ==
  /\ handlers' = [handlers EXCEPT ![h] =
       [@ EXCEPT !.todo = todo, !.end = end, !.state = "sent", !.answer = <<>>]]
  /\ ui' = Asked(u, Head(todo))

Ends(h, u) == handlers' = [handlers EXCEPT ![h] = NotUsed] /\ ui' = u

Clicked == clicks < MaxClicks /\ clicks' = clicks + 1 /\ UNCHANGED <<server, desk>>
Starts(h, call, todo, u) == handlers[h] = NotUsed /\ Clicked /\ Sends(h, call, todo, u)
OnlyShows(u) == Clicked /\ ui' = u /\ UNCHANGED handlers
Ready == ui.quest # None /\ ui.draft # NotUsed

(***************************************************************************)
(* Clicks.                                                                 *)
(***************************************************************************)
SelectProject(h) ==
  Starts(h, [op |-> "project", quest |-> None], <<"quests">>,
         With(ui, Joined(Cleared, [quest |-> None, draft |-> NotUsed, phase |-> "busy"])))

\* The draft of the quest before stays until the new one arrives.
Selected(u, q) == With(u, Joined(Cleared, [quest |-> q, phase |-> "busy"]))
SelectQuest(h, q) ==
  Starts(h, [op |-> "select", quest |-> q], <<"draft", "versions", "assistant">>, Selected(ui, q))

SaveCall(edit, form) ==
  [op |-> "save", quest |-> ui.quest, base |-> ui.draft.revision, edit |-> edit,
   form |-> form, fresh |-> 0]

\* The edit is named by the click that submits it: the form stays on the page and is
\* not disabled meanwhile, and what is submitted from it again is another edit.
ThisEdit == clicks + 1
SaveChanges(h) ==
  Ready /\ Starts(h, SaveCall(ThisEdit, TRUE), <<"save">>, [ui EXCEPT !.phase = "busy"])

RetryOf(u, h) ==
  Starts(h, SaveCall(ui.conflict.edit, FALSE), <<"save">>, u)

RetryKeepsConflict(h) ==
  /\ Ready /\ ui.conflict # NotUsed
  /\ RetryOf([ui EXCEPT !.phase = "busy"], h)

RetryConflict(h) ==
  /\ Ready /\ ui.conflict # NotUsed
  /\ RetryOf([ui EXCEPT !.conflict = NotUsed, !.phase = "busy"], h)

CancelConflict ==
  ui.conflict # NotUsed /\ OnlyShows([ui EXCEPT !.conflict = NotUsed, !.phase = "idle"])

\* A revision of the history that is not the draft's.
PrepareRestore(source) ==
  /\ Ready /\ source <= server.revision[ui.quest] /\ source # ui.draft.revision
  /\ OnlyShows([ui EXCEPT !.restore = [op |-> "restore", base |-> ui.draft.revision],
                          !.phase = "idle"])

ConfirmRestore(h) ==
  /\ Ready /\ ui.restore # NotUsed
  /\ IF ui.restore.base # ui.draft.revision
     THEN OnlyShows([ui EXCEPT !.restore = NotUsed, !.phase = "conflict"])
     ELSE Starts(h, [op |-> "restore", quest |-> ui.quest, base |-> ui.restore.base],
                 <<"restore">>, [ui EXCEPT !.phase = "busy"])

Validated ==
  ui.validation = [op |-> "validation", quest |-> ui.draft.quest, revision |-> ui.draft.revision]

PrepareReleaseBuild(r) ==
  /\ Ready /\ Validated
  /\ OnlyShows([ui EXCEPT !.build = [op |-> "build", release |-> r, validation |-> ui.validation],
                          !.report = NotUsed])

ConfirmReleaseBuild(h) ==
  /\ Ready /\ ui.build # NotUsed
  /\ IF ~Validated \/ ui.validation # ui.build.validation
     THEN OnlyShows([ui EXCEPT !.build = NotUsed, !.phase = "conflict"])
     ELSE Starts(h, [op |-> "build", quest |-> ui.quest, release |-> ui.build.release],
                 <<"build">>, [ui EXCEPT !.phase = "busy"])

PreparePublicationReport(r) ==
  /\ Ready /\ ui.versions # NotUsed
  /\ r \in ui.versions.releases /\ r # ui.versions.current
  /\ OnlyShows([ui EXCEPT !.report = [op |-> "report", release |-> r, from |-> ui.versions],
                          !.build = NotUsed, !.receipt = NotUsed])

ConfirmPublication(h) ==
  /\ Ready /\ ui.report # NotUsed /\ ui.versions # NotUsed
  /\ IF \/ ui.versions.current # ui.report.from.current
        \/ ui.report.release \notin ui.versions.releases
        \/ ui.versions.quest # ui.report.from.quest
     THEN OnlyShows([ui EXCEPT !.report = NotUsed, !.receipt = NotUsed, !.deletion = NotUsed,
                               !.phase = "conflict"])
     ELSE Starts(h, [op |-> "publish", quest |-> ui.quest, release |-> ui.report.release,
                     expected |-> ui.report.from.current], <<"publish">>,
                 [ui EXCEPT !.phase = "busy"])

CancelIntent ==
  \E intent \in {"restore", "build", "report", "deletion"} :
    ui[intent] # NotUsed /\ OnlyShows([ui EXCEPT ![intent] = NotUsed])

PrepareDeleteBlock(h) ==
  /\ Ready
  /\ Starts(h, [op |-> "references", quest |-> ui.quest, revision |-> ui.draft.revision],
            <<"references">>, ui)

ConfirmDeleteBlock(h) ==
  /\ Ready /\ ui.deletion # NotUsed
  /\ IF ui.draft.revision # ui.deletion.base THEN OnlyShows([ui EXCEPT !.phase = "conflict"])
     ELSE Starts(h, SaveCall(ThisEdit, FALSE), <<"save">>,
                 [ui EXCEPT !.deletion = NotUsed, !.phase = "busy"])

ValidateCurrentDraft(h) ==
  /\ Ready /\ ui.phase # "validating"
  /\ Starts(h, [op |-> "validate", quest |-> ui.quest, revision |-> ui.draft.revision],
            <<"validate">>, [ui EXCEPT !.phase = "validating"])

CreateCurrentPlaytest(h) ==
  /\ Ready /\ Validated /\ ui.phase # "freezing"
  /\ Starts(h, [op |-> "playtest", quest |-> ui.quest, of |-> ui.validation],
            <<"playtest">>, [ui EXCEPT !.phase = "freezing"])

RefreshPlaytestEvidence(h) ==
  /\ Ready /\ ui.playtest # NotUsed
  /\ Starts(h, [op |-> "trace", quest |-> ui.quest, of |-> ui.playtest], <<"trace">>, ui)

\* Starting a job, sending it a message and stopping it.
AskAuthorAssistant(h) ==
  /\ Ready /\ ui.phase # "assistant"
  /\ Starts(h, [op |-> "author", quest |-> ui.quest], <<"author", "assistant">>,
            [ui EXCEPT !.phase = "assistant"])

\* A card whose preview was stale already when it was read is only read again.
ApplyAuthorProposal(h) ==
  /\ Ready /\ ui.assistant # NotUsed /\ ui.phase # "assistant"
  /\ \/ Starts(h, [op |-> "apply", quest |-> ui.quest, base |-> ui.assistant.revision],
               <<"apply">>, [ui EXCEPT !.phase = "assistant"])
     \/ Starts(h, [op |-> "apply", quest |-> ui.quest, end |-> "conflict"], <<"assistant">>, ui)

LaunchCurrentPlayer(h) ==
  /\ Ready /\ ui.playtest # NotUsed
  /\ \A x \in Handlers : handlers[x].op # "launch"
  /\ Starts(h, [op |-> "launch", quest |-> ui.quest, of |-> ui.playtest], <<"launch">>, ui)

\* A clone and an import open the quest they made.
CopyCall(new) == [op |-> "copy", quest |-> new]
CloneSelectedQuest(h, new) ==
  /\ Ready /\ new # ui.quest
  /\ Starts(h, CopyCall(new), <<"copy", "quests">>, [ui EXCEPT !.phase = "busy"])

ImportQuestFile(h, new) ==
  /\ ui.draft # NotUsed /\ new # ui.quest
  /\ Starts(h, CopyCall(new), <<"copy", "quests">>, [ui EXCEPT !.phase = "busy"])

ExportQuest(h) ==
  Ready /\ Starts(h, [op |-> "export", quest |-> ui.quest], <<"export">>, ui)

Logout(h) == Starts(h, [op |-> "logout", quest |-> None], <<"logout", "access">>, ui)

(***************************************************************************)
(* The server.                                                             *)
(***************************************************************************)
Answers(h, outcome) ==
  handlers' = [handlers EXCEPT ![h] = [@ EXCEPT !.state = "answered", !.answer = outcome]]
Reads(h, value) == Answers(h, <<"ok", value>>) /\ UNCHANGED server
Refuses(h) == Answers(h, <<"conflict">>) /\ UNCHANGED server
NewRevision(q) == server' = [server EXCEPT !.revision[q] = @ + 1]
Next1(q) == [DraftOf(q) EXCEPT !.revision = @ + 1]

Serve(h) ==
  LET call == handlers[h]  q == call.quest  request == Head(call.todo) IN
  /\ call # NotUsed /\ call.state = "sent"
  /\ \/ request = "draft" /\ Reads(h, DraftOf(q))
     \/ request = "versions" /\ Reads(h, VersionsOf(q))
     \/ request = "assistant" /\ Reads(h, DraftOf(q))
     \/ request \in {"quests", "access", "compare", "author", "copy", "export", "logout"} /\ Reads(h, NotUsed)
     \/ request = "references" /\ Reads(h, [op |-> "references", quest |-> q, revision |-> call.revision])
     \/ request = "validate" /\ \E op \in {"validation", "invalid"} :
          Reads(h, [op |-> op, quest |-> q, revision |-> call.revision])
     \/ request \in {"playtest", "trace", "launch"} /\ Reads(h, call.of)
     \/ request \in {"save", "restore", "apply"} /\ call.base # server.revision[q]
        /\ Refuses(h)
     \/ request \in {"restore", "apply"} /\ call.base = server.revision[q]
        /\ NewRevision(q) /\ \E outcome \in {"ok", "audit"} :
             (outcome = "audit" => request = "apply") /\ Answers(h, <<outcome, Next1(q)>>)
     \/ request = "save" /\ call.base = server.revision[q]
        /\ server' = [server EXCEPT !.revision[q] = @ + 1, !.landed = Append(@, call.edit)]
        /\ Answers(h, <<"ok", Next1(q)>>)
     \/ request = "build"
        /\ server' = [server EXCEPT !.releases[q] = @ \cup {call.release}] /\ Answers(h, <<"ok", NotUsed>>)
     \/ request = "publish" /\ call.expected = server.current[q]
        /\ call.release \in server.releases[q]
        /\ server' = [server EXCEPT !.current[q] = call.release] /\ Answers(h, <<"ok", NotUsed>>)
     \/ request = "publish" /\ call.expected # server.current[q] /\ Refuses(h)
  /\ UNCHANGED <<ui, clicks, desk>>

\* Lost before the server has it, refused, or lost on the way back.
Lose(h) ==
  /\ handlers[h] # NotUsed /\ handlers[h].answer # <<"error">>
  /\ Answers(h, <<"error">>)
  /\ UNCHANGED <<server, ui, clicks, desk>>

OtherAuthor(q) ==
  /\ server.revision[q] < MaxDraft
  /\ NewRevision(q) /\ UNCHANGED <<ui, handlers, clicks, desk>>

(***************************************************************************)
(* Answers.                                                                *)
(***************************************************************************)
Refresh == <<"versions", "assistant">>
NoIntents == [restore |-> NotUsed, build |-> NotUsed, report |-> NotUsed]
Failed(u) == [u EXCEPT !.phase = "error"]

Finished(call, u) ==
  CASE call.op = "save" /\ call.fresh # 0 ->
         [u EXCEPT !.conflict = [op |-> "conflict", edit |-> call.edit]]
    [] call.op = "logout" ->
         With(u, Joined(Cleared, [quest |-> None, draft |-> NotUsed, deletion |-> NotUsed,
                                  trace |-> NotUsed, phase |-> "idle"]))
    [] OTHER -> [u EXCEPT !.phase = call.end]

UiGoes(h, u) ==
  LET call == handlers[h] IN
  IF Len(call.todo) = 1 THEN Ends(h, Finished(call, u))
                        ELSE Continues(h, Tail(call.todo), call.end, u)

\* A read that fails where a failure is being handled leaves the handler of a
\* click, the phase as it is; that of a form shows the error.
Uncaught(call, request) ==
  \/ request = "draft" /\ (call.op \in {"restore", "apply"} \/ (call.op = "save" /\ ~call.form))
  \/ request = "quests" /\ call.op = "apply" /\ call.end # "idle"

ReadLost(h, request) ==
  LET call == handlers[h] IN
  CASE Uncaught(call, request) -> Ends(h, ui)
    [] request = "quests" /\ call.op = "apply" -> Continues(h, <<"assistant">>, "error", ui)
    [] request = "draft" /\ call.op = "copy" -> Ends(h, [ui EXCEPT !.phase = "idle"])
    [] OTHER -> Ends(h, Failed(ui))

\* A lost draft or list ends a handler; a lost panel or comparison does not.
DraftArrives(h, a) ==
  IF handlers[h].op # "save" THEN UiGoes(h, [ui EXCEPT !.draft = a])
  ELSE LET todo == Tail(handlers[h].todo) IN
       /\ handlers' = [handlers EXCEPT ![h] = [@ EXCEPT !.todo = todo, !.state = "sent",
                                                 !.answer = <<>>, !.fresh = a.revision]]
       /\ ui' = Asked([ui EXCEPT !.draft = a], Head(todo))

ReadArrives(h, request, a) ==
  LET lost == a = <<"error">>
      shown == IF lost THEN NotUsed ELSE a[2]
  IN
  \/ request = "draft" /\ ~lost /\ DraftArrives(h, a[2])
  \/ request \in {"draft", "quests", "access"} /\ lost /\ ReadLost(h, request)
  \/ request = "versions" /\ UiGoes(h, [ui EXCEPT !.versions = shown])
  \/ request = "assistant" /\ UiGoes(h, [ui EXCEPT !.assistant = shown])
  \/ request = "trace" /\ UiGoes(h, [ui EXCEPT !.trace = shown])
  \/ request = "compare" /\ UiGoes(h, ui)
  \/ request \in {"quests", "access"} /\ ~lost /\ handlers[h].op # "copy" /\ UiGoes(h, ui)
  \/ /\ request = "quests" /\ ~lost /\ handlers[h].op = "copy"
     /\ Continues(h, <<"draft">> \o Refresh, "idle", Selected(ui, handlers[h].quest))

\* What the refusal of a write by a conflict leads to: nothing is sent again.
Conflicted(h, request) ==
  \/ request = "save" /\ Continues(h, <<"draft">> \o Refresh \o <<"compare">>, "conflict", ui)
  \/ request = "restore" /\ Continues(h, <<"draft">> \o Refresh, "conflict", With(ui, NoIntents))
  \/ request = "apply" /\ Continues(h, <<"draft", "quests">> \o Refresh, "conflict", ui)
  \/ request = "publish" /\ Continues(h, <<"versions">>, "conflict",
       [ui EXCEPT !.report = NotUsed, !.receipt = NotUsed])

Accepted(h, request, outcome, a) ==
  LET landed == With(ui, Joined(NoIntents, [draft |-> a, conflict |-> NotUsed])) IN
  \/ request = "save" /\ Continues(h, Refresh, "idle", [landed EXCEPT !.phase = "idle"])
  \/ request = "restore" /\ Continues(h, <<"quests">> \o Refresh, "idle", landed)
  \/ request = "apply" /\ outcome = "ok"
     /\ Continues(h, <<"quests">> \o Refresh, "idle", [landed EXCEPT !.deletion = NotUsed])
  \/ request = "apply" /\ outcome = "audit"
     /\ Continues(h, <<"draft", "quests">> \o Refresh, "error", ui)
  \/ request = "build" /\ Continues(h, <<"versions">>, "idle", [ui EXCEPT !.build = NotUsed])
  \/ request = "publish" /\ Continues(h, <<"versions">>, "idle",
       [ui EXCEPT !.report = NotUsed,
                  !.receipt = [op |-> "receipt", quest |-> handlers[h].quest,
                                release |-> handlers[h].release]])
  \/ request = "validate" /\ Ends(h, [ui EXCEPT !.validation = a,
                                         !.phase = IF a.op = "invalid" THEN "error" ELSE "idle"])
  \/ request = "playtest"
     /\ handlers' = [handlers EXCEPT ![h] = [@ EXCEPT !.op = "trace", !.todo = <<"trace">>,
                                                      !.state = "sent", !.answer = <<>>]]
     /\ ui' = [ui EXCEPT !.playtest = a, !.trace = NotUsed]
  \/ request = "references"
     /\ Ends(h, [ui EXCEPT !.deletion = [op |-> "deletion", base |-> a.revision], !.phase = "idle"])
  \/ request = "launch" /\ Ends(h, [ui EXCEPT !.player = a])
  \/ request \in {"author", "copy", "export", "logout"} /\ UiGoes(h, ui)

RequestRefused(h, request) ==
  CASE request \in {"author", "apply"} -> Continues(h, <<"assistant">>, "error", ui)
    [] request = "launch" -> Ends(h, [ui EXCEPT !.player = NotUsed])
    [] OTHER -> Ends(h, Failed(ui))

Reading == {"draft", "versions", "assistant", "quests", "access", "compare", "trace"}

Arrives(h) ==
  LET call == handlers[h]  request == Head(call.todo)  a == call.answer IN
  /\ call # NotUsed /\ call.state = "answered"
  /\ \/ request \in Reading /\ ReadArrives(h, request, a)
     \/ request \notin Reading /\ a[1] = "error" /\ RequestRefused(h, request)
     \/ request \notin Reading /\ a[1] = "conflict" /\ Conflicted(h, request)
     \/ request \notin Reading /\ a[1] \in {"ok", "audit"} /\ Accepted(h, request, a[1], a[2])
  /\ UNCHANGED <<server, clicks, desk>>

Panel(p) == p \in desk

StudioNext ==
  \/ \E h \in Handlers :
       \/ SelectProject(h) \/ \E q \in Quests : SelectQuest(h, q)
       \/ SaveChanges(h) \/ RetryConflict(h)
       \/ /\ Panel("versions")
          /\ ConfirmRestore(h) \/ ConfirmReleaseBuild(h) \/ ConfirmPublication(h)
       \/ /\ Panel("playtest")
          /\ CreateCurrentPlaytest(h) \/ RefreshPlaytestEvidence(h) \/ LaunchCurrentPlayer(h)
       \/ (Panel("playtest") \/ Panel("versions")) /\ ValidateCurrentDraft(h)
       \/ Panel("author") /\ (AskAuthorAssistant(h) \/ ApplyAuthorProposal(h))
       \/ Panel("copies") /\ \E q \in Quests : CloneSelectedQuest(h, q) \/ ImportQuestFile(h, q)
       \/ Panel("copies") /\ ExportQuest(h)
       \/ Panel("deletion") /\ (PrepareDeleteBlock(h) \/ ConfirmDeleteBlock(h))
       \/ Panel("session") /\ Logout(h)
       \/ Serve(h) \/ Lose(h) \/ Arrives(h)
  \/ CancelConflict \/ CancelIntent
  \/ Panel("versions") /\ \E n \in 0 .. MaxDraft + MaxClicks : PrepareRestore(n)
  \/ Panel("versions") /\ \E r \in Releases :
       PrepareReleaseBuild(r) \/ PreparePublicationReport(r)
  \/ \E q \in Quests : OtherAuthor(q)

StudioSpec == StudioInit /\ [][StudioNext]_studioVars

(***************************************************************************)
(* Properties.                                                             *)
(***************************************************************************)
\* However often the author clicks and whatever is lost, an edit he submits
\* lands at most once, and what is offered to him as a conflict to send
\* again has not landed.
EditsLandOnce ==
  LET edits == server.landed IN
  /\ \A i, j \in DOMAIN edits : edits[i] = edits[j] => i = j
  /\ ui.conflict # NotUsed => \A i \in DOMAIN edits : edits[i] # ui.conflict.edit
=============================================================================
