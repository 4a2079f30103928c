--------------------------- MODULE PublishedSessions ---------------------------
(***************************************************************************)
(* Sessions of published quests (apps/server): a session is created on the *)
(* release the pointer of its quest names, and from then on is played on   *)
(* that release alone.  The runtime keeps the session and its pinned       *)
(* identity; which control project the release belongs to is kept apart,   *)
(* in a binding that is written before the session and taken back when the *)
(* session cannot be created.                                              *)
(*                                                                         *)
(* Composes with ReleaseStore: releases are built, published and rolled    *)
(* back while sessions are created and played.  A request suspends at      *)
(* every await, so each of its store calls is an action; a request may     *)
(* also throw, or be lost with its process, at any of them.                *)
(***************************************************************************)
EXTENDS ReleaseStore

CONSTANTS
  SessionIds,   \* session ids createSessionId may draw
  Seeded,       \* those of sessions the database had before, without a binding
  Players       \* requests that can be in flight at once

ASSUME SessionAssumption == Seeded \subseteq SessionIds

VARIABLES
  bindings,     \* published_runtime_session_bindings
  sessions,     \* the runtime's sessions, by the identity each is pinned to
  players       \* what each request is doing, and the last answer it gave

sessionVars == <<bindings, sessions, players>>

\* A pinned identity: the content hash is that of the draft under this id.
Pin(q, r, d) == [quest |-> q, release |-> r, draft |-> d]
Pins == [quest : Quests, release : Releases, draft : ValidDrafts]
ASSUME PinAssumption == None \notin Pins

\* The session of a static template, from the time before published mode.
Template == [quest |-> None, release |-> None, draft |-> None]

Waiting(p, at) == players[p].at = at
Go(p, at, pin, s) ==
  players' = [players EXCEPT ![p] =
    [at |-> at, pin |-> pin, session |-> s, answer |-> "none"]]
Done(p, kind) ==
  players' = [players EXCEPT ![p] =
    [at |-> "idle", pin |-> Template, session |-> None, answer |-> kind]]
\* The action runs on this release.
PlayOn(p, pin) ==
  players' = [players EXCEPT ![p] =
    [at |-> "idle", pin |-> pin, session |-> None, answer |-> "resolved"]]

-----------------------------------------------------------------------------
(* createGuestSession of the server                                        *)

\* resolveCurrentPublishedRelease, up to its first await: the pointer.
ReadPointer(p, q) ==
  /\ Waiting(p, "idle")
  /\ IF current[q] = None THEN Done(p, "refused")
     ELSE Go(p, "resolving", Pin(q, current[q], None), None)
  /\ UNCHANGED <<bindings, sessions>>

\* The stored release, its preflight, and the id of the new session.
LoadRelease(p, s) ==
  LET pin == players[p].pin
      d == releases[pin.quest][pin.release]
  IN
  /\ Waiting(p, "resolving")
  /\ IF d # None /\ Installed(d)
     THEN Go(p, "binding", Pin(pin.quest, pin.release, d), s)
     ELSE Done(p, "refused")
  /\ UNCHANGED <<bindings, sessions>>

\* createBinding: one the same or another one is there already, and the id is
\* taken for a collision either way.
Bind(p) ==
  LET pin == players[p].pin
      s == players[p].session
  IN
  /\ Waiting(p, "binding")
  /\ IF bindings[s] = None
     THEN /\ bindings' = [bindings EXCEPT ![s] = pin]
          /\ Go(p, "creating", pin, s)
     ELSE Done(p, "refused") /\ UNCHANGED bindings
  /\ UNCHANGED sessions

\* A bug: the binding is taken back whatever the runtime answers.
CreateSessionFinally(p) ==
  LET pin == players[p].pin
      s == players[p].session
  IN
  /\ Waiting(p, "creating")
  /\ sessions' = [sessions EXCEPT ![s] = IF @ = None THEN pin ELSE @]
  /\ bindings' = [bindings EXCEPT ![s] = None]
  /\ Done(p, IF sessions[s] = None THEN "created" ELSE "refused")

\* createGuestSession of the runtime, one transaction.
CreateSession(p) ==
  LET pin == players[p].pin
      s == players[p].session
  IN
  /\ Waiting(p, "creating")
  /\ IF sessions[s] = None
     THEN /\ sessions' = [sessions EXCEPT ![s] = pin]
          /\ Done(p, "created")
     ELSE Go(p, "removing", pin, s) /\ UNCHANGED sessions
  /\ UNCHANGED bindings

\* The transaction throws (the database is busy) and leaves nothing; server.ts
\* takes the binding back.
CreateThrows(p) ==
  /\ Waiting(p, "creating")
  /\ Go(p, "removing", players[p].pin, players[p].session)
  /\ UNCHANGED <<bindings, sessions>>

\* The server of authored scenarios does not catch it, and the binding stays.
CreateThrowsAuthored(p) ==
  /\ Waiting(p, "creating")
  /\ Done(p, "refused")
  /\ UNCHANGED <<bindings, sessions>>

RemoveBinding(p) ==
  /\ Waiting(p, "removing")
  /\ bindings' = [bindings EXCEPT ![players[p].session] = None]
  /\ Done(p, "refused")
  /\ UNCHANGED sessions

-----------------------------------------------------------------------------
(* resolveSessionExecutionContext, on every action of a session            *)

LoadSession(p, s) ==
  /\ Waiting(p, "idle")
  /\ IF sessions[s] = None THEN Done(p, "refused")
     ELSE Go(p, "playing", sessions[s], s)
  /\ UNCHANGED <<bindings, sessions>>

\* A bug: the session is played on the current release of its quest.
ResolveCurrent(p) ==
  LET binding == bindings[players[p].session]
      d == releases[binding.quest][current[binding.quest]]
  IN
  /\ Waiting(p, "playing")
  /\ \/ binding = None /\ Done(p, "refused")
     \/ binding # None /\ ~ Installed(d) /\ Done(p, "release_preflight_failed")
     \/ /\ binding # None /\ Installed(d)
        /\ PlayOn(p, Pin(binding.quest, current[binding.quest], d))
  /\ UNCHANGED <<bindings, sessions>>

\* The binding and the release it names.
ResolvePinned(p) ==
  LET pin == players[p].pin
      binding == bindings[players[p].session]
      d == releases[binding.quest][binding.release]
      agree == binding = pin /\ d = binding.draft
  IN
  /\ Waiting(p, "playing")
  /\ \/ ~ agree /\ Done(p, "refused")
     \/ agree /\ ~ Installed(d) /\ Done(p, "release_preflight_failed")
     \/ agree /\ Installed(d) /\ PlayOn(p, binding)
  /\ UNCHANGED <<bindings, sessions>>

-----------------------------------------------------------------------------
IdlePlayer == [at |-> "idle", pin |-> Template, session |-> None, answer |-> "none"]

\* The process ends, with every request it was serving.
RestartServer ==
  /\ Restart
  /\ players' = [p \in Players |-> IdlePlayer]
  /\ UNCHANGED <<bindings, sessions>>

SessionsInit ==
  /\ ReleaseInit
  /\ bindings = [s \in SessionIds |-> None]
  /\ sessions = [s \in SessionIds |-> IF s \in Seeded THEN Template ELSE None]
  /\ players = [p \in Players |-> IdlePlayer]

\* What the control server does to the releases.
ControlStep ==
  /\ \/ \E w \in Workers, q \in Quests, r \in Releases, k \in Keys :
          \/ \E d \in Drafts : BeginBuild(w, q, r, d, k)
          \/ \E expected \in Releases \cup {None} : BeginPublish(w, q, r, expected, k)
          \/ \E expected \in Releases : BeginRollback(w, q, r, expected, k)
     \/ \E w \in Workers : CreateRelease(w) \/ Publish(w) \/ Rollback(w)
  /\ UNCHANGED sessionVars

PlayerStep(p) ==
  /\ \/ \E q \in Quests : ReadPointer(p, q)
     \/ \E s \in SessionIds : LoadRelease(p, s) \/ LoadSession(p, s)
     \/ Bind(p) \/ CreateSession(p) \/ CreateThrows(p) \/ CreateThrowsAuthored(p)
     \/ RemoveBinding(p) \/ ResolvePinned(p)
  /\ UNCHANGED releaseVars

SessionsNext ==
  \/ ControlStep
  \/ \E p \in Players : PlayerStep(p)
  \/ RestartServer

SessionsSpec == SessionsInit /\ [][SessionsNext]_<<releaseVars, sessionVars>>

-----------------------------------------------------------------------------
(* Properties                                                              *)

\* The tables of both sides are of their shape, and whatever a session or a
\* binding is pinned to was built from a valid draft.
SessionsTypeOK ==
  /\ ReleaseTypeOK
  /\ bindings \in [SessionIds -> Pins \cup {None}]
  /\ sessions \in [SessionIds -> Pins \cup {Template, None}]
  /\ players \in [Players ->
       [at : {"idle", "resolving", "binding", "creating", "removing", "playing"},
        pin : [quest : Quests \cup {None}, release : Releases \cup {None},
               draft : ValidDrafts \cup {None}],
        session : SessionIds \cup {None},
        answer : {"none", "refused", "created", "resolved", "release_preflight_failed"}]]

\* "A created published session is never missing its scope": its binding says
\* what the session is pinned to, and the release stored under that name is
\* the one it was created from.
SessionKeepsItsScope ==
  \A s \in SessionIds \ Seeded : sessions[s] # None =>
    /\ bindings[s] = sessions[s]
    /\ releases[sessions[s].quest][sessions[s].release] = sessions[s].draft

\* A session starts only on a release that has been the current one of its
\* quest, however the pointer moved while the session was being created.
StartsOnWhatWasPublished ==
  \A s \in SessionIds \ Seeded : sessions[s] # None =>
    EverPublished(sessions[s].quest, sessions[s].release)

\* A session is played on what it was created on, or not at all: an action
\* resolves to the very release, whatever is published or rolled back, and the
\* only thing that can keep it from resolving is a plugin that is gone.
PlaysItsOwnRelease ==
  [][\A p \in Players :
       LET s == players[p].session IN
       (players[p].at = "playing" /\ players'[p].at = "idle"
        /\ players'[p].answer # "none" /\ s \notin Seeded) =>
         IF Installed(sessions[s].draft)
         THEN players'[p].answer = "resolved" /\ players'[p].pin = sessions[s]
         ELSE players'[p].answer = "release_preflight_failed"]_<<releaseVars, sessionVars>>
=============================================================================
