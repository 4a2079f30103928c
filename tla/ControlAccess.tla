--------------------------- MODULE ControlAccess ---------------------------
(***************************************************************************)
(* Who may do what on the control server: logins with their throttle,      *)
(* sessions that expire or are revoked, roles in projects, and the way     *)
(* every request takes before a store sees it: identity, role, proof of a  *)
(* mutation, body, each an await at which other requests go on.  What the  *)
(* stores do to drafts and releases is the matter of other modules; here a *)
(* request changes projects, members and sessions.                         *)
(*                                                                         *)
(* tried is auxiliary: the wrong passwords verified for a login key since  *)
(* its last success, the start of its window or the end of its last block. *)
(***************************************************************************)
EXTENDS Naturals, FiniteSets

CONSTANTS
  Users, Projects, AuthSessions, \* users are provisioned, sessions are used once
  AccessCalls,       \* requests and logins that may be under way at once
  InOneTransaction,  \* whether the store is the durable one
  SessionTtl, LoginWindow, LoginCooldown, MaxLoginAttempts,
  LastMinute         \* bound on the clock

ASSUME AccessAssumption ==
  /\ IsFiniteSet(Users) /\ IsFiniteSet(AccessCalls)
  /\ {SessionTtl, LastMinute} \subseteq Nat
  /\ {LoginWindow, LoginCooldown, MaxLoginAttempts} \subseteq Nat \ {0}

VARIABLES
  minute,            \* the clock
  members,           \* of each project the role of every user
  projects,          \* projects that exist
  authSessions,      \* owner, expiry and revocation of each session
  throttle,          \* count, start of the window and block of each login key
  accessCalls,       \* requests and logins under way
  tried

accessVars == <<minute, members, projects, authSessions, throttle, accessCalls, tried>>

FreeCall == [at |-> "free"]
Fresh == [count |-> 0, from |-> 0, until |-> 0, known |-> FALSE]
RoleRank == [none |-> 0, tester |-> 1, editor |-> 2, owner |-> 3]
Roles == {"tester", "editor", "owner"}

AccessInit ==
  /\ minute = 0
  /\ members = [p \in Projects |-> [u \in Users |-> "none"]]
  /\ projects = {}
  /\ authSessions = [s \in AuthSessions |-> [user |-> "nobody", expires |-> 0, revoked |-> FALSE]]
  /\ throttle = [u \in Users |-> Fresh]
  /\ accessCalls = [c \in AccessCalls |-> FreeCall]
  /\ tried = [u \in Users |-> 0]

Goes(c, call) == accessCalls' = [accessCalls EXCEPT ![c] = call]
Answered(c) == Goes(c, FreeCall)

(***************************************************************************)
(* The security store.                                                     *)
(***************************************************************************)
Open(s) == authSessions[s].user # "nobody"
Valid(s) == Open(s) /\ ~authSessions[s].revoked /\ authSessions[s].expires > minute
Owners(p) == {u \in Users : members[p][u] = "owner"}

CreateSession(u, created) ==
  \E s \in AuthSessions :
    /\ ~Open(s)
    /\ authSessions' = [authSessions EXCEPT ![s] =
         [user |-> u, expires |-> created + SessionTtl, revoked |-> FALSE]]

RevokeSession(s) == authSessions' = [authSessions EXCEPT ![s].revoked = TRUE]

NeverLastOwner(p, u) == FALSE
LastOwner(p, u) == members[p][u] = "owner" /\ Cardinality(Owners(p)) <= 1

SetProjectMemberRole(p, u, role) ==
  /\ p \in projects
  /\ members' = IF role # "owner" /\ LastOwner(p, u) THEN members
                ELSE [members EXCEPT ![p][u] = role]

RemoveProjectMember(p, u) ==
  /\ p \in projects
  /\ members' = IF LastOwner(p, u) THEN members ELSE [members EXCEPT ![p][u] = "none"]

\* The store in memory writes the owner after it has awaited the project.
CreateProjectAsOwner(p, u) ==
  /\ p \notin projects
  /\ projects' = projects \cup {p}
  /\ members' = IF InOneTransaction THEN [members EXCEPT ![p][u] = "owner"] ELSE members

(***************************************************************************)
(* Logins.  The window and the block are looked at, and the password is    *)
(* verified, at one moment; the failure is recorded, or the session made,  *)
(* after an await, by the time read before it.                             *)
(***************************************************************************)
Blocked(u) == throttle[u].until > minute
WindowOver(t, at) == at >= t.from + LoginWindow

Retried(u) ==
  IF throttle[u].known /\ WindowOver(throttle[u], minute)
  THEN [throttle EXCEPT ![u] = Fresh] ELSE throttle

\* A new account of tries begins when the window or a block is over.
Reprieved(u) ==
  /\ throttle[u].known
  /\ WindowOver(throttle[u], minute) \/ throttle[u].until \in 1..minute

HandleLogin(c, u) ==
  /\ accessCalls[c] = FreeCall
  /\ ~Blocked(u)
  /\ throttle' = Retried(u)
  /\ \E right \in BOOLEAN :
       /\ Goes(c, [at |-> "login", user |-> u, now |-> minute, right |-> right])
       /\ tried' = [tried EXCEPT ![u] =
            (IF Reprieved(u) THEN 0 ELSE @) + (IF right THEN 0 ELSE 1)]
  /\ UNCHANGED <<minute, members, projects, authSessions>>

CountedTooFar(t, now) ==
  LET state == IF ~t.known \/ WindowOver(t, now)
               THEN [count |-> 0, from |-> now, until |-> 0, known |-> TRUE] ELSE t
  IN [state EXCEPT !.count = @ + 1,
                   !.until = IF state.count >= MaxLoginAttempts THEN now + LoginCooldown ELSE @]

Counted(t, now) ==
  LET state == IF ~t.known \/ WindowOver(t, now)
               THEN [count |-> 0, from |-> now, until |-> 0, known |-> TRUE] ELSE t
  IN [state EXCEPT !.count = @ + 1,
                   !.until = IF state.count + 1 >= MaxLoginAttempts THEN now + LoginCooldown
                                                                    ELSE @]

RecordLoginFailure(c) ==
  LET call == accessCalls[c] IN
  /\ call.at = "login" /\ ~call.right
  /\ throttle' = [throttle EXCEPT ![call.user] = Counted(@, call.now)]
  /\ Answered(c)
  /\ UNCHANGED <<minute, members, projects, authSessions, tried>>

LoggedIn(c) ==
  LET call == accessCalls[c] IN
  /\ call.at = "login" /\ call.right
  /\ throttle' = [throttle EXCEPT ![call.user] = Fresh]
  /\ tried' = [tried EXCEPT ![call.user] = 0]
  /\ CreateSession(call.user, call.now)
  /\ Answered(c)
  /\ UNCHANGED <<minute, members, projects>>

(***************************************************************************)
(* Requests.  A route says which role a method needs.                      *)
(***************************************************************************)
ProjectsRoute == {[route |-> "create", needs |-> "none"]}
LogoutRoute == {[route |-> "logout", needs |-> "none"]}
MemberSetRoute == {[route |-> "set", needs |-> "owner"]}
MemberRemoveRoute == {[route |-> "remove", needs |-> "owner"]}
QuestsRoute == {[route |-> "read", needs |-> "tester"], [route |-> "write", needs |-> "editor"]}
ValidationsRoute == {[route |-> "write", needs |-> "tester"]}
ReleasesRoute == {[route |-> "read", needs |-> "tester"], [route |-> "write", needs |-> "editor"]}
PublishRoute == {[route |-> "write", needs |-> "owner"]}
RollbackRoute == {[route |-> "write", needs |-> "owner"]}
PlaytestsRoute == {[route |-> "write", needs |-> "tester"], [route |-> "read", needs |-> "tester"]}

Routed ==
  ProjectsRoute \cup LogoutRoute \cup MemberSetRoute \cup MemberRemoveRoute \cup QuestsRoute
  \cup ValidationsRoute \cup ReleasesRoute \cup PublishRoute \cup RollbackRoute \cup PlaytestsRoute

\* A request without a session that is valid is answered at once, and so is
\* one that would take the member's own role away: to set it to owner is let through.
ResolveIdentity(c) ==
  /\ accessCalls[c] = FreeCall
  /\ \E r \in Routed, s \in AuthSessions, p \in Projects, u \in Users, role \in Roles :
       /\ Valid(s)
       /\ r.route = "remove" => u # authSessions[s].user
       /\ r.route = "set" => u # authSessions[s].user \/ role = "owner"
       /\ r.route \in {"set", "remove"} \/ u = authSessions[s].user
       /\ r.route = "set" \/ role = "owner"
       /\ Goes(c, [at |-> "identity", session |-> s, user |-> authSessions[s].user, route |-> r,
                   project |-> p, member |-> u, role |-> role])
  /\ UNCHANGED <<minute, members, projects, authSessions, throttle, tried>>

AccessRefused(c) == Answered(c) /\ UNCHANGED <<minute, members, projects, authSessions, throttle, tried>>

AuthorizeProject(c) ==
  LET call == accessCalls[c]
      next == IF call.route.route = "read" THEN "body" ELSE "proof"
  IN /\ call.at = "identity"
     /\ IF RoleRank[members[call.project][call.user]] < RoleRank[call.route.needs]
        THEN AccessRefused(c)
        ELSE /\ Goes(c, [call EXCEPT !.at = next])
             /\ UNCHANGED <<minute, members, projects, authSessions, throttle, tried>>

RequireMutationProof(c) ==
  /\ accessCalls[c].at = "proof"
  /\ \/ AccessRefused(c)
     \/ /\ Valid(accessCalls[c].session)
        /\ Goes(c, [accessCalls[c] EXCEPT !.at = "body"])
        /\ UNCHANGED <<minute, members, projects, authSessions, throttle, tried>>

\* The body is there and fits its route: the store carries the request out.
Carry(c) ==
  LET call == accessCalls[c]  route == call.route.route IN
  /\ call.at = "body"
  /\ \/ /\ route = "set" /\ SetProjectMemberRole(call.project, call.member, call.role)
        /\ Answered(c) /\ UNCHANGED <<projects, authSessions>>
     \/ /\ route = "remove" /\ RemoveProjectMember(call.project, call.member)
        /\ Answered(c) /\ UNCHANGED <<projects, authSessions>>
     \/ /\ route = "create" /\ CreateProjectAsOwner(call.project, call.user)
        /\ IF InOneTransaction THEN Answered(c) ELSE Goes(c, [call EXCEPT !.at = "created"])
        /\ UNCHANGED authSessions
     \/ /\ route = "create" /\ call.project \in projects
        /\ Answered(c) /\ UNCHANGED <<projects, members, authSessions>>
     \/ /\ route = "logout" /\ RevokeSession(call.session)
        /\ Answered(c) /\ UNCHANGED <<projects, members>>
     \/ /\ route \in {"read", "write"}
        /\ Answered(c) /\ UNCHANGED <<projects, members, authSessions>>
  /\ UNCHANGED <<minute, throttle, tried>>

OwnerWritten(c) ==
  LET call == accessCalls[c] IN
  /\ call.at = "created"
  /\ members' = [members EXCEPT ![call.project] =
       [u \in Users |-> IF u = call.user THEN "owner" ELSE "none"]]
  /\ Answered(c)
  /\ UNCHANGED <<minute, projects, authSessions, throttle, tried>>

\* A password is verified by a synchronous hash: other requests come in
\* between its awaits, a minute does not.
Tick ==
  /\ minute < LastMinute
  /\ \A c \in AccessCalls : accessCalls[c].at # "login"
  /\ minute' = minute + 1
  /\ UNCHANGED <<members, projects, authSessions, throttle, accessCalls, tried>>

AccessNext ==
  \/ \E c \in AccessCalls :
       \/ \E u \in Users : HandleLogin(c, u)
       \/ RecordLoginFailure(c) \/ LoggedIn(c)
       \/ ResolveIdentity(c) \/ AuthorizeProject(c) \/ RequireMutationProof(c)
       \/ Carry(c) \/ OwnerWritten(c)
  \/ Tick

AccessSpec == AccessInit /\ [][AccessNext]_accessVars

(***************************************************************************)
(* Properties.                                                             *)
(***************************************************************************)
\* A project that has members has an owner, whatever owners ask of each
\* other at the same time: the roles that let two removals in are those of
\* the moment before either is carried out.
AProjectKeepsAnOwner ==
  \A p \in Projects : (\E u \in Users : members[p][u] # "none") => Owners(p) # {}

\* No failure is lost when logins overlap: from one window or block to the
\* next at most as many wrong passwords are verified as the limit allows,
\* and those already under way when it is reached.
AttemptsAreBounded ==
  \A u \in Users :
    tried[u] <= MaxLoginAttempts + Cardinality(AccessCalls) - 1
=============================================================================
