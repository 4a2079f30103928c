----------------------------- MODULE ControlProofs -----------------------------
(***************************************************************************)
(* Proofs about the control server: the roles and logins of ControlAccess  *)
(* for every number of users, projects, sessions and concurrent requests,  *)
(* and the drafts of DraftStore with the proposals applied to them, for    *)
(* every set of quests, blocks, edits and workers; and the copies made of  *)
(* quests, for every set of quests, versions and calls.                    *)
(***************************************************************************)
EXTENDS AuthoringProposals, ControlAccess, QuestCopies, FiniteSetTheorems, SequenceTheorems,
        TLAPS

-------------------------------------------------------------------------------
(* Types of ControlAccess.                                                  *)

LoginCalls == [at : {"login"}, user : Users, now : Nat, right : BOOLEAN]

RequestCalls ==
  [at : {"identity", "proof", "body", "created"}, session : AuthSessions, user : Users,
   route : Routed, project : Projects, member : Users, role : Roles]

Calls == {FreeCall} \cup LoginCalls \cup RequestCalls

MemberTable == [Projects -> [Users -> Roles \cup {"none"}]]
SessionTable == [AuthSessions -> [user : Users \cup {"nobody"}, expires : Nat, revoked : BOOLEAN]]
ThrottleRecords == [count : Nat, from : Nat, until : Nat, known : BOOLEAN]

AccessTyped ==
  /\ minute \in Nat
  /\ members \in MemberTable
  /\ projects \subseteq Projects
  /\ authSessions \in SessionTable
  /\ throttle \in [Users -> ThrottleRecords]
  /\ accessCalls \in [AccessCalls -> Calls]
  /\ tried \in [Users -> Nat]

LEMMA CallsByPlace ==
  ASSUME AccessTyped, NEW c \in AccessCalls
  PROVE  /\ accessCalls[c].at = "login" => accessCalls[c] \in LoginCalls
         /\ accessCalls[c].at \in {"identity", "proof", "body", "created"} =>
              accessCalls[c] \in RequestCalls
  BY DEF AccessTyped, Calls, FreeCall, LoginCalls, RequestCalls

LEMMA Going ==
  ASSUME AccessTyped, NEW c \in AccessCalls, NEW call \in Calls, Goes(c, call)
  PROVE  /\ accessCalls' \in [AccessCalls -> Calls]
         /\ accessCalls'[c] = call
         /\ \A d \in AccessCalls \ {c} : accessCalls'[d] = accessCalls[d]
  BY DEF AccessTyped, Goes

LEMMA Answering ==
  ASSUME AccessTyped, NEW c \in AccessCalls, Answered(c)
  PROVE  /\ accessCalls' \in [AccessCalls -> Calls]
         /\ accessCalls'[c] = FreeCall
         /\ \A d \in AccessCalls \ {c} : accessCalls'[d] = accessCalls[d]
  BY Going DEF Answered, Calls

\* How a request moves: it is resolved, goes on, waits for its owner, or is answered.
LEMMA Moving ==
  ASSUME AccessTyped, NEW c \in AccessCalls, accessCalls[c].at \in {"identity", "proof", "body"},
         NEW at \in {"proof", "body", "created"}, Goes(c, [accessCalls[c] EXCEPT !.at = at])
  PROVE  /\ accessCalls' \in [AccessCalls -> Calls]
         /\ accessCalls'[c] \in RequestCalls
         /\ accessCalls'[c].at = at /\ accessCalls'[c].user = accessCalls[c].user
         /\ accessCalls'[c].route = accessCalls[c].route
         /\ accessCalls'[c].project = accessCalls[c].project
         /\ \A d \in AccessCalls \ {c} : accessCalls'[d] = accessCalls[d]
<1> DEFINE call == [accessCalls[c] EXCEPT !.at = at]
<1>1. accessCalls[c] \in RequestCalls
  BY CallsByPlace
<1>2. /\ call \in RequestCalls /\ call.at = at /\ call.user = accessCalls[c].user
      /\ call.route = accessCalls[c].route /\ call.project = accessCalls[c].project
  BY <1>1 DEF RequestCalls
<1> HIDE DEF call
<1>3. Goes(c, call) /\ call \in Calls
  BY <1>2 DEF call, Calls
<1> QED BY <1>2, <1>3, Going

-------------------------------------------------------------------------------
(* Roles.                                                                   *)

OwnerRoutes == {"set", "remove"}

\* A request that was let through to change members saw an owner, and there has been
\* one since: a project whose owner is still unwritten lets no such request through.
OwnersSeen ==
  \A c \in AccessCalls :
    LET call == accessCalls[c] IN
    call.at \in {"proof", "body"} /\ call.route.route \in OwnerRoutes => Owners(call.project) # {}

LEMMA RoutesTyped ==
  ASSUME NEW r \in Routed
  PROVE  r.route \in OwnerRoutes => r.needs = "owner"
  BY DEF Routed, OwnerRoutes, ProjectsRoute, LogoutRoute, MemberSetRoute, MemberRemoveRoute,
         QuestsRoute, ValidationsRoute, ReleasesRoute, PublishRoute, RollbackRoute, PlaytestsRoute

LEMMA OwnersFinite ==
  ASSUME NEW p \in Projects
  PROVE  IsFiniteSet(Owners(p)) /\ Cardinality(Owners(p)) \in Nat
  BY AccessAssumption, FS_Subset, FS_CardinalityType DEF Owners

\* Whoever is not the last owner leaves another one.
LEMMA AnotherOwner ==
  ASSUME NEW p \in Projects, NEW u \in Users, ~LastOwner(p, u), Owners(p) # {}
  PROVE  Owners(p) \ {u} # {}
<1>1. CASE u \notin Owners(p)
  BY <1>1
<1>2. CASE u \in Owners(p)
  <2>1. ~(Cardinality(Owners(p)) <= 1)
    BY <1>2 DEF LastOwner, Owners
  <2>2. Cardinality(Owners(p) \ {u}) = Cardinality(Owners(p)) - 1
    BY <1>2, OwnersFinite, FS_RemoveElement
  <2>3. Cardinality(Owners(p) \ {u}) # 0
    BY <2>1, <2>2, OwnersFinite
  <2> QED BY <2>3, FS_EmptySet
<1> QED BY <1>1, <1>2

\* The three ways members change leave an owner where there was one, and one where
\* there is a member.
LEMMA MembersStep ==
  ASSUME AccessTyped, AProjectKeepsAnOwner, NEW p \in Projects, NEW u \in Users, NEW role \in Roles,
         \/ members' = members
         \/ Owners(p) # {} /\ SetProjectMemberRole(p, u, role)
         \/ Owners(p) # {} /\ RemoveProjectMember(p, u)
         \/ members' = [members EXCEPT ![p][u] = "owner"]
         \/ members' = [members EXCEPT ![p] = [x \in Users |-> IF x = u THEN "owner" ELSE "none"]]
  PROVE  /\ members' \in MemberTable
         /\ AProjectKeepsAnOwner'
         /\ \A q \in Projects : Owners(q) # {} => Owners(q)' # {}
<1>1. members' \in MemberTable
  BY DEF AccessTyped, MemberTable, SetProjectMemberRole, RemoveProjectMember, Roles
<1>2. \A q \in Projects \ {p} : members'[q] = members[q]
  BY DEF AccessTyped, MemberTable, SetProjectMemberRole, RemoveProjectMember
<1>3. \A q \in Projects \ {p} : Owners(q)' = Owners(q)
  BY <1>2 DEF Owners
<1>4. members' = members \/ Owners(p)' # {}
  <2>1. CASE Owners(p) # {} /\ SetProjectMemberRole(p, u, role) /\ members' # members
    <3>1. members' = [members EXCEPT ![p][u] = role] /\ ~(role # "owner" /\ LastOwner(p, u))
      BY <2>1 DEF SetProjectMemberRole
    <3>2. CASE role = "owner"
      <4>1. members'[p][u] = "owner"
        BY <3>1, <3>2 DEF AccessTyped, MemberTable
      <4> QED BY <4>1 DEF Owners
    <3>3. CASE role # "owner"
      <4>1. PICK x \in Owners(p) : x # u
        BY <2>1, <3>1, <3>3, AnotherOwner
      <4>2. x \in Users /\ members[p][x] = "owner"
        BY DEF Owners
      <4>3. members'[p][x] = members[p][x]
        BY <3>1, <4>1, <4>2 DEF AccessTyped, MemberTable
      <4> QED BY <4>2, <4>3 DEF Owners
    <3> QED BY <3>2, <3>3
  <2>2. CASE Owners(p) # {} /\ RemoveProjectMember(p, u) /\ members' # members
    <3>1. members' = [members EXCEPT ![p][u] = "none"] /\ ~LastOwner(p, u)
      BY <2>2 DEF RemoveProjectMember
    <3>2. PICK x \in Owners(p) : x # u
      BY <2>2, <3>1, AnotherOwner
    <3>3. x \in Users /\ members[p][x] = "owner"
      BY DEF Owners
    <3>4. members'[p][x] = members[p][x]
      BY <3>1, <3>2, <3>3 DEF AccessTyped, MemberTable
    <3> QED BY <3>3, <3>4 DEF Owners
  <2>3. CASE \/ members' = [members EXCEPT ![p][u] = "owner"]
             \/ members' = [members EXCEPT ![p] = [x \in Users |-> IF x = u THEN "owner" ELSE "none"]]
    <3>1. members'[p][u] = "owner"
      BY <2>3 DEF AccessTyped, MemberTable
    <3> QED BY <3>1 DEF Owners
  <2> QED BY <2>1, <2>2, <2>3
<1>5. \A q \in Projects : Owners(q) # {} => Owners(q)' # {}
  <2>1. members' = members => Owners(p)' = Owners(p)
    BY DEF Owners
  <2> QED BY <1>3, <1>4, <2>1
<1>6. AProjectKeepsAnOwner'
  BY <1>2, <1>3, <1>4 DEF AProjectKeepsAnOwner, Owners
<1> QED BY <1>1, <1>5, <1>6

\* What each step does to members: nothing, or one of the ways above, for a request
\* that saw an owner if it changes the members there are.
LEMMA CarryMembers ==
  ASSUME AccessTyped, OwnersSeen, AProjectKeepsAnOwner, NEW c \in AccessCalls, Carry(c)
  PROVE  /\ members' \in MemberTable
         /\ AProjectKeepsAnOwner'
         /\ \A q \in Projects : Owners(q) # {} => Owners(q)' # {}
<1> DEFINE call == accessCalls[c]
<1>1. call \in RequestCalls /\ call.at = "body"
  BY CallsByPlace DEF Carry
<1>2. call.user \in Users /\ call.member \in Users /\ call.project \in Projects /\ call.role \in Roles
  BY <1>1 DEF RequestCalls
<1>3. call.route.route \in OwnerRoutes => Owners(call.project) # {}
  BY <1>1 DEF OwnersSeen
<1>4. CASE call.route.route = "set" /\ SetProjectMemberRole(call.project, call.member, call.role)
  BY <1>2, <1>3, <1>4, MembersStep DEF OwnerRoutes
<1>5. CASE call.route.route = "remove" /\ RemoveProjectMember(call.project, call.member)
  BY <1>2, <1>3, <1>5, MembersStep DEF OwnerRoutes
<1>6. CASE members' = members
  BY <1>2, <1>6, MembersStep
<1>7. CASE members' = [members EXCEPT ![call.project][call.user] = "owner"]
  BY <1>2, <1>7, MembersStep
<1> QED BY <1>4, <1>5, <1>6, <1>7 DEF Carry, CreateProjectAsOwner

LEMMA WrittenMembers ==
  ASSUME AccessTyped, AProjectKeepsAnOwner, NEW c \in AccessCalls, OwnerWritten(c)
  PROVE  /\ members' \in MemberTable
         /\ AProjectKeepsAnOwner'
         /\ \A q \in Projects : Owners(q) # {} => Owners(q)' # {}
<1> DEFINE call == accessCalls[c]
<1>1. call.user \in Users /\ call.project \in Projects /\ call.role \in Roles
  BY CallsByPlace DEF OwnerWritten, RequestCalls
<1>2. members' = [members EXCEPT ![call.project] =
                    [x \in Users |-> IF x = call.user THEN "owner" ELSE "none"]]
  BY DEF OwnerWritten
<1> HIDE DEF call
<1> QED BY <1>1, <1>2, MembersStep

LEMMA StepMembers ==
  ASSUME AccessTyped, OwnersSeen, AProjectKeepsAnOwner, [AccessNext]_accessVars
  PROVE  /\ members' \in MemberTable
         /\ AProjectKeepsAnOwner'
         /\ \A q \in Projects : Owners(q) # {} => Owners(q)' # {}
<1>1. CASE members' = members
  BY <1>1 DEF AccessTyped, AProjectKeepsAnOwner, Owners
<1> QED BY <1>1, CarryMembers, WrittenMembers
        DEF AccessNext, accessVars, HandleLogin, RecordLoginFailure, LoggedIn, ResolveIdentity,
            AuthorizeProject, AccessRefused, RequireMutationProof, Tick

\* The place of every call, and who it speaks for.
LEMMA CallsStep ==
  ASSUME AccessTyped, [AccessNext]_accessVars
  PROVE  accessCalls' \in [AccessCalls -> Calls]
<1>1. CASE accessCalls' = accessCalls
  BY <1>1 DEF AccessTyped
<1>2. ASSUME NEW c \in AccessCalls, NEW u \in Users, HandleLogin(c, u)
      PROVE  accessCalls' \in [AccessCalls -> Calls]
  <2>1. PICK right \in BOOLEAN :
          Goes(c, [at |-> "login", user |-> u, now |-> minute, right |-> right])
    BY <1>2 DEF HandleLogin
  <2>2. [at |-> "login", user |-> u, now |-> minute, right |-> right] \in Calls
    BY DEF AccessTyped, Calls, LoginCalls
  <2> QED BY <2>1, <2>2, Going
<1>3. ASSUME NEW c \in AccessCalls, ResolveIdentity(c)
      PROVE  accessCalls' \in [AccessCalls -> Calls]
  <2>1. PICK r \in Routed, s \in AuthSessions, p \in Projects, u \in Users, role \in Roles :
          /\ Valid(s)
          /\ Goes(c, [at |-> "identity", session |-> s, user |-> authSessions[s].user,
                      route |-> r, project |-> p, member |-> u, role |-> role])
    BY <1>3 DEF ResolveIdentity
  <2>2. authSessions[s].user \in Users
    BY <2>1 DEF Valid, Open, AccessTyped, SessionTable
  <2>3. [at |-> "identity", session |-> s, user |-> authSessions[s].user,
         route |-> r, project |-> p, member |-> u, role |-> role] \in Calls
    BY <2>2 DEF Calls, RequestCalls
  <2> QED BY <2>1, <2>3, Going
<1>4. ASSUME NEW c \in AccessCalls, AuthorizeProject(c) \/ RequireMutationProof(c)
      PROVE  accessCalls' \in [AccessCalls -> Calls]
  BY <1>4, Moving, Answering DEF AuthorizeProject, RequireMutationProof, AccessRefused
<1>5. ASSUME NEW c \in AccessCalls, Carry(c)
      PROVE  accessCalls' \in [AccessCalls -> Calls]
  BY <1>5, Moving, Answering DEF Carry
<1>6. ASSUME NEW c \in AccessCalls, Answered(c)
      PROVE  accessCalls' \in [AccessCalls -> Calls]
  BY <1>6, Answering
<1> QED BY <1>1, <1>2, <1>3, <1>4, <1>5, <1>6
        DEF AccessNext, accessVars, RecordLoginFailure, LoggedIn, OwnerWritten, Tick

LEMMA OwnersSeenStep ==
  ASSUME AccessTyped, OwnersSeen, AProjectKeepsAnOwner, [AccessNext]_accessVars
  PROVE  OwnersSeen'
<1>1. \A q \in Projects : Owners(q) # {} => Owners(q)' # {}
  BY StepMembers
<1> SUFFICES ASSUME NEW d \in AccessCalls, accessCalls'[d].at \in {"proof", "body"},
                    accessCalls'[d].route.route \in OwnerRoutes
             PROVE  \E u \in Users : members'[accessCalls'[d].project][u] = "owner"
  BY DEF OwnersSeen, Owners
<1> DEFINE call == accessCalls[d]
\* A call that stays where it is, or that goes on to a later place.
<1>2. ASSUME call.at \in {"proof", "body"}, accessCalls'[d].route = call.route,
             accessCalls'[d].project = call.project
      PROVE  \E u \in Users : members'[accessCalls'[d].project][u] = "owner"
  <2>1. call.project \in Projects
    BY <1>2, CallsByPlace DEF RequestCalls
  <2>2. Owners(call.project) # {}
    BY <1>2 DEF OwnersSeen
  <2>3. Owners(call.project)' # {} => \E u \in Users : members'[(call.project)'][u] = "owner"
    BY DEF Owners
  <2> QED BY <1>1, <1>2, <2>1, <2>2 DEF Owners
\* The role that lets a call through is that of an owner.
<1>3. ASSUME AuthorizeProject(d), accessCalls'[d] # FreeCall
      PROVE  \E u \in Users : members'[accessCalls'[d].project][u] = "owner"
  <2>1. call \in RequestCalls /\ call.user \in Users /\ call.project \in Projects /\ call.route \in Routed
    BY <1>3, CallsByPlace DEF AuthorizeProject, RequestCalls
  <2>2. /\ ~(RoleRank[members[call.project][call.user]] < RoleRank[call.route.needs])
        /\ members' = members
        /\ accessCalls'[d].route = call.route /\ accessCalls'[d].project = call.project
    BY <1>3, Answering, Moving DEF AuthorizeProject, AccessRefused
  <2>3. call.route.needs = "owner"
    BY <2>1, <2>2, RoutesTyped
  <2>4. members[call.project][call.user] = "owner"
    BY <2>1, <2>2, <2>3 DEF RoleRank, AccessTyped, MemberTable, Roles
  <2> QED BY <2>1, <2>2, <2>4
<1>4. accessCalls'[d] # FreeCall
  BY DEF FreeCall
<1>5. CASE accessCalls'[d] = call
  BY <1>2, <1>5
<1>6. ASSUME NEW c \in AccessCalls, c # d, Answered(c) \/ (\E r : Goes(c, r))
      PROVE  accessCalls'[d] = call
  BY <1>6 DEF Answered, Goes, AccessTyped
<1>7. ~Answered(d)
  BY <1>4, Answering
<1>8. ASSUME NEW r, Goes(d, r)
      PROVE  accessCalls'[d] = r
  BY <1>8 DEF Goes, AccessTyped
<1>9. ASSUME NEW u \in Users, HandleLogin(d, u) PROVE FALSE
  BY <1>8, <1>9 DEF HandleLogin
<1>10. ASSUME ResolveIdentity(d) PROVE FALSE
  BY <1>8, <1>10 DEF ResolveIdentity
<1>11. ASSUME RequireMutationProof(d)
       PROVE  /\ call.at \in {"proof", "body"} /\ accessCalls'[d].route = call.route
              /\ accessCalls'[d].project = call.project
  BY <1>7, <1>11, Moving DEF RequireMutationProof, AccessRefused
<1>12. ASSUME Carry(d) PROVE FALSE
  BY <1>7, <1>12, Moving DEF Carry
<1>13. ASSUME NEW c \in AccessCalls,
              \/ \E u \in Users : HandleLogin(c, u)
              \/ RecordLoginFailure(c) \/ LoggedIn(c)
              \/ ResolveIdentity(c) \/ AuthorizeProject(c) \/ RequireMutationProof(c)
              \/ Carry(c) \/ OwnerWritten(c)
       PROVE  Answered(c) \/ \E r : Goes(c, r)
  BY <1>13 DEF HandleLogin, RecordLoginFailure, LoggedIn, ResolveIdentity, AuthorizeProject,
               AccessRefused, RequireMutationProof, Carry, OwnerWritten
<1>14. CASE UNCHANGED accessVars \/ Tick
  BY <1>5, <1>14 DEF accessVars, Tick
<1>15. ASSUME NEW c \in AccessCalls,
              \/ \E u \in Users : HandleLogin(c, u)
              \/ RecordLoginFailure(c) \/ LoggedIn(c)
              \/ ResolveIdentity(c) \/ AuthorizeProject(c) \/ RequireMutationProof(c)
              \/ Carry(c) \/ OwnerWritten(c)
       PROVE  \E u \in Users : members'[accessCalls'[d].project][u] = "owner"
  <2>1. CASE c # d
    BY <1>5, <1>6, <1>13, <1>15, <2>1
  <2>2. CASE c = d
    BY <1>2, <1>3, <1>4, <1>7, <1>9, <1>10, <1>11, <1>12, <1>15, <2>2
       DEF RecordLoginFailure, LoggedIn, OwnerWritten
  <2> QED BY <2>1, <2>2
<1> QED BY <1>14, <1>15 DEF AccessNext

-------------------------------------------------------------------------------
(* Logins.                                                                  *)

LEMMA FreshTyped == Fresh \in ThrottleRecords /\ Fresh.count = 0 /\ ~Fresh.known
  BY DEF Fresh, ThrottleRecords

Recounted(r, n, end) == [r EXCEPT !.count = n, !.until = end]

\* A failure is counted on top of those of its window, or first in a new one.
LEMMA CountedFacts ==
  ASSUME NEW t \in ThrottleRecords, NEW at \in Nat, ~t.known => t.count = 0,
         t.known => ~WindowOver(t, at)
  PROVE  /\ Counted(t, at) \in ThrottleRecords
         /\ Counted(t, at).count = t.count + 1
         /\ Counted(t, at).known
         /\ ~WindowOver(Counted(t, at), at)
         /\ Counted(t, at).count >= MaxLoginAttempts => Counted(t, at).until >= 1
<1>1. /\ LoginWindow \in Nat \ {0} /\ LoginCooldown \in Nat \ {0} /\ MaxLoginAttempts \in Nat \ {0}
  BY AccessAssumption
<1>2. PICK state \in ThrottleRecords :
        /\ state.count = t.count /\ state.known /\ ~WindowOver(state, at)
        /\ state = IF ~t.known \/ WindowOver(t, at)
                   THEN [count |-> 0, from |-> at, until |-> 0, known |-> TRUE] ELSE t
  <2> DEFINE first == [count |-> 0, from |-> at, until |-> 0, known |-> TRUE]
  <2>1. first \in ThrottleRecords /\ first.count = 0 /\ first.known /\ ~WindowOver(first, at)
    BY <1>1 DEF ThrottleRecords, WindowOver
  <2>2. CASE t.known
    BY <2>2 
  <2>3. CASE ~t.known
    BY <2>1, <2>3
  <2> QED BY <2>2, <2>3
<1>3. PICK end \in Nat :
        /\ state.count + 1 >= MaxLoginAttempts => end >= 1
        /\ end = IF state.count + 1 >= MaxLoginAttempts THEN at + LoginCooldown ELSE state.until
  BY <1>1 DEF ThrottleRecords
<1>4. Counted(t, at) = Recounted(state, state.count + 1, end)
  BY <1>2, <1>3 DEF Counted, Recounted
<1>5. state.count + 1 \in Nat
  BY DEF ThrottleRecords
<1> DEFINE new == Recounted(state, state.count + 1, end)
<1>6. /\ new \in ThrottleRecords /\ new.count = state.count + 1 /\ new.until = end
      /\ new.from = state.from /\ new.known = state.known
  BY <1>5 DEF Recounted, ThrottleRecords
<1> HIDE DEF new
<1>7. Counted(t, at) = new
  BY <1>4 DEF new
<1>8. ~WindowOver(new, at)
  BY <1>2, <1>6 DEF WindowOver
<1> QED BY <1>2, <1>3, <1>6, <1>7, <1>8

\* The wrong passwords of a login key that are not yet recorded.
Wrong(u) == {c \in AccessCalls : /\ accessCalls[c].at = "login" /\ accessCalls[c].user = u
                                 /\ ~accessCalls[c].right}

\* What is tried is counted, or still under way in the minute it was verified in; a
\* full count has blocked its key, so that whoever is let in found one that is not
\* full, or begins a new account.
ThrottleInv ==
  /\ \A u \in Users :
       /\ ~throttle[u].known => throttle[u].count = 0
       /\ throttle[u].count >= MaxLoginAttempts => throttle[u].until >= 1
       /\ tried[u] <= throttle[u].count + Cardinality(Wrong(u))
  /\ \A c \in AccessCalls :
       LET call == accessCalls[c] IN
       call.at = "login" =>
         /\ call.now = minute
         /\ throttle[call.user].known => ~WindowOver(throttle[call.user], minute)

LEMMA WrongFinite ==
  ASSUME NEW u \in Users
  PROVE  /\ IsFiniteSet(Wrong(u)) /\ Cardinality(Wrong(u)) \in Nat
         /\ Cardinality(Wrong(u)) <= Cardinality(AccessCalls)
         /\ Cardinality(AccessCalls) \in Nat
  BY AccessAssumption, FS_Subset, FS_CardinalityType DEF Wrong

\* A login that is let in within an account finds a count that is not full.
LEMMA LetIn ==
  ASSUME AccessTyped, ThrottleInv, NEW u \in Users, ~Blocked(u), ~Reprieved(u)
  PROVE  throttle[u].count <= MaxLoginAttempts - 1 /\ Retried(u) = throttle
<1>1. /\ throttle[u] \in ThrottleRecords /\ minute \in Nat
      /\ MaxLoginAttempts \in Nat \ {0}
  BY AccessAssumption DEF AccessTyped
<1>2. Retried(u) = throttle
  BY DEF Retried, Reprieved
<1>3. ASSUME throttle[u].count >= MaxLoginAttempts PROVE FALSE
  <2>1. throttle[u].known /\ throttle[u].until >= 1
    BY <1>1, <1>3 DEF ThrottleInv, ThrottleRecords
  <2>2. throttle[u].until \in 1..minute
    BY <1>1, <2>1 DEF Blocked, ThrottleRecords
  <2> QED BY <2>1, <2>2 DEF Reprieved
<1> QED BY <1>1, <1>2, <1>3 DEF ThrottleRecords

LEMMA WrongLeavesOne ==
  ASSUME NEW u \in Users, NEW c \in AccessCalls, c \notin Wrong(u)
  PROVE  Cardinality(Wrong(u)) <= Cardinality(AccessCalls) - 1
<1>1. Wrong(u) \subseteq AccessCalls \ {c}
  BY DEF Wrong
<1>2. /\ IsFiniteSet(AccessCalls \ {c}) /\ Cardinality(AccessCalls) \in Nat
      /\ Cardinality(AccessCalls \ {c}) = Cardinality(AccessCalls) - 1
  BY AccessAssumption, FS_RemoveElement, FS_CardinalityType
<1> QED BY <1>1, <1>2, FS_Subset

\* What becomes of the wrong passwords under way when one call changes.
IsWrong(call, u) == call.at = "login" /\ call.user = u /\ ~call.right

LEMMA WrongStep ==
  ASSUME NEW c \in AccessCalls, NEW u \in Users, 
         \A d \in AccessCalls \ {c} : accessCalls'[d] = accessCalls[d]
  PROVE  /\ c \in Wrong(u)' <=> IsWrong(accessCalls'[c], u)
         /\ (c \in Wrong(u)' <=> c \in Wrong(u)) => Wrong(u)' = Wrong(u)
         /\ c \notin Wrong(u) /\ c \in Wrong(u)' =>
              Cardinality(Wrong(u)') = Cardinality(Wrong(u)) + 1
         /\ c \in Wrong(u) /\ c \notin Wrong(u)' =>
              Cardinality(Wrong(u)') = Cardinality(Wrong(u)) - 1
<1>1. c \in Wrong(u)' <=> IsWrong(accessCalls'[c], u)
  BY DEF Wrong, IsWrong
<1>2. \A d \in AccessCalls \ {c} : d \in Wrong(u)' <=> d \in Wrong(u)
  BY DEF Wrong
<1>3. Wrong(u) \subseteq AccessCalls /\ Wrong(u)' \subseteq AccessCalls
  BY DEF Wrong
<1>4. IsFiniteSet(Wrong(u)) /\ Cardinality(Wrong(u)) \in Nat
  BY WrongFinite
<1>5. (c \in Wrong(u)' <=> c \in Wrong(u)) => Wrong(u)' = Wrong(u)
  BY <1>2, <1>3
<1>6. c \notin Wrong(u) /\ c \in Wrong(u)' =>
        Cardinality(Wrong(u)') = Cardinality(Wrong(u)) + 1
  <2>1. c \notin Wrong(u) /\ c \in Wrong(u)' => Wrong(u)' = Wrong(u) \cup {c}
    BY <1>2, <1>3
  <2> QED BY <1>4, <2>1, FS_AddElement
<1>7. c \in Wrong(u) /\ c \notin Wrong(u)' =>
        Cardinality(Wrong(u)') = Cardinality(Wrong(u)) - 1
  <2>1. c \in Wrong(u) /\ c \notin Wrong(u)' => Wrong(u)' = Wrong(u) \ {c}
    BY <1>2, <1>3
  <2> QED BY <1>4, <2>1, FS_RemoveElement
<1> QED BY <1>1, <1>5, <1>6, <1>7

\* A step in which no login begins, ends or is counted leaves the account alone.
LEMMA NoLoginStep ==
  ASSUME ThrottleInv, UNCHANGED <<minute, throttle, tried>>,
         \A d \in AccessCalls :
           accessCalls'[d] = accessCalls[d]
           \/ (accessCalls[d].at # "login" /\ accessCalls'[d].at # "login")
  PROVE  ThrottleInv'
<1>1. \A u \in Users : Wrong(u)' = Wrong(u)
  BY DEF Wrong
<1> QED BY <1>1 DEF ThrottleInv, WindowOver

LEMMA HandleLoginStep ==
  ASSUME AccessTyped, ThrottleInv, AttemptsAreBounded, NEW c \in AccessCalls, NEW u \in Users,
         HandleLogin(c, u)
  PROVE  /\ throttle' \in [Users -> ThrottleRecords] /\ tried' \in [Users -> Nat]
         /\ ThrottleInv' /\ AttemptsAreBounded'
<1> DEFINE account == IF Reprieved(u) THEN 0 ELSE tried[u]
<1>1. PICK right \in BOOLEAN :
        /\ Goes(c, [at |-> "login", user |-> u, now |-> minute, right |-> right])
        /\ tried' = [tried EXCEPT ![u] = account + (IF right THEN 0 ELSE 1)]
  BY DEF HandleLogin
<1>2. /\ throttle[u] \in ThrottleRecords /\ minute \in Nat /\ tried[u] \in Nat
      /\ MaxLoginAttempts \in Nat \ {0} /\ LoginWindow \in Nat \ {0}
      /\ throttle' = Retried(u) /\ ~Blocked(u) /\ UNCHANGED minute
      /\ accessCalls[c].at = "free"
  BY AccessAssumption DEF AccessTyped, HandleLogin, FreeCall
<1>3. /\ accessCalls'[c] = [at |-> "login", user |-> u, now |-> minute, right |-> right]
      /\ \A d \in AccessCalls \ {c} : accessCalls'[d] = accessCalls[d]
  BY <1>1 DEF Goes, AccessTyped
<1>4. \A v \in Users : c \notin Wrong(v)
  BY <1>2 DEF Wrong
<1>5. \A v \in Users : Cardinality(Wrong(v)) \in Nat
  BY WrongFinite
<1>6. \A v \in Users :
        Cardinality(Wrong(v)') = Cardinality(Wrong(v)) + (IF v = u /\ ~right THEN 1 ELSE 0)
  BY <1>3, <1>4, <1>5, WrongStep DEF IsWrong
<1>7. /\ throttle' \in [Users -> ThrottleRecords]
      /\ \A v \in Users \ {u} : throttle'[v] = throttle[v]
      /\ \/ throttle'[u] = Fresh /\ WindowOver(throttle[u], minute) /\ throttle[u].known
         \/ throttle'[u] = throttle[u] /\ (throttle[u].known => ~WindowOver(throttle[u], minute))
  BY <1>2, FreshTyped DEF Retried, AccessTyped
<1>8. /\ tried' \in [Users -> Nat]
      /\ tried'[u] = account + (IF right THEN 0 ELSE 1)
      /\ \A v \in Users \ {u} : tried'[v] = tried[v]
  BY <1>1, <1>2 DEF AccessTyped
<1>9. account = 0 \/ (account = tried[u] /\ throttle' = throttle
                      /\ throttle[u].count <= MaxLoginAttempts - 1)
  BY <1>2, LetIn
<1>10. account \in Nat
  BY <1>2
<1> HIDE DEF account
<1>11. \A v \in Users :
         /\ ~throttle'[v].known => throttle'[v].count = 0
         /\ throttle'[v].count >= MaxLoginAttempts => throttle'[v].until >= 1
  BY <1>2, <1>7, FreshTyped DEF ThrottleInv
<1>12. \A v \in Users : tried'[v] <= throttle'[v].count + Cardinality(Wrong(v)')
  <2>1. ASSUME NEW v \in Users \ {u} PROVE tried'[v] <= throttle'[v].count + Cardinality(Wrong(v)')
    BY <1>5, <1>6, <1>7, <1>8 DEF ThrottleInv
  <2>2. throttle'[u].count \in Nat
    BY <1>7 DEF ThrottleRecords
  <2>3. tried[u] <= throttle[u].count + Cardinality(Wrong(u))
    BY DEF ThrottleInv
  <2>4. tried'[u] <= throttle'[u].count + Cardinality(Wrong(u)')
    BY <1>2, <1>5, <1>6, <1>8, <1>9, <2>2, <2>3
  <2> QED BY <2>1, <2>4
<1>13. ASSUME NEW d \in AccessCalls, accessCalls'[d].at = "login"
       PROVE  /\ accessCalls'[d].now = minute
              /\ throttle'[accessCalls'[d].user].known =>
                   ~WindowOver(throttle'[accessCalls'[d].user], minute)
  <2>1. CASE d = c
    BY <1>3, <1>7, <2>1, FreshTyped
  <2>2. CASE d # c
    <3>1. /\ accessCalls'[d] = accessCalls[d] /\ accessCalls[d].at = "login"
          /\ accessCalls[d].user \in Users
      BY <1>3, <1>13, <2>2, CallsByPlace DEF LoginCalls
    <3> QED BY <1>7, <3>1, FreshTyped DEF ThrottleInv
  <2> QED BY <2>1, <2>2
<1>14. ThrottleInv'
  BY <1>2, <1>11, <1>12, <1>13 DEF ThrottleInv, WindowOver
<1>15. AttemptsAreBounded'
  <2>1. /\ Cardinality(AccessCalls) \in Nat
        /\ Cardinality(Wrong(u)) <= Cardinality(AccessCalls) - 1
    BY <1>4, WrongFinite, WrongLeavesOne
  <2>2. tried[u] <= throttle[u].count + Cardinality(Wrong(u))
    BY DEF ThrottleInv
  <2>3. throttle[u].count \in Nat
    BY <1>2 DEF ThrottleRecords
  <2>4. tried'[u] <= MaxLoginAttempts + Cardinality(AccessCalls) - 1
    BY <1>2, <1>5, <1>8, <1>9, <2>1, <2>2, <2>3
  <2> QED BY <1>8, <2>4 DEF AttemptsAreBounded
<1> QED BY <1>7, <1>8, <1>14, <1>15

LEMMA LoginFailureStep ==
  ASSUME AccessTyped, ThrottleInv, NEW c \in AccessCalls, RecordLoginFailure(c)
  PROVE  throttle' \in [Users -> ThrottleRecords] /\ ThrottleInv'
<1>1. PICK u \in Users :
        /\ accessCalls[c].user = u /\ accessCalls[c].at = "login" /\ ~accessCalls[c].right
        /\ accessCalls[c].now = minute
        /\ throttle' = [throttle EXCEPT ![u] = Counted(throttle[u], minute)]
  <2>1. accessCalls[c] \in LoginCalls /\ accessCalls[c].now = minute
    BY CallsByPlace DEF RecordLoginFailure, ThrottleInv
  <2> QED BY <2>1 DEF RecordLoginFailure, LoginCalls
<1>2. /\ minute \in Nat /\ throttle[u] \in ThrottleRecords /\ tried[u] \in Nat
      /\ minute' = minute /\ tried' = tried
      /\ ~throttle[u].known => throttle[u].count = 0
      /\ throttle[u].known => ~WindowOver(throttle[u], minute)
  BY <1>1 DEF AccessTyped, ThrottleInv, RecordLoginFailure
<1>3. /\ accessCalls'[c] = FreeCall
      /\ \A d \in AccessCalls \ {c} : accessCalls'[d] = accessCalls[d]
  BY Answering DEF RecordLoginFailure
<1> DEFINE new == Counted(throttle[u], minute)
<1>4. /\ new \in ThrottleRecords /\ new.count = throttle[u].count + 1
      /\ new.known /\ ~WindowOver(new, minute)
      /\ new.count >= MaxLoginAttempts => new.until >= 1
  BY <1>2, CountedFacts
<1> HIDE DEF new
<1>5. /\ throttle' \in [Users -> ThrottleRecords] /\ throttle'[u] = new
      /\ \A v \in Users \ {u} : throttle'[v] = throttle[v]
  BY <1>1, <1>4 DEF AccessTyped, new
<1>6. c \in Wrong(u) /\ \A v \in Users \ {u} : c \notin Wrong(v)
  BY <1>1 DEF Wrong
<1>7. \A v \in Users : c \notin Wrong(v)'
  BY <1>3 DEF Wrong, FreeCall
<1>8. /\ Cardinality(Wrong(u)') = Cardinality(Wrong(u)) - 1
      /\ \A v \in Users \ {u} : Wrong(v)' = Wrong(v)
  BY <1>3, <1>6, <1>7, WrongStep
<1>9. \A v \in Users :
        /\ ~throttle'[v].known => throttle'[v].count = 0
        /\ throttle'[v].count >= MaxLoginAttempts => throttle'[v].until >= 1
  BY <1>4, <1>5 DEF ThrottleInv
<1>10. \A v \in Users : tried'[v] <= throttle'[v].count + Cardinality(Wrong(v)')
  <2>1. tried[u] <= new.count + Cardinality(Wrong(u)')
    BY <1>2, <1>4, <1>8, WrongFinite DEF ThrottleInv, ThrottleRecords
  <2> QED BY <1>2, <1>5, <1>8, <2>1 DEF ThrottleInv
<1>11. ASSUME NEW d \in AccessCalls, accessCalls'[d].at = "login"
       PROVE  /\ accessCalls'[d].now = minute
              /\ throttle'[accessCalls'[d].user].known =>
                   ~WindowOver(throttle'[accessCalls'[d].user], minute)
  <2>1. d # c
    BY <1>3, <1>11 DEF FreeCall
  <2>2. /\ accessCalls'[d] = accessCalls[d] /\ accessCalls[d].at = "login"
        /\ accessCalls[d].user \in Users
    BY <1>3, <1>11, <2>1, CallsByPlace DEF LoginCalls
  <2> QED BY <1>4, <1>5, <2>2 DEF ThrottleInv
<1>12. ThrottleInv'
  BY <1>2, <1>9, <1>10, <1>11 DEF ThrottleInv, WindowOver
<1> QED BY <1>5, <1>12

LEMMA LoggedInStep ==
  ASSUME AccessTyped, ThrottleInv, NEW c \in AccessCalls, LoggedIn(c)
  PROVE  /\ throttle' \in [Users -> ThrottleRecords] /\ tried' \in [Users -> Nat]
         /\ ThrottleInv' /\ (AttemptsAreBounded => AttemptsAreBounded')
<1>1. PICK u \in Users :
        /\ accessCalls[c].at = "login" /\ accessCalls[c].right
        /\ throttle' = [throttle EXCEPT ![u] = Fresh]
        /\ tried' = [tried EXCEPT ![u] = 0]
        /\ minute' = minute
  BY CallsByPlace DEF LoggedIn, LoginCalls
<1>2. /\ accessCalls'[c] = FreeCall
      /\ \A d \in AccessCalls \ {c} : accessCalls'[d] = accessCalls[d]
  BY Answering DEF LoggedIn
<1>3. \A v \in Users : c \notin Wrong(v) /\ c \notin Wrong(v)'
  BY <1>1, <1>2 DEF Wrong, FreeCall
<1>4. \A v \in Users : Wrong(v)' = Wrong(v) /\ Cardinality(Wrong(v)) \in Nat
  BY <1>2, <1>3, WrongStep, WrongFinite
<1>5. /\ throttle' \in [Users -> ThrottleRecords] /\ throttle'[u] = Fresh
      /\ \A v \in Users \ {u} : throttle'[v] = throttle[v]
      /\ tried' \in [Users -> Nat] /\ tried'[u] = 0
      /\ \A v \in Users \ {u} : tried'[v] = tried[v]
  BY <1>1, FreshTyped DEF AccessTyped
<1>6. \A v \in Users :
        /\ ~throttle'[v].known => throttle'[v].count = 0
        /\ throttle'[v].count >= MaxLoginAttempts => throttle'[v].until >= 1
        /\ tried'[v] <= throttle'[v].count + Cardinality(Wrong(v)')
  <2>1. MaxLoginAttempts \in Nat \ {0}
    BY AccessAssumption
  <2> QED BY <1>4, <1>5, <2>1, FreshTyped DEF ThrottleInv
<1>7. ASSUME NEW d \in AccessCalls, accessCalls'[d].at = "login"
      PROVE  /\ accessCalls'[d].now = minute
             /\ throttle'[accessCalls'[d].user].known =>
                  ~WindowOver(throttle'[accessCalls'[d].user], minute)
  <2>1. d # c
    BY <1>2, <1>7 DEF FreeCall
  <2>2. /\ accessCalls'[d] = accessCalls[d] /\ accessCalls[d].at = "login"
        /\ accessCalls[d].user \in Users
    BY <1>2, <1>7, <2>1, CallsByPlace DEF LoginCalls
  <2> QED BY <1>5, <2>2, FreshTyped DEF ThrottleInv
<1>8. ThrottleInv'
  BY <1>1, <1>6, <1>7 DEF ThrottleInv, WindowOver
<1>9. AttemptsAreBounded => AttemptsAreBounded'
  <2>1. Cardinality(AccessCalls) \in Nat \ {0}
    BY AccessAssumption, FS_CardinalityType, FS_EmptySet
  <2>2. 0 <= MaxLoginAttempts + Cardinality(AccessCalls) - 1
    BY <2>1, AccessAssumption
  <2> QED BY <1>5, <2>2 DEF AttemptsAreBounded
<1> QED BY <1>5, <1>8, <1>9

\* The clock, the sessions and the projects.
LEMMA OthersTyped ==
  ASSUME AccessTyped, [AccessNext]_accessVars
  PROVE  /\ minute' \in Nat /\ projects' \subseteq Projects
         /\ authSessions' \in SessionTable
<1>1. minute' \in Nat
  <2>1. minute \in Nat
    BY DEF AccessTyped
  <2>2. minute' = minute \/ minute' = minute + 1
    BY DEF AccessNext, accessVars, HandleLogin, RecordLoginFailure, LoggedIn, ResolveIdentity,
           AuthorizeProject, AccessRefused, RequireMutationProof, Carry, OwnerWritten, Tick
  <2> QED BY <2>1, <2>2
<1>2. ASSUME NEW c \in AccessCalls, Carry(c)
      PROVE  projects' \subseteq Projects /\ authSessions' \in SessionTable
  <2>1. accessCalls[c].project \in Projects /\ accessCalls[c].session \in AuthSessions
    BY <1>2, CallsByPlace DEF Carry, RequestCalls
  <2>2. projects' \subseteq Projects
    BY <1>2, <2>1 DEF Carry, CreateProjectAsOwner, AccessTyped
  <2>3. \A s \in AuthSessions : RevokeSession(s) => authSessions' \in SessionTable
    <3> SUFFICES ASSUME NEW s \in AuthSessions, RevokeSession(s) PROVE authSessions' \in SessionTable
      OBVIOUS
    <3>1. authSessions \in SessionTable
      BY DEF AccessTyped
    <3> QED BY <3>1 DEF RevokeSession, SessionTable
  <2>4. authSessions' = authSessions \/ RevokeSession(accessCalls[c].session)
    BY <1>2 DEF Carry
  <2> QED BY <2>1, <2>2, <2>3, <2>4 DEF AccessTyped
<1>3. ASSUME NEW c \in AccessCalls, LoggedIn(c)
      PROVE  projects' \subseteq Projects /\ authSessions' \in SessionTable
  <2>1. accessCalls[c].user \in Users /\ accessCalls[c].now \in Nat
    BY <1>3, CallsByPlace DEF LoggedIn, LoginCalls
  <2>2. SessionTtl \in Nat
    BY AccessAssumption
  <2>3. PICK s \in AuthSessions :
          authSessions' = [authSessions EXCEPT ![s] =
            [user |-> accessCalls[c].user, expires |-> accessCalls[c].now + SessionTtl,
             revoked |-> FALSE]]
    BY <1>3 DEF LoggedIn, CreateSession
  <2>4. authSessions' \in SessionTable
    BY <2>1, <2>2, <2>3 DEF AccessTyped, SessionTable
  <2> QED BY <1>3, <2>4 DEF LoggedIn, AccessTyped
<1>4. CASE projects' = projects /\ authSessions' = authSessions
  BY <1>1, <1>4 DEF AccessTyped
<1> QED BY <1>1, <1>2, <1>3, <1>4
        DEF AccessNext, accessVars, HandleLogin, RecordLoginFailure, ResolveIdentity,
            AuthorizeProject, AccessRefused, RequireMutationProof, OwnerWritten, Tick

\* The steps of requests move no login.
LEMMA RequestStep ==
  ASSUME AccessTyped, NEW c \in AccessCalls,
         ResolveIdentity(c) \/ AuthorizeProject(c) \/ RequireMutationProof(c) \/ Carry(c)
         \/ OwnerWritten(c)
  PROVE  /\ UNCHANGED <<minute, throttle, tried>>
         /\ \A d \in AccessCalls :
              accessCalls'[d] = accessCalls[d]
              \/ (accessCalls[d].at # "login" /\ accessCalls'[d].at # "login")
<1>1. UNCHANGED <<minute, throttle, tried>>
  BY DEF ResolveIdentity, AuthorizeProject, AccessRefused, RequireMutationProof, Carry, OwnerWritten
<1>2. accessCalls[c].at # "login"
  BY DEF ResolveIdentity, AuthorizeProject, RequireMutationProof, Carry, OwnerWritten, FreeCall
<1>3. ASSUME NEW call, call.at # "login", Goes(c, call)
      PROVE  /\ accessCalls'[c].at # "login"
             /\ \A d \in AccessCalls \ {c} : accessCalls'[d] = accessCalls[d]
  BY <1>3 DEF Goes, AccessTyped
<1>4. ASSUME Answered(c)
      PROVE  /\ accessCalls'[c].at # "login"
             /\ \A d \in AccessCalls \ {c} : accessCalls'[d] = accessCalls[d]
  BY <1>4, Answering DEF FreeCall
<1>5. ASSUME ~ResolveIdentity(c), ~Answered(c)
      PROVE  /\ accessCalls'[c].at # "login"
             /\ \A d \in AccessCalls \ {c} : accessCalls'[d] = accessCalls[d]
  BY <1>5, Moving DEF AuthorizeProject, AccessRefused, RequireMutationProof, Carry, OwnerWritten
<1>6. ASSUME ResolveIdentity(c)
      PROVE  /\ accessCalls'[c].at # "login"
             /\ \A d \in AccessCalls \ {c} : accessCalls'[d] = accessCalls[d]
  BY <1>3, <1>6 DEF ResolveIdentity
<1> QED BY <1>1, <1>2, <1>4, <1>5, <1>6

LEMMA ThrottleStep ==
  ASSUME AccessTyped, ThrottleInv, AttemptsAreBounded, [AccessNext]_accessVars
  PROVE  /\ throttle' \in [Users -> ThrottleRecords] /\ tried' \in [Users -> Nat]
         /\ ThrottleInv' /\ AttemptsAreBounded'
<1>1. ASSUME NEW c \in AccessCalls, RecordLoginFailure(c)
      PROVE  /\ throttle' \in [Users -> ThrottleRecords] /\ tried' \in [Users -> Nat]
             /\ ThrottleInv' /\ AttemptsAreBounded'
  BY <1>1, LoginFailureStep DEF RecordLoginFailure, AccessTyped, AttemptsAreBounded
<1>2. ASSUME UNCHANGED <<minute, throttle, tried>>,
             \A d \in AccessCalls :
               accessCalls'[d] = accessCalls[d]
               \/ (accessCalls[d].at # "login" /\ accessCalls'[d].at # "login")
      PROVE  /\ throttle' \in [Users -> ThrottleRecords] /\ tried' \in [Users -> Nat]
             /\ ThrottleInv' /\ AttemptsAreBounded'
  BY <1>2, NoLoginStep DEF AccessTyped, AttemptsAreBounded
<1>3. CASE Tick
  <2>1. \A u \in Users : Wrong(u)' = Wrong(u)
    BY <1>3 DEF Tick, Wrong
  <2>2. ThrottleInv'
    BY <1>3, <2>1 DEF Tick, ThrottleInv
  <2> QED BY <1>3, <2>2 DEF Tick, AccessTyped, AttemptsAreBounded
<1>4. CASE UNCHANGED accessVars
  BY <1>2, <1>4 DEF accessVars
<1>5. ASSUME NEW c \in AccessCalls,
             ResolveIdentity(c) \/ AuthorizeProject(c) \/ RequireMutationProof(c) \/ Carry(c)
             \/ OwnerWritten(c)
      PROVE  /\ throttle' \in [Users -> ThrottleRecords] /\ tried' \in [Users -> Nat]
             /\ ThrottleInv' /\ AttemptsAreBounded'
  BY <1>2, <1>5, RequestStep
<1> QED BY <1>1, <1>3, <1>4, <1>5, HandleLoginStep, LoggedInStep DEF AccessNext

\* The inductive invariant: the two properties, what is read of members before it is
\* used, and how failures are counted.
AccessIInv ==
  AccessTyped /\ AProjectKeepsAnOwner /\ OwnersSeen /\ ThrottleInv /\ AttemptsAreBounded

LEMMA AccessInitially == AccessInit => AccessIInv
<1> SUFFICES ASSUME AccessInit PROVE AccessIInv
  OBVIOUS
<1>1. AccessTyped
  BY FreshTyped DEF AccessInit, AccessTyped, MemberTable, SessionTable, Calls
<1>2. AProjectKeepsAnOwner /\ OwnersSeen
  BY DEF AccessInit, AProjectKeepsAnOwner, OwnersSeen, FreeCall
<1>3. ThrottleInv
  <2>1. \A u \in Users : Cardinality(Wrong(u)) \in Nat
    BY WrongFinite
  <2>2. MaxLoginAttempts \in Nat \ {0}
    BY AccessAssumption
  <2> QED BY <2>1, <2>2, FreshTyped DEF AccessInit, ThrottleInv, FreeCall
<1>4. AttemptsAreBounded
  <2>1. Cardinality(AccessCalls) \in Nat /\ MaxLoginAttempts \in Nat \ {0}
    BY AccessAssumption, FS_CardinalityType
  <2> QED BY <2>1 DEF AccessInit, AttemptsAreBounded
<1> QED BY <1>1, <1>2, <1>3, <1>4 DEF AccessIInv

LEMMA AccessStep == AccessIInv /\ [AccessNext]_accessVars => AccessIInv'
<1> SUFFICES ASSUME AccessIInv, [AccessNext]_accessVars PROVE AccessIInv'
  OBVIOUS
<1>1. AccessTyped'
  BY StepMembers, CallsStep, OthersTyped, ThrottleStep DEF AccessIInv, AccessTyped
<1> QED BY <1>1, StepMembers, OwnersSeenStep, ThrottleStep DEF AccessIInv

\* The inductive invariant of access (every request of control-server.ts and the stores
\* it calls): an owner seen by a request in the store is one, every counted failure is
\* bounded, and a project keeps an owner, together, after any number of steps.
THEOREM AccessInvariant == AccessSpec => []AccessIInv
BY AccessInitially, AccessStep, PTL DEF AccessSpec

\* A project that has a member has an owner, for every number of users, projects and
\* requests that change its members at the same time, in either store
\* (security.ts setProjectMemberRole and removeProjectMember, called by the routes of
\* control-server.ts after their awaits).
THEOREM ProjectsKeepAnOwner == AccessSpec => []AProjectKeepsAnOwner
<1>1. AccessIInv => AProjectKeepsAnOwner
  BY DEF AccessIInv
<1> QED BY <1>1, AccessInvariant, PTL

\* However many logins overlap, no more wrong passwords are verified for a key, from
\* one window or block to the next, than the limit and the logins under way when it is
\* reached (handleLogin and recordLoginFailure of control-server.ts).
THEOREM LoginsAreThrottled == AccessSpec => []AttemptsAreBounded
<1>1. AccessIInv => AttemptsAreBounded
  BY DEF AccessIInv
<1> QED BY <1>1, AccessInvariant, PTL

-------------------------------------------------------------------------------
(* Drafts.  What a change set makes of a content is computed by recursion over the *)
(* change set, and no proof here looks into it: a history is a sequence of snapshots *)
(* of any kind.                                                             *)

IsSequence(s) == \E S : s \in Seq(S)

LEMMA AppendAny ==
  ASSUME NEW s, NEW x, IsSequence(s)
  PROVE  /\ IsSequence(Append(s, x))
         /\ Len(s) \in Nat /\ DOMAIN s = 1..Len(s)
         /\ Len(Append(s, x)) = Len(s) + 1
         /\ DOMAIN Append(s, x) = 1..(Len(s) + 1)
         /\ \A i \in 1..Len(s) : Append(s, x)[i] = s[i]
         /\ Append(s, x)[Len(s) + 1] = x
<1>1. PICK S : s \in Seq(S)
  BY DEF IsSequence
<1>2. s \in Seq(S \cup {x})
  BY <1>1, SeqMonotonic
<1>3. Append(s, x) \in Seq(S \cup {x})
  BY <1>2, AppendProperties
<1>4. IsSequence(Append(s, x))
  BY <1>3 DEF IsSequence
<1>5. /\ Len(s) \in Nat /\ DOMAIN s = 1..Len(s)
      /\ Len(Append(s, x)) = Len(s) + 1
      /\ \A i \in 1..Len(s) : Append(s, x)[i] = s[i]
      /\ Append(s, x)[Len(s) + 1] = x
  BY <1>2, AppendProperties, LenProperties
<1>6. DOMAIN Append(s, x) = 1..(Len(s) + 1)
  BY <1>3, <1>5, LenProperties
<1> QED BY <1>4, <1>5, <1>6

\* A prefix that a sequence keeps when it grows.
LEMMA PrefixKept ==
  ASSUME NEW s, NEW x, IsSequence(s)
  PROVE  SubSeq(Append(s, x), 1, Len(s)) = s /\ SubSeq(s, 1, Len(s)) = s
<1>1. PICK S : s \in Seq(S)
  BY DEF IsSequence
<1>2. s \in Seq(S \cup {x}) /\ x \in S \cup {x}
  BY <1>1, SeqMonotonic
<1> DEFINE t == Append(s, x)
<1>3. /\ t \in Seq(S \cup {x}) /\ Len(t) = Len(s) + 1 /\ Len(s) \in Nat
      /\ \A i \in 1..Len(s) : t[i] = s[i]
  BY <1>2, AppendProperties, LenProperties
<1> HIDE DEF t
<1>4. /\ SubSeq(t, 1, Len(s)) \in Seq(S \cup {x})
      /\ Len(SubSeq(t, 1, Len(s))) = Len(s)
      /\ \A i \in 1..Len(s) : SubSeq(t, 1, Len(s))[i] = s[i]
  BY <1>3, SubSeqProperties
<1>5. SubSeq(t, 1, Len(s)) = s
  BY <1>2, <1>4, SeqEqual
<1>6. SubSeq(s, 1, Len(s)) = s
  BY <1>2, SubSeqFull
<1> QED BY <1>5, <1>6 DEF t

HasIt(d, q, r) == r \in 0..(Len(d[q]) - 1)

\* What a call that is suspended has read, and built from it, is still there.
Sound(d, call) ==
  /\ call.at \in {"idle", "compiling"}
  /\ call.at = "compiling" =>
       LET r == call.request IN
       /\ r.op \in {"create", "apply", "restore", "validate"}
       /\ r.quest \in Quests
       /\ r.op \in {"create", "apply"} => Compiles(call.content)
       /\ r.op = "create" => r.content \in Contents /\ call.content = r.content
       /\ r.op = "apply" =>
            /\ r.changes \in ChangeSets /\ call.content # Refused
            /\ HasIt(d, r.quest, r.base)
            /\ call.content = TrialContent(d[r.quest][r.base + 1].content, r.changes)
       /\ r.op = "restore" =>
            /\ r.key \in RestoreKeys /\ r.base \in Revisions /\ HasIt(d, r.quest, r.source)
            /\ call.content = d[r.quest][r.source + 1].content
       /\ r.op = "validate" =>
            /\ HasIt(d, r.quest, r.revision)
            /\ call.content = d[r.quest][r.revision + 1].content

\* EditsCompose of one snapshot.
Follows(history, i) ==
  LET s == history[i] IN
  /\ s.cause.op \in {"create", "apply", "restore"}
  /\ Compiles(s.content)
  /\ s.cause.op = "create" => i = 1 /\ s.content = s.cause.content
  /\ s.cause.op = "apply" =>
       /\ i > 1 /\ s.cause.base = i - 2
       /\ s.content = TrialContent(history[i - 1].content, s.cause.changes)
  /\ s.cause.op = "restore" =>
       /\ i > 1 /\ s.cause.base = i - 2 /\ s.cause.source \in 0..(i - 2)
       /\ s.content = history[s.cause.source + 1].content

Frozen(d, v, t) ==
  /\ HasIt(d, t.quest, t.revision) /\ t.quest \in Quests /\ t.validation \in DOMAIN v
  /\ t.content = d[t.quest][t.revision + 1].content
  /\ v[t.validation] = [quest |-> t.quest, revision |-> t.revision, content |-> t.content]

RestoreTable ==
  restores = [q \in Quests |-> [k \in RestoreKeys |-> restores[q][k]]]

\* The histories, restores and playtests, and the calls in flight.
DraftIInv ==
  /\ drafts = [q \in Quests |-> drafts[q]]
  /\ \A q \in Quests : IsSequence(drafts[q])
  /\ RestoreTable
  /\ calls = [w \in Workers |-> calls[w]]
  /\ \A w \in Workers : Sound(drafts, calls[w])
  /\ \A q \in Quests : \A i \in DOMAIN drafts[q] : Follows(drafts[q], i)
  /\ RestoresOnce
  /\ IsSequence(validations) /\ IsSequence(playtests)
  /\ \A p \in DOMAIN playtests : Frozen(drafts, validations, playtests[p])

LEMMA LengthOf ==
  ASSUME DraftIInv, NEW q \in Quests
  PROVE  Len(drafts[q]) \in Nat /\ DOMAIN drafts[q] = 1..Len(drafts[q])
         /\ (drafts[q] = <<>> <=> Len(drafts[q]) = 0)
<1>1. PICK S : drafts[q] \in Seq(S)
  BY DEF DraftIInv, IsSequence
<1> QED BY <1>1, LenProperties, EmptySeq

LEMMA EveryEditComposes == DraftIInv => EditsCompose
<1> SUFFICES ASSUME DraftIInv, NEW q \in Quests, NEW i \in DOMAIN drafts[q]
             PROVE  LET s == drafts[q][i] IN
                    /\ Compiles(s.content)
                    /\ CASE s.cause.op = "create" -> i = 1 /\ s.content = s.cause.content
                         [] s.cause.op = "apply" ->
                              /\ i > 1 /\ s.cause.base = i - 2
                              /\ s.content = TrialContent(drafts[q][i - 1].content, s.cause.changes)
                         [] s.cause.op = "restore" ->
                              /\ i > 1 /\ s.cause.base = i - 2 /\ s.cause.source <= i - 2
                              /\ s.content = ContentOf(q, s.cause.source)
  BY DEF EditsCompose
<1>1. Follows(drafts[q], i) /\ i \in Nat
  BY LengthOf DEF DraftIInv
<1> DEFINE s == drafts[q][i]
<1>2. CASE s.cause.op = "create"
  BY <1>1, <1>2 DEF Follows
<1>3. CASE s.cause.op = "apply"
  BY <1>1, <1>3 DEF Follows
<1>4. CASE s.cause.op = "restore"
  <2>1. s.cause.source <= i - 2
    BY <1>1, <1>4 DEF Follows
  <2> QED BY <1>1, <1>4, <2>1 DEF Follows, ContentOf
<1> QED BY <1>1, <1>2, <1>3, <1>4 DEF Follows

\* e holds every revision d holds, unchanged.
Keeps(d, e) ==
  \A q \in Quests : \A r : HasIt(d, q, r) => HasIt(e, q, r) /\ e[q][r + 1] = d[q][r + 1]

LEMMA SoundStays ==
  ASSUME NEW d, NEW e, Keeps(d, e), NEW call, Sound(d, call)
  PROVE  Sound(e, call)
BY DEF Sound, Keeps

LEMMA FrozenStays ==
  ASSUME NEW d, NEW e, Keeps(d, e), NEW v, NEW x, IsSequence(v), NEW t, Frozen(d, v, t)
  PROVE  Frozen(e, v, t) /\ Frozen(e, Append(v, x), t)
<1>1. Frozen(e, v, t)
  BY DEF Frozen, Keeps
<1>2. t.validation \in DOMAIN Append(v, x) /\ Append(v, x)[t.validation] = v[t.validation]
  <2>1. t.validation \in DOMAIN v
    BY DEF Frozen
  <2>2. /\ Len(v) \in Nat /\ DOMAIN v = 1..Len(v) /\ DOMAIN Append(v, x) = 1..(Len(v) + 1)
        /\ \A i \in 1..Len(v) : Append(v, x)[i] = v[i]
    BY AppendAny
  <2> QED BY <2>1, <2>2
<1> QED BY <1>1, <1>2 DEF Frozen

LEMMA FollowsStays ==
  ASSUME NEW s, NEW x, IsSequence(s), NEW i \in DOMAIN s, Follows(s, i)
  PROVE  Follows(Append(s, x), i)
<1> DEFINE t == Append(s, x)
<1>1. /\ Len(s) \in Nat /\ i \in 1..Len(s)
      /\ \A j \in 1..Len(s) : t[j] = s[j]
  BY AppendAny
<1> HIDE DEF t
<1>2. t[i] = s[i]
  BY <1>1
<1>3. s[i].cause.op = "apply" => t[i - 1] = s[i - 1]
  BY <1>1 DEF Follows
<1>4. s[i].cause.op = "restore" => t[s[i].cause.source + 1] = s[s[i].cause.source + 1]
  <2> SUFFICES ASSUME s[i].cause.op = "restore" PROVE s[i].cause.source + 1 \in 1..Len(s)
    BY <1>1
  <2>1. i > 1 /\ s[i].cause.source \in 0..(i - 2)
    BY DEF Follows
  <2> QED BY <1>1, <2>1
<1> QED BY <1>2, <1>3, <1>4 DEF Follows, t

Grown(q, s) == drafts' = [drafts EXCEPT ![q] = Append(drafts[q], s)]

LEMMA GrowthKeeps ==
  ASSUME DraftIInv, NEW q \in Quests, NEW s, Grown(q, s)
  PROVE  /\ drafts' = [p \in Quests |-> drafts'[p]]
         /\ \A p \in Quests : IsSequence(drafts'[p])
         /\ drafts'[q] = Append(drafts[q], s)
         /\ \A p \in Quests \ {q} : drafts'[p] = drafts[p]
         /\ Keeps(drafts, drafts')
<1>1. /\ drafts' = [p \in Quests |-> drafts'[p]]
      /\ drafts'[q] = Append(drafts[q], s)
      /\ \A p \in Quests \ {q} : drafts'[p] = drafts[p]
  BY DEF DraftIInv, Grown
<1>2. \A p \in Quests : IsSequence(drafts[p])
  BY DEF DraftIInv
<1>3. \A p \in Quests : IsSequence(drafts'[p])
  <2>1. IsSequence(Append(drafts[q], s))
    BY <1>2, AppendAny
  <2>2. IsSequence(drafts'[q])
    BY <1>1, <2>1
  <2> QED BY <1>1, <1>2, <2>2
<1>4. Keeps(drafts, drafts')
  <2> SUFFICES ASSUME NEW p \in Quests, NEW r, HasIt(drafts, p, r)
               PROVE  HasIt(drafts', p, r) /\ drafts'[p][r + 1] = drafts[p][r + 1]
    BY DEF Keeps
  <2>1. CASE p # q
    BY <1>1, <2>1 DEF HasIt
  <2>2. CASE p = q
    <3>1. /\ Len(drafts[q]) \in Nat
          /\ Len(drafts'[q]) = Len(drafts[q]) + 1
          /\ \A i \in 1..Len(drafts[q]) : drafts'[q][i] = drafts[q][i]
      BY <1>1, <1>2, AppendAny
    <3>2. r \in 0..(Len(drafts[q]) - 1)
      BY <2>2 DEF HasIt
    <3> QED BY <2>2, <3>1, <3>2 DEF HasIt
  <2> QED BY <2>1, <2>2
<1> QED BY <1>1, <1>3, <1>4

\* The new snapshot follows from the others; the ones before it still do.
LEMMA GrowthFollows ==
  ASSUME DraftIInv, NEW q \in Quests, NEW s, Grown(q, s),
         Follows(drafts'[q], Len(drafts[q]) + 1)
  PROVE  \A p \in Quests : \A i \in DOMAIN drafts'[p] : Follows(drafts'[p], i)
<1> SUFFICES ASSUME NEW p \in Quests, NEW i \in DOMAIN drafts'[p]
             PROVE  Follows(drafts'[p], i)
  OBVIOUS
<1>1. /\ drafts'[q] = Append(drafts[q], s)
      /\ p # q => drafts'[p] = drafts[p]
  BY GrowthKeeps
<1>2. /\ IsSequence(drafts[q]) /\ \A j \in DOMAIN drafts[p] : Follows(drafts[p], j)
  BY DEF DraftIInv
<1>3. CASE p # q
  BY <1>1, <1>2, <1>3
<1>4. CASE p = q
  <2>1. /\ DOMAIN drafts[q] = 1..Len(drafts[q]) /\ Len(drafts[q]) \in Nat
        /\ DOMAIN drafts'[q] = 1..(Len(drafts[q]) + 1)
    BY <1>1, <1>2, AppendAny
  <2>2. i \in DOMAIN drafts[q] \/ i = Len(drafts[q]) + 1
    BY <1>4, <2>1
  <2> QED BY <1>1, <1>2, <1>4, <2>2, FollowsStays
<1> QED BY <1>3, <1>4

\* RestoresOnce, when the new snapshot is not a restore or is recorded with it.
RestoredBy(history, k) ==
  {i \in DOMAIN history : history[i].cause.op = "restore" /\ history[i].cause.key = k}

LEMMA RestoredByAppend ==
  ASSUME NEW h, NEW s, IsSequence(h), NEW k
  PROVE  RestoredBy(Append(h, s), k) =
           RestoredBy(h, k) \cup
             (IF s.cause.op = "restore" /\ s.cause.key = k THEN {Len(h) + 1} ELSE {})
<1> DEFINE t == Append(h, s)
<1>1. /\ Len(h) \in Nat /\ DOMAIN h = 1..Len(h) /\ DOMAIN t = 1..(Len(h) + 1)
      /\ \A i \in 1..Len(h) : t[i] = h[i]
      /\ t[Len(h) + 1] = s
  BY AppendAny
<1> HIDE DEF t
<1>2. \A i : i \in DOMAIN t <=> i \in DOMAIN h \/ i = Len(h) + 1
  BY <1>1
<1>3. Len(h) + 1 \notin DOMAIN h
  BY <1>1
<1>4. RestoredBy(t, k) =
        RestoredBy(h, k) \cup
          (IF s.cause.op = "restore" /\ s.cause.key = k THEN {Len(h) + 1} ELSE {})
  BY <1>1, <1>2, <1>3 DEF RestoredBy
<1> QED BY <1>4 DEF t

LEMMA GrowthRestores ==
  ASSUME DraftIInv, NEW q \in Quests, NEW s, Grown(q, s), s.cause.op # "restore",
         UNCHANGED restores
  PROVE  RestoresOnce'
<1>1. /\ drafts'[q] = Append(drafts[q], s)
      /\ \A p \in Quests \ {q} : drafts'[p] = drafts[p]
      /\ IsSequence(drafts[q])
  BY GrowthKeeps DEF DraftIInv
<1>2. \A p \in Quests, k \in RestoreKeys : RestoredBy(drafts'[p], k) = RestoredBy(drafts[p], k)
  <2>1. \A k \in RestoreKeys :
          RestoredBy(Append(drafts[q], s), k) = RestoredBy(drafts[q], k) \cup {}
    <3> SUFFICES ASSUME NEW k \in RestoreKeys
                 PROVE  RestoredBy(Append(drafts[q], s), k) = RestoredBy(drafts[q], k) \cup {}
      OBVIOUS
    <3>1. RestoredBy(Append(drafts[q], s), k) =
            RestoredBy(drafts[q], k) \cup
              (IF s.cause.op = "restore" /\ s.cause.key = k THEN {Len(drafts[q]) + 1} ELSE {})
      BY <1>1, RestoredByAppend
    <3> QED BY <3>1
  <2>2. \A k \in RestoreKeys : RestoredBy(drafts'[q], k) = RestoredBy(drafts[q], k)
    <3>1. \A S : S \cup {} = S
      OBVIOUS
    <3> QED BY <1>1, <2>1, <3>1
  <2>3. \A p \in Quests \ {q}, k \in RestoreKeys : RestoredBy(drafts'[p], k) = RestoredBy(drafts[p], k)
    BY <1>1
  <2> QED BY <2>2, <2>3
<1>3. \A p \in Quests, k \in RestoreKeys :
        RestoredBy(drafts[p], k) = IF Restored(p, k) THEN {restores[p][k].revision + 1} ELSE {}
  BY DEF DraftIInv, RestoresOnce, RestoredBy
<1> QED BY <1>2, <1>3 DEF RestoresOnce, RestoredBy, Restored

LEMMA CallMoves ==
  ASSUME DraftIInv, Keeps(drafts, drafts'), NEW w \in Workers, NEW x, Sound(drafts', x),
         calls' = [calls EXCEPT ![w] = x]
  PROVE  /\ calls' = [v \in Workers |-> calls'[v]]
         /\ \A v \in Workers : Sound(drafts', calls'[v])
<1>1. /\ calls' = [v \in Workers |-> calls'[v]] /\ calls'[w] = x
      /\ \A v \in Workers \ {w} : calls'[v] = calls[v]
  BY DEF DraftIInv
<1>2. \A v \in Workers : Sound(drafts, calls[v])
  BY DEF DraftIInv
<1>3. \A v \in Workers : Sound(drafts', calls[v])
  BY <1>2, SoundStays
<1> QED BY <1>1, <1>3

LEMMA ReplyMoves ==
  ASSUME DraftIInv, Keeps(drafts, drafts'), NEW w \in Workers, NEW kind, Reply(w, kind)
  PROVE  /\ calls' = [v \in Workers |-> calls'[v]]
         /\ \A v \in Workers : Sound(drafts', calls'[v])
<1> DEFINE x == [at |-> "idle", request |-> NoRequest, content |-> <<>>, answer |-> kind]
<1>1. Sound(drafts', x)
  BY DEF Sound
<1>2. calls' = [calls EXCEPT ![w] = x]
  BY DEF Reply
<1> HIDE DEF x
<1> QED BY <1>1, <1>2, CallMoves

LEMMA SuspendMoves ==
  ASSUME DraftIInv, Keeps(drafts, drafts'), NEW w \in Workers, NEW request, NEW content,
         Sound(drafts', [at |-> "compiling", request |-> request, content |-> content,
                         answer |-> "none"]),
         Suspend(w, request, content)
  PROVE  /\ calls' = [v \in Workers |-> calls'[v]]
         /\ \A v \in Workers : Sound(drafts', calls'[v])
<1> DEFINE x == [at |-> "compiling", request |-> request, content |-> content, answer |-> "none"]
<1>1. Sound(drafts', x)
  OBVIOUS
<1>2. calls' = [calls EXCEPT ![w] = x]
  BY DEF Suspend
<1> HIDE DEF x
<1> QED BY <1>1, <1>2, CallMoves

\* Steps that write no table.
LEMMA CallsOnly ==
  ASSUME DraftIInv, UNCHANGED tables, calls' = [v \in Workers |-> calls'[v]],
         \A v \in Workers : Sound(drafts', calls'[v])
  PROVE  DraftIInv'
<1>1. UNCHANGED <<drafts, restores, validations, playtests>>
  BY DEF tables
<1>2. RestoresOnce'
  BY <1>1 DEF DraftIInv, RestoresOnce, Restored
<1>3. RestoreTable'
  BY <1>1 DEF DraftIInv, RestoreTable
<1> QED BY <1>1, <1>2, <1>3 DEF DraftIInv

LEMMA KeepsSame ==
  ASSUME drafts' = drafts
  PROVE  Keeps(drafts, drafts')
BY DEF Keeps

LEMMA ExistsHas ==
  ASSUME DraftIInv, NEW q \in Quests, Exists(q)
  PROVE  /\ CurrentRevision(q) \in Nat /\ HasIt(drafts, q, CurrentRevision(q))
         /\ \A r : HasRevision(q, r) <=> HasIt(drafts, q, r)
BY LengthOf DEF Exists, CurrentRevision, HasIt, HasRevision

LEMMA BeginStep ==
  ASSUME DraftIInv, NEW w \in Workers, NEW q \in Quests,
         \/ \E content \in Contents : BeginCreate(w, q, content)
         \/ \E base \in Revisions, changes \in ChangeSets : BeginApply(w, q, base, changes)
         \/ \E base \in Revisions, source \in Revisions, key \in RestoreKeys :
              BeginRestore(w, q, base, source, key)
         \/ \E r \in Revisions : BeginValidate(w, q, r)
         \/ Crash(w)
  PROVE  DraftIInv' /\ UNCHANGED tables
<1>1. UNCHANGED tables
  BY DEF BeginCreate, BeginApply, BeginRestore, BeginValidate, Crash
<1>2. drafts' = drafts /\ Keeps(drafts, drafts')
  BY <1>1, KeepsSame DEF tables
<1> SUFFICES \/ \E kind : Reply(w, kind)
             \/ \E request, content :
                  /\ Sound(drafts, [at |-> "compiling", request |-> request, content |-> content,
                                    answer |-> "none"])
                  /\ Suspend(w, request, content)
  BY <1>1, <1>2, ReplyMoves, SuspendMoves, CallsOnly
<1>3. ASSUME NEW content \in Contents, BeginCreate(w, q, content), \A kind : ~Reply(w, kind)
      PROVE  \E request, c :
               /\ Sound(drafts, [at |-> "compiling", request |-> request, content |-> c,
                                 answer |-> "none"])
               /\ Suspend(w, request, c)
  <2>1. Compiles(content) /\ Suspend(w, CreateRequest(q, content), content)
    BY <1>3 DEF BeginCreate
  <2>2. Sound(drafts, [at |-> "compiling", request |-> CreateRequest(q, content),
                       content |-> content, answer |-> "none"])
    BY <2>1 DEF Sound, CreateRequest
  <2> QED BY <2>1, <2>2
<1>4. ASSUME NEW base \in Revisions, NEW changes \in ChangeSets, BeginApply(w, q, base, changes),
             \A kind : ~Reply(w, kind)
      PROVE  \E request, c :
               /\ Sound(drafts, [at |-> "compiling", request |-> request, content |-> c,
                                 answer |-> "none"])
               /\ Suspend(w, request, c)
  <2> DEFINE c == TrialContent(ContentOf(q, base), changes)
  <2>1. /\ Exists(q) /\ base = CurrentRevision(q) /\ c # Refused /\ Compiles(c)
        /\ Suspend(w, ApplyRequest(q, base, changes), c)
    BY <1>4 DEF BeginApply
  <2>2. HasIt(drafts, q, base) /\ c = TrialContent(drafts[q][base + 1].content, changes)
    BY <2>1, ExistsHas DEF ContentOf
  <2> HIDE DEF c
  <2>3. Sound(drafts, [at |-> "compiling", request |-> ApplyRequest(q, base, changes),
                       content |-> c, answer |-> "none"])
    BY <2>1, <2>2 DEF Sound, ApplyRequest
  <2> QED BY <2>1, <2>3
<1>5. ASSUME NEW base \in Revisions, NEW source \in Revisions, NEW key \in RestoreKeys,
             BeginRestore(w, q, base, source, key), \A kind : ~Reply(w, kind)
      PROVE  \E request, c :
               /\ Sound(drafts, [at |-> "compiling", request |-> request, content |-> c,
                                 answer |-> "none"])
               /\ Suspend(w, request, c)
  <2> DEFINE c == ContentOf(q, source)
  <2>1. /\ Exists(q) /\ HasRevision(q, source)
        /\ Suspend(w, RestoreRequest(q, base, source, key), c)
    BY <1>5 DEF BeginRestore, ReplyFromRecord
  <2>2. HasIt(drafts, q, source) /\ c = drafts[q][source + 1].content
    BY <2>1, ExistsHas DEF ContentOf
  <2> HIDE DEF c
  <2>3. Sound(drafts, [at |-> "compiling", request |-> RestoreRequest(q, base, source, key),
                       content |-> c, answer |-> "none"])
    BY <2>1, <2>2 DEF Sound, RestoreRequest
  <2> QED BY <2>1, <2>3
<1>6. ASSUME NEW r \in Revisions, BeginValidate(w, q, r), \A kind : ~Reply(w, kind)
      PROVE  \E request, c :
               /\ Sound(drafts, [at |-> "compiling", request |-> request, content |-> c,
                                 answer |-> "none"])
               /\ Suspend(w, request, c)
  <2> DEFINE c == ContentOf(q, r)
  <2>1. Exists(q) /\ HasRevision(q, r) /\ Suspend(w, ValidateRequest(q, r), c)
    BY <1>6 DEF BeginValidate
  <2>2. HasIt(drafts, q, r) /\ c = drafts[q][r + 1].content
    BY <2>1, ExistsHas DEF ContentOf
  <2> HIDE DEF c
  <2>3. Sound(drafts, [at |-> "compiling", request |-> ValidateRequest(q, r),
                       content |-> c, answer |-> "none"])
    BY <2>1, <2>2 DEF Sound, ValidateRequest
  <2> QED BY <2>1, <2>3
<1> QED BY <1>3, <1>4, <1>5, <1>6 DEF Crash

\* Steps that put a snapshot on top of a history.
LEMMA GrowthStep ==
  ASSUME DraftIInv, NEW w \in Workers, NEW kind, Reply(w, kind),
         NEW q \in Quests, NEW s, Grown(q, s),
         Follows(drafts'[q], Len(drafts[q]) + 1),
         UNCHANGED <<validations, playtests>>, RestoresOnce', RestoreTable'
  PROVE  DraftIInv'
<1>1. /\ drafts' = [p \in Quests |-> drafts'[p]]
      /\ \A p \in Quests : IsSequence(drafts'[p])
      /\ Keeps(drafts, drafts')
  BY GrowthKeeps
<1>2. /\ calls' = [v \in Workers |-> calls'[v]]
      /\ \A v \in Workers : Sound(drafts', calls'[v])
  BY <1>1, ReplyMoves
<1>3. \A p \in Quests : \A i \in DOMAIN drafts'[p] : Follows(drafts'[p], i)
  BY GrowthFollows
<1>4. \A p \in DOMAIN playtests' : Frozen(drafts', validations', playtests'[p])
  BY <1>1, FrozenStays DEF DraftIInv
<1>5. IsSequence(validations') /\ IsSequence(playtests')
  BY DEF DraftIInv
<1> QED BY <1>1, <1>2, <1>3, <1>4, <1>5 DEF DraftIInv

\* The snapshot on top of a history.
LEMMA OnTop ==
  ASSUME DraftIInv, NEW q \in Quests, NEW s, Grown(q, s)
  PROVE  /\ Len(drafts[q]) \in Nat
         /\ drafts'[q][Len(drafts[q]) + 1] = s
         /\ \A i \in 1..Len(drafts[q]) : drafts'[q][i] = drafts[q][i]
<1>1. IsSequence(drafts[q]) /\ drafts'[q] = Append(drafts[q], s)
  BY GrowthKeeps DEF DraftIInv
<1> QED BY <1>1, AppendAny

\* The base of a call is the newest revision of its quest.
LEMMA PlaceOf ==
  ASSUME DraftIInv, NEW q \in Quests, NEW r, HasIt(drafts, q, r)
  PROVE  Len(drafts[q]) \in Nat /\ r \in Nat /\ r + 1 \in 1..Len(drafts[q])
<1>1. Len(drafts[q]) \in Nat
  BY LengthOf
<1>2. r \in 0..(Len(drafts[q]) - 1)
  BY DEF HasIt
<1> QED BY <1>1, <1>2

LEMMA BaseIsTop ==
  ASSUME DraftIInv, NEW q \in Quests, NEW b, HasIt(drafts, q, b), CurrentRevision(q) = b
  PROVE  /\ b \in Nat /\ b + 1 = Len(drafts[q]) /\ b = Len(drafts[q]) - 1
         /\ Len(drafts[q]) \in Nat /\ Len(drafts[q]) \in 1..Len(drafts[q])
<1>1. Len(drafts[q]) \in Nat /\ b \in Nat /\ b + 1 \in 1..Len(drafts[q])
  BY PlaceOf
<1>2. Len(drafts[q]) - 1 = b
  BY DEF CurrentRevision
<1> QED BY <1>1, <1>2

\* A snapshot of an edit, and of a restore, on top of n others.
LEMMA EditFollows ==
  ASSUME NEW h, NEW n \in Nat, n \in 1..n, NEW s, h[n + 1] = s, s.cause.op = "apply",
         Compiles(s.content), s.cause.base = n - 1,
         s.content = TrialContent(h[n].content, s.cause.changes)
  PROVE  Follows(h, n + 1)
<1>1. n + 1 > 1 /\ n - 1 = (n + 1) - 2 /\ (n + 1) - 1 = n
  OBVIOUS
<1> QED BY <1>1 DEF Follows

LEMMA RestoreFollows ==
  ASSUME NEW h, NEW n \in Nat, NEW s, h[n + 1] = s, s.cause.op = "restore",
         Compiles(s.content), s.cause.base = n - 1, s.cause.source \in 0..(n - 1),
         s.content = h[s.cause.source + 1].content
  PROVE  Follows(h, n + 1)
<1>1. n + 1 > 1 /\ n - 1 = (n + 1) - 2
  OBVIOUS
<1> QED BY <1>1 DEF Follows

\* What an End step puts on top of a history.
Snapshot(w) == [content |-> calls[w].content, cause |-> calls[w].request]

LEMMA EndCreateStep ==
  ASSUME Adapter = "sqlite", DraftIInv, NEW w \in Workers, EndCreate(w)
  PROVE  /\ DraftIInv'
         /\ drafts' = drafts \/ \E q \in Quests : Grown(q, Snapshot(w))
         /\ playtests' = playtests
<1> DEFINE request == calls[w].request
           q == request.quest
           s == Snapshot(w)
<1>1. /\ calls[w].at = "compiling" /\ request.op = "create" /\ q \in Quests
      /\ Compiles(calls[w].content) /\ calls[w].content = request.content
  BY DEF EndCreate, DraftIInv, Sound
<1>2. CASE Reply(w, "quest_exists") /\ UNCHANGED drafts
  <2>1. UNCHANGED tables
    BY <1>2 DEF EndCreate, tables
  <2> QED BY <1>2, <2>1, KeepsSame, ReplyMoves, CallsOnly DEF tables
<1>3. CASE ~Exists(q) /\ drafts' = [drafts EXCEPT ![q] = <<s>>] /\ Reply(w, "created")
  <2>1. drafts[q] = <<>>
    BY <1>3 DEF Exists
  <2>2. Grown(q, s)
    <3>1. <<s>> = Append(<<>>, s)
      OBVIOUS
    <3> QED BY <1>3, <2>1, <3>1 DEF Grown
  <2>3. s.cause = request /\ s.content = calls[w].content
    BY DEF Snapshot
  <2> HIDE DEF s
  <2>4. Len(drafts[q]) = 0 /\ drafts'[q][Len(drafts[q]) + 1] = s
    BY <1>1, <2>1, <2>2, LengthOf, OnTop
  <2>5. Follows(drafts'[q], Len(drafts[q]) + 1)
    BY <1>1, <2>3, <2>4 DEF Follows
  <2>6. UNCHANGED <<restores, validations, playtests>>
    BY DEF EndCreate
  <2>7. RestoresOnce'
    BY <1>1, <2>2, <2>3, <2>6, GrowthRestores
  <2>8. RestoreTable'
    BY <2>6 DEF DraftIInv, RestoreTable
  <2>9. DraftIInv'
    BY <1>1, <1>3, <2>2, <2>5, <2>6, <2>7, <2>8, GrowthStep
  <2> QED BY <1>1, <2>2, <2>6, <2>9 DEF s
<1> QED BY <1>2, <1>3 DEF EndCreate, Snapshot

LEMMA EndApplyStep ==
  ASSUME DraftIInv, NEW w \in Workers, EndApply(w)
  PROVE  /\ DraftIInv'
         /\ drafts' = drafts \/ \E q \in Quests : Grown(q, Snapshot(w))
         /\ playtests' = playtests
<1> DEFINE request == calls[w].request
           q == request.quest
           s == Snapshot(w)
<1>1. /\ calls[w].at = "compiling" /\ request.op = "apply" /\ q \in Quests
      /\ Compiles(calls[w].content) /\ HasIt(drafts, q, request.base)
      /\ calls[w].content = TrialContent(drafts[q][request.base + 1].content, request.changes)
  BY DEF EndApply, DraftIInv, Sound
<1>2. CASE Reply(w, "revision_conflict") /\ UNCHANGED drafts
  <2>1. UNCHANGED tables
    BY <1>2 DEF EndApply, tables
  <2> QED BY <1>2, <2>1, KeepsSame, ReplyMoves, CallsOnly DEF tables
<1>3. CASE /\ CurrentRevision(q) = request.base /\ drafts' = [drafts EXCEPT ![q] = Append(@, s)]
           /\ Reply(w, "updated")
  <2>1. Grown(q, s)
    BY <1>3 DEF Grown
  <2>2. s.cause = request /\ s.content = calls[w].content
    BY DEF Snapshot
  <2> HIDE DEF s
  <2>3. /\ Len(drafts[q]) \in Nat
        /\ drafts'[q][Len(drafts[q]) + 1] = s
        /\ \A i \in 1..Len(drafts[q]) : drafts'[q][i] = drafts[q][i]
    BY <1>1, <2>1, OnTop
  <2>4. /\ request.base + 1 = Len(drafts[q]) /\ request.base = Len(drafts[q]) - 1
        /\ Len(drafts[q]) \in 1..Len(drafts[q])
    BY <1>1, <1>3, BaseIsTop
  <2>5. Follows(drafts'[q], Len(drafts[q]) + 1)
    <3>1. /\ s.cause.op = "apply" /\ Compiles(s.content) /\ s.cause.base = Len(drafts[q]) - 1
      BY <1>1, <2>2, <2>4
    <3>2. drafts'[q][Len(drafts[q])] = drafts[q][Len(drafts[q])]
      BY <2>3, <2>4
    <3>3. s.content = TrialContent(drafts'[q][Len(drafts[q])].content, s.cause.changes)
      BY <1>1, <2>2, <2>4, <3>2
    <3> HIDE DEF q, request
    <3> QED BY <2>3, <2>4, <3>1, <3>3, EditFollows
  <2>6. UNCHANGED <<restores, validations, playtests>>
    BY DEF EndApply
  <2>7. RestoresOnce'
    BY <1>1, <2>1, <2>2, <2>6, GrowthRestores
  <2>8. RestoreTable'
    BY <2>6 DEF DraftIInv, RestoreTable
  <2>9. DraftIInv'
    BY <1>1, <1>3, <2>1, <2>5, <2>6, <2>7, <2>8, GrowthStep
  <2> QED BY <1>1, <2>1, <2>6, <2>9 DEF s
<1> QED BY <1>2, <1>3 DEF EndApply, Snapshot

\* The record of a restore names the revision that is made with it.
Named(record) == IF record # NotRestored THEN {record.revision + 1} ELSE {}

LEMMA WriteRestoreRecords ==
  ASSUME DraftIInv, NEW w \in Workers, NEW q \in Quests, NEW k \in RestoreKeys, NEW s,
         s.cause.op = "restore", s.cause.key = k,
         Grown(q, s), ~Restored(q, k), NEW record,
         record.revision = Len(drafts[q]), record # NotRestored,
         restores' = [restores EXCEPT ![q][k] = record]
  PROVE  RestoresOnce' /\ RestoreTable'
<1>1. /\ restores'[q][k] = record
      /\ \A p \in Quests, j \in RestoreKeys :
           p # q \/ j # k => restores'[p][j] = restores[p][j]
      /\ RestoreTable'
  BY DEF DraftIInv, RestoreTable
<1>2. /\ drafts'[q] = Append(drafts[q], s)
      /\ \A p \in Quests \ {q} : drafts'[p] = drafts[p]
      /\ IsSequence(drafts[q])
  BY GrowthKeeps DEF DraftIInv
<1>3. \A j \in RestoreKeys :
        RestoredBy(drafts'[q], j) =
          RestoredBy(drafts[q], j) \cup (IF j = k THEN {Len(drafts[q]) + 1} ELSE {})
  <2>1. \A j \in RestoreKeys :
          RestoredBy(Append(drafts[q], s), j) =
            RestoredBy(drafts[q], j) \cup (IF j = k THEN {Len(drafts[q]) + 1} ELSE {})
    BY <1>2, RestoredByAppend
  <2> QED BY <1>2, <2>1
<1>4. \A p \in Quests, j \in RestoreKeys :
        RestoredBy(drafts[p], j) = Named(restores[p][j])
  BY DEF DraftIInv, RestoresOnce, RestoredBy, Restored, Named
<1>5. ASSUME NEW p \in Quests, NEW j \in RestoreKeys
      PROVE  RestoredBy(drafts'[p], j) = Named(restores'[p][j])
  <2>1. CASE p = q /\ j = k
    <3>1. Named(restores[q][k]) = {} /\ Named(record) = {Len(drafts[q]) + 1}
      BY DEF Named, Restored
    <3>2. RestoredBy(drafts'[q], k) = RestoredBy(drafts[q], k) \cup {Len(drafts[q]) + 1}
      BY <1>3
    <3>3. RestoredBy(drafts[q], k) = {}
      BY <1>4, <3>1
    <3>4. RestoredBy(drafts'[q], k) = Named(restores'[q][k])
      BY <1>1, <3>1, <3>2, <3>3
    <3> QED BY <2>1, <3>4
  <2>2. CASE p = q /\ j # k
    <3>1. RestoredBy(drafts'[q], j) = RestoredBy(drafts[q], j) \cup {}
      BY <1>3, <2>2
    <3>2. RestoredBy(drafts'[q], j) = Named(restores[q][j])
      BY <1>4, <3>1
    <3>3. restores'[q][j] = restores[q][j]
      BY <1>1, <2>2
    <3> QED BY <2>2, <3>2, <3>3
  <2>3. CASE p # q
    BY <1>1, <1>2, <1>4, <2>3
  <2> QED BY <2>1, <2>2, <2>3
<1>6. RestoresOnce'
  BY <1>5 DEF RestoresOnce, RestoredBy, Restored, Named
<1> QED BY <1>1, <1>6

LEMMA EndRestoreStep ==
  ASSUME DraftIInv, NEW w \in Workers, EndRestore(w)
  PROVE  /\ DraftIInv'
         /\ drafts' = drafts \/ \E q \in Quests : Grown(q, Snapshot(w))
         /\ playtests' = playtests
<1> DEFINE request == calls[w].request
           q == request.quest
           k == request.key
           s == Snapshot(w)
<1>1. /\ calls[w].at = "compiling" /\ request.op = "restore" /\ q \in Quests
      /\ k \in RestoreKeys /\ HasIt(drafts, q, request.source)
      /\ calls[w].content = drafts[q][request.source + 1].content
  BY DEF EndRestore, DraftIInv, Sound
<1>2. UNCHANGED <<validations, playtests>>
  BY DEF EndRestore
<1>3. ASSUME UNCHANGED <<drafts, restores>>, NEW kind, Reply(w, kind)
      PROVE  DraftIInv' /\ drafts' = drafts /\ playtests' = playtests
  <2>1. UNCHANGED tables
    BY <1>2, <1>3 DEF tables
  <2> QED BY <1>2, <1>3, <2>1, KeepsSame, ReplyMoves, CallsOnly
<1>4. CASE /\ ~Restored(q, k) /\ CurrentRevision(q) = request.base /\ WriteRestore(w, request)
  <2> DEFINE record == [hash |-> RequestHash(request), revision |-> request.base + 1]
  <2>1. /\ Grown(q, s) /\ Reply(w, "restored")
        /\ restores' = [restores EXCEPT ![q][k] = record]
    BY <1>4 DEF WriteRestore, Grown, Snapshot
  <2>2. s.cause = request /\ s.content = calls[w].content
    BY DEF Snapshot
  <2>3. record.revision = request.base + 1
    OBVIOUS
  <2> HIDE DEF s, record
  <2>4. /\ Len(drafts[q]) \in Nat
        /\ drafts'[q][Len(drafts[q]) + 1] = s
        /\ \A i \in 1..Len(drafts[q]) : drafts'[q][i] = drafts[q][i]
    BY <1>1, <2>1, OnTop
  <2>5. /\ request.base + 1 = Len(drafts[q]) /\ request.base = Len(drafts[q]) - 1
        /\ request.source + 1 \in 1..Len(drafts[q])
        /\ request.source \in 0..(Len(drafts[q]) - 1)
    <3>1. Len(drafts[q]) - 1 = request.base
      BY <1>4 DEF CurrentRevision
    <3>2. request.source \in Nat /\ request.source + 1 \in 1..Len(drafts[q])
      BY <1>1, PlaceOf
    <3>3. Len(drafts[q]) \in Nat
      BY <2>4
    <3> HIDE DEF q, request
    <3>4. request.source \in 0..(Len(drafts[q]) - 1)
      BY <3>2, <3>3
    <3>5. request.base + 1 = Len(drafts[q]) /\ request.base = Len(drafts[q]) - 1
      BY <3>1, <3>3
    <3> QED BY <3>2, <3>4, <3>5
  <2>6. Compiles(s.content)
    <3>1. request.source + 1 \in DOMAIN drafts[q]
      BY <1>1, <2>5, LengthOf
    <3>2. Follows(drafts[q], request.source + 1)
      BY <1>1, <3>1 DEF DraftIInv
    <3> QED BY <1>1, <2>2, <3>2 DEF Follows
  <2>7. Follows(drafts'[q], Len(drafts[q]) + 1)
    <3>1. /\ s.cause.op = "restore" /\ s.cause.base = Len(drafts[q]) - 1
          /\ s.cause.source \in 0..(Len(drafts[q]) - 1)
      BY <1>1, <2>2, <2>5
    <3>2. s.content = drafts'[q][s.cause.source + 1].content
      BY <1>1, <2>2, <2>4, <2>5
    <3> HIDE DEF q, request
    <3> QED BY <2>4, <2>6, <3>1, <3>2, RestoreFollows
  <2>8. record.revision = Len(drafts[q])
    BY <2>3, <2>5
  <2>9. record # NotRestored
    <3>1. NotRestored.revision = -1
      BY DEF NotRestored
    <3> QED BY <2>4, <2>8, <3>1
  <2>10. RestoresOnce' /\ RestoreTable'
    <3>1. s.cause.op = "restore" /\ s.cause.key = k /\ ~Restored(q, k)
      BY <1>1, <1>4, <2>2
    <3>2. Grown(q, s) /\ restores' = [restores EXCEPT ![q][k] = record]
      BY <2>1
    <3> HIDE DEF q, k
    <3> QED BY <1>1, <2>8, <2>9, <3>1, <3>2, WriteRestoreRecords
  <2>11. DraftIInv'
    BY <1>1, <1>2, <2>1, <2>7, <2>10, GrowthStep
  <2> QED BY <1>1, <1>2, <2>1, <2>11 DEF s
<1>5. \/ UNCHANGED <<drafts, restores>> /\ \E kind : Reply(w, kind)
      \/ ~Restored(q, k) /\ CurrentRevision(q) = request.base /\ WriteRestore(w, request)
  <2>1. ReplyFromRecord(w, request) => \E kind : Reply(w, kind)
    BY DEF ReplyFromRecord
  <2>2. CASE Restored(q, k)
    BY <2>1, <2>2 DEF EndRestore
  <2>3. CASE ~Restored(q, k) /\ CurrentRevision(q) # request.base
    BY <2>3 DEF EndRestore
  <2>4. CASE ~Restored(q, k) /\ CurrentRevision(q) = request.base
    BY <2>4 DEF EndRestore
  <2> QED BY <2>2, <2>3, <2>4
<1> QED BY <1>3, <1>4, <1>5

LEMMA EndValidateStep ==
  ASSUME DraftIInv, NEW w \in Workers, EndValidate(w)
  PROVE  DraftIInv' /\ drafts' = drafts /\ playtests' = playtests
<1>1. drafts' = drafts /\ restores' = restores /\ playtests' = playtests
  BY DEF EndValidate
<1>2. PICK v : validations' = Append(validations, v)
  BY DEF EndValidate
<1>3. /\ calls' = [u \in Workers |-> calls'[u]]
      /\ \A u \in Workers : Sound(drafts', calls'[u])
  BY <1>1, KeepsSame, ReplyMoves DEF EndValidate
<1>4. IsSequence(validations') /\ IsSequence(playtests')
  BY <1>1, <1>2, AppendAny DEF DraftIInv
<1>5. \A p \in DOMAIN playtests' : Frozen(drafts', validations', playtests'[p])
  BY <1>1, <1>2, KeepsSame, FrozenStays DEF DraftIInv
<1>6. RestoresOnce' /\ RestoreTable'
  BY <1>1 DEF DraftIInv, RestoresOnce, Restored, RestoreTable
<1> QED BY <1>1, <1>3, <1>4, <1>5, <1>6 DEF DraftIInv

LEMMA CreatePlaytestStep ==
  ASSUME DraftIInv, NEW w \in Workers, NEW q \in Quests, NEW r \in Revisions,
         NEW v \in DOMAIN validations, CreatePlaytest(w, q, r, v)
  PROVE  DraftIInv' /\ drafts' = drafts
<1>1. drafts' = drafts /\ restores' = restores /\ validations' = validations
  BY DEF CreatePlaytest
<1>2. /\ calls' = [u \in Workers |-> calls'[u]]
      /\ \A u \in Workers : Sound(drafts', calls'[u])
  BY <1>1, KeepsSame, ReplyMoves DEF CreatePlaytest
<1>3. IsSequence(playtests') /\ \A p \in DOMAIN playtests' : Frozen(drafts', validations', playtests'[p])
  <2> DEFINE t == [quest |-> q, revision |-> r, content |-> ContentOf(q, r), validation |-> v]
  <2>1. CASE playtests' = playtests
    BY <1>1, <2>1 DEF DraftIInv
  <2>2. CASE Validates(v, q, r) /\ playtests' = Append(playtests, t)
    <3>1. /\ t.quest = q /\ t.revision = r /\ t.validation = v
          /\ t.content = drafts[q][r + 1].content
      BY DEF ContentOf
    <3>2. HasIt(drafts, q, r)
      BY ExistsHas DEF CreatePlaytest
    <3>3. validations[v] = [quest |-> q, revision |-> r, content |-> t.content]
      BY <2>2, <3>1 DEF Validates, ContentOf
    <3> HIDE DEF t
    <3>4. Frozen(drafts, validations, t)
      BY <3>1, <3>2, <3>3 DEF Frozen
    <3>5. IsSequence(playtests) /\ \A p \in DOMAIN playtests : Frozen(drafts, validations, playtests[p])
      BY DEF DraftIInv
    <3>6. \A p \in DOMAIN playtests' : p \in DOMAIN playtests \/ p = Len(playtests) + 1
      BY <2>2, <3>5, AppendAny
    <3>7. /\ \A p \in DOMAIN playtests : playtests'[p] = playtests[p]
          /\ playtests'[Len(playtests) + 1] = t
          /\ IsSequence(playtests')
      BY <2>2, <3>5, AppendAny
    <3> QED BY <1>1, <3>4, <3>5, <3>6, <3>7
  <2> QED BY <2>1, <2>2 DEF CreatePlaytest
<1>4. RestoresOnce' /\ RestoreTable'
  BY <1>1 DEF DraftIInv, RestoresOnce, Restored, RestoreTable
<1> QED BY <1>1, <1>2, <1>3, <1>4 DEF DraftIInv

\* What each step does to the histories: nothing, or one snapshot on top of one.
LEMMA DraftStep ==
  ASSUME Adapter = "sqlite", DraftIInv, [Next]_vars
  PROVE  /\ DraftIInv'
         /\ drafts' = drafts \/ \E q \in Quests : \E s : Grown(q, s)
<1>1. CASE UNCHANGED vars
  <2>1. UNCHANGED tables /\ drafts' = drafts /\ calls' = calls
    BY <1>1 DEF vars, tables
  <2> QED BY <2>1, CallsOnly DEF DraftIInv
<1>2. CASE Next
  <2>1. PICK w \in Workers :
          \/ \E q \in Quests, content \in Contents : BeginCreate(w, q, content)
          \/ \E q \in Quests, base \in Revisions, changes \in ChangeSets :
               BeginApply(w, q, base, changes)
          \/ \E q \in Quests, base \in Revisions, source \in Revisions, key \in RestoreKeys :
               BeginRestore(w, q, base, source, key)
          \/ \E q \in Quests, r \in Revisions : BeginValidate(w, q, r)
          \/ EndCreate(w) \/ EndApply(w) \/ EndRestore(w) \/ EndValidate(w)
          \/ \E q \in Quests, r \in Revisions, v \in DOMAIN validations :
               CreatePlaytest(w, q, r, v)
          \/ Crash(w)
    BY <1>2 DEF Next
  <2>2. CASE Crash(w)
    <3>1. UNCHANGED tables /\ drafts' = drafts
      BY <2>2 DEF Crash, tables
    <3>2. Reply(w, "lost")
      BY <2>2 DEF Crash
    <3> QED BY <3>1, <3>2, KeepsSame, ReplyMoves, CallsOnly
  <2>3. UNCHANGED tables => drafts' = drafts
    BY DEF tables
  <2> QED BY <2>1, <2>2, <2>3, BeginStep, EndCreateStep, EndApplyStep, EndRestoreStep,
             EndValidateStep, CreatePlaytestStep
<1> QED BY <1>1, <1>2

LEMMA DraftInitially == Init => DraftIInv
<1> SUFFICES ASSUME Init PROVE DraftIInv
  OBVIOUS
<1>1. /\ drafts = [q \in Quests |-> drafts[q]] /\ \A q \in Quests : drafts[q] = <<>>
      /\ RestoreTable /\ \A q \in Quests, k \in RestoreKeys : restores[q][k] = NotRestored
      /\ calls = [w \in Workers |-> calls[w]] /\ \A w \in Workers : calls[w].at = "idle"
      /\ validations = <<>> /\ playtests = <<>>
  BY DEF Init, RestoreTable
<1>2. /\ <<>> \in Seq({}) /\ DOMAIN <<>> = {}
  BY EmptySeq
<1>3. IsSequence(<<>>)
  BY <1>2 DEF IsSequence
<1>4. \A w \in Workers : Sound(drafts, calls[w])
  BY <1>1 DEF Sound
<1>5. RestoresOnce
  BY <1>1, <1>2 DEF RestoresOnce, Restored
<1> QED BY <1>1, <1>2, <1>3, <1>4, <1>5 DEF DraftIInv

LEMMA PlaytestsAreFrozen == DraftIInv => PlaytestsFrozen
<1> SUFFICES ASSUME DraftIInv, NEW p \in DOMAIN playtests
             PROVE  LET t == playtests[p] IN
                    /\ HasRevision(t.quest, t.revision)
                    /\ t.content = ContentOf(t.quest, t.revision)
                    /\ validations[t.validation] =
                         [quest |-> t.quest, revision |-> t.revision, content |-> t.content]
  BY DEF PlaytestsFrozen
<1>1. Frozen(drafts, validations, playtests[p])
  BY DEF DraftIInv
<1> QED BY <1>1 DEF Frozen, HasIt, HasRevision, CurrentRevision, ContentOf

\* The inductive invariant of the durable drafts (createQuest to createPlaytest of
\* sqlite-store.ts): the histories, the record of each restore, every call that has
\* compiled and not yet stored, and every playtest agree with one another.
THEOREM DraftInvariant == (Adapter = "sqlite" /\ Spec) => []DraftIInv
<1>1. Adapter = "sqlite" /\ DraftIInv /\ [Next]_vars => DraftIInv'
  BY DraftStep
<1>2. CASE Adapter = "sqlite"
  BY <1>1, <1>2, DraftInitially, PTL DEF Spec
<1> QED BY <1>2

\* In the durable store every snapshot is what its author's request makes of exactly
\* the revision it was made against, and compiles, whatever else was edited or
\* restored while the compiler ran (applyDraftChanges and restoreDraft of
\* sqlite-store.ts; in memory-store.ts a create may replace a history).
THEOREM EditsFollowTheirBase == (Adapter = "sqlite" /\ Spec) => []EditsCompose
BY DraftInvariant, EveryEditComposes, PTL

\* A restore key has made at most one revision, the one its record names, however
\* often and however concurrently the restore is sent (restoreDraft of sqlite-store.ts).
THEOREM RestoresAreMadeOnce == (Adapter = "sqlite" /\ Spec) => []RestoresOnce
<1>1. DraftIInv => RestoresOnce
  BY DEF DraftIInv
<1> QED BY <1>1, DraftInvariant, PTL

\* No step rewinds, rewrites or drops a revision or adds two, and a playtest is of a
\* snapshot validated as that very content (the INSERTs of draft snapshots and of
\* playtests in sqlite-store.ts; nothing updates them).
THEOREM HistoryIsAppendOnly == (Adapter = "sqlite" /\ Spec) => AppendOnly
<1> DEFINE A == /\ \A q \in Quests :
                     /\ Len(drafts'[q]) \in {Len(drafts[q]), Len(drafts[q]) + 1}
                     /\ SubSeq(drafts'[q], 1, Len(drafts[q])) = drafts[q]
                /\ playtests' # playtests => PlaytestsFrozen'
<1>1. Adapter = "sqlite" /\ DraftIInv /\ [Next]_vars => A
  <2> SUFFICES ASSUME Adapter = "sqlite", DraftIInv, [Next]_vars PROVE A
    OBVIOUS
  <2>1. DraftIInv' /\ (drafts' = drafts \/ \E q \in Quests : \E s : Grown(q, s))
    BY DraftStep
  <2>2. PlaytestsFrozen'
    <3>1. DraftIInv' => PlaytestsFrozen'
      BY PlaytestsAreFrozen, PTL
    <3> QED BY <2>1, <3>1
  <2>3. \A q \in Quests : IsSequence(drafts[q])
    BY DEF DraftIInv
  <2>4. ASSUME NEW q \in Quests
        PROVE  /\ Len(drafts'[q]) \in {Len(drafts[q]), Len(drafts[q]) + 1}
               /\ SubSeq(drafts'[q], 1, Len(drafts[q])) = drafts[q]
    <3>1. CASE drafts'[q] = drafts[q]
      BY <2>3, <3>1, PrefixKept
    <3>2. ASSUME NEW s, drafts'[q] = Append(drafts[q], s)
          PROVE  /\ Len(drafts'[q]) \in {Len(drafts[q]), Len(drafts[q]) + 1}
                 /\ SubSeq(drafts'[q], 1, Len(drafts[q])) = drafts[q]
      BY <2>3, <3>2, PrefixKept, AppendAny
    <3>3. drafts'[q] = drafts[q] \/ \E s : drafts'[q] = Append(drafts[q], s)
      BY <2>1, GrowthKeeps
    <3> QED BY <3>1, <3>2, <3>3
  <2> QED BY <2>2, <2>4
<1> HIDE DEF A
<1>2. CASE Adapter = "sqlite"
  <2>1. Spec => [][A]_vars
    BY <1>1, <1>2, DraftInvariant, PTL DEF Spec
  <2> QED BY <2>1 DEF A, AppendOnly
<1> QED BY <1>2

-------------------------------------------------------------------------------
(* The durable store implements the log of contents.                        *)

ContentsOf(history) == [i \in 1..Len(history) |-> history[i].content]

\* A sequence, written as a function, that is one longer than another.
LEMMA OneLonger ==
  ASSUME NEW n \in Nat, NEW c, NEW d, NEW e,
         c = [i \in 1..n |-> c[i]], d = [i \in 1..(n + 1) |-> d[i]],
         \A i \in 1..n : d[i] = c[i], d[n + 1] = e
  PROVE  d = Append(c, e) /\ d # c /\ Len(c) = n
<1> DEFINE T == {d[i] : i \in 1..(n + 1)}
<1>1. c \in [1..n -> T] /\ d \in [1..(n + 1) -> T] /\ e \in T
  <2>1. n + 1 \in 1..(n + 1) /\ \A i \in 1..n : i \in 1..(n + 1)
    OBVIOUS
  <2>2. \A i \in 1..(n + 1) : d[i] \in T
    OBVIOUS
  <2>3. e \in T
    BY <2>1, <2>2
  <2>4. \A i \in 1..n : c[i] \in T
    BY <2>1, <2>2
  <2> HIDE DEF T
  <2>5. [i \in 1..n |-> c[i]] \in [1..n -> T]
    BY <2>4
  <2>6. [i \in 1..(n + 1) |-> d[i]] \in [1..(n + 1) -> T]
    BY <2>2
  <2> QED BY <2>3, <2>5, <2>6
<1> HIDE DEF T
<1>2. c \in Seq(T) /\ Len(c) = n
  BY <1>1, SeqDef, LenProperties
<1>3. d \in Seq(T) /\ Len(d) = n + 1
  BY <1>1, SeqDef, LenProperties
<1>4. /\ Append(c, e) \in Seq(T) /\ Len(Append(c, e)) = n + 1
      /\ \A i \in 1..n : Append(c, e)[i] = c[i]
      /\ Append(c, e)[n + 1] = e
  BY <1>1, <1>2, AppendProperties
<1>5. \A i \in 1..(n + 1) : Append(c, e)[i] = d[i]
  <2>1. \A i \in 1..(n + 1) : i \in 1..n \/ i = n + 1
    OBVIOUS
  <2> QED BY <1>4, <2>1
<1>6. d = Append(c, e)
  BY <1>3, <1>4, <1>5, SeqEqual
<1> QED BY <1>2, <1>3, <1>6

LEMMA ContentsAppend ==
  ASSUME NEW s, IsSequence(s), NEW x
  PROVE  /\ ContentsOf(Append(s, x)) = Append(ContentsOf(s), x.content)
         /\ ContentsOf(Append(s, x)) # ContentsOf(s)
         /\ Len(ContentsOf(s)) = Len(s)
<1> DEFINE t == Append(s, x)
           n == Len(s)
           c == ContentsOf(s)
           d == ContentsOf(t)
<1>1. /\ n \in Nat /\ Len(t) = n + 1 /\ t[n + 1] = x
      /\ \A i \in 1..n : t[i] = s[i]
  BY AppendAny
<1> HIDE DEF t, n
<1>2. /\ c = [i \in 1..n |-> c[i]] /\ \A i \in 1..n : c[i] = s[i].content
  BY DEF ContentsOf, n
<1>3. /\ d = [i \in 1..(n + 1) |-> d[i]] /\ \A i \in 1..(n + 1) : d[i] = t[i].content
  BY <1>1 DEF ContentsOf
<1> HIDE DEF c, d
<1>4. d[n + 1] = x.content /\ \A i \in 1..n : d[i] = c[i]
  BY <1>1, <1>2, <1>3
<1>5. d = Append(c, x.content) /\ d # c /\ Len(c) = n
  BY <1>1, <1>2, <1>3, <1>4, OneLonger
<1> QED BY <1>5 DEF c, d, t, n

LEMMA LogIs == LogBar = [q \in Quests |-> ContentsOf(drafts[q])]
BY DEF LogBar, ContentsOf

\* A snapshot on top of a history is a content on top of its log.
LEMMA LogGrows ==
  ASSUME DraftIInv, NEW q \in Quests, NEW s, Grown(q, s)
  PROVE  /\ Log!Add(q, s.content)
         /\ LogBar'[q] # LogBar[q]
         /\ Len(LogBar[q]) = Len(drafts[q])
         /\ \A i \in 1..Len(drafts[q]) : LogBar[q][i] = drafts[q][i].content
<1>1. LogBar' = [p \in Quests |-> ContentsOf(drafts'[p])]
  BY DEF LogBar, ContentsOf
<1>2. /\ drafts'[q] = Append(drafts[q], s) /\ IsSequence(drafts[q])
      /\ \A p \in Quests \ {q} : drafts'[p] = drafts[p]
  BY GrowthKeeps DEF DraftIInv
<1>3. /\ ContentsOf(drafts'[q]) = Append(ContentsOf(drafts[q]), s.content)
      /\ ContentsOf(drafts'[q]) # ContentsOf(drafts[q])
      /\ Len(ContentsOf(drafts[q])) = Len(drafts[q])
  BY <1>2, ContentsAppend
<1>4. LogBar' = [LogBar EXCEPT ![q] = Append(@, s.content)]
  BY <1>1, <1>2, <1>3, LogIs
<1>5. \A i \in 1..Len(drafts[q]) : LogBar[q][i] = drafts[q][i].content
  BY LogIs DEF ContentsOf
<1> QED BY <1>1, <1>3, <1>4, <1>5, LogIs DEF Log!Add

LEMMA LogStays ==
  ASSUME drafts' = drafts, restores' = restores, playtests' = playtests
  PROVE  UNCHANGED Log!logVars
BY DEF LogBar, MadeBar, FrozenBar, Log!logVars

LEMMA CreateIsLogged ==
  ASSUME Adapter = "sqlite", DraftIInv, NEW w \in Workers, EndCreate(w)
  PROVE  [Log!Next]_(Log!logVars)
<1> DEFINE request == calls[w].request
           q == request.quest
           content == calls[w].content
           s == [content |-> content, cause |-> request]
<1>1. /\ q \in Quests /\ Compiles(content) /\ content \in Contents
      /\ UNCHANGED <<restores, playtests>>
  BY DEF EndCreate, DraftIInv, Sound
<1>2. CASE UNCHANGED drafts
  BY <1>1, <1>2, LogStays
<1>3. CASE ~Exists(q) /\ drafts' = [drafts EXCEPT ![q] = <<s>>]
  <2>1. drafts[q] = <<>> /\ Grown(q, s)
    <3>1. <<s>> = Append(<<>>, s)
      OBVIOUS
    <3> QED BY <1>3, <3>1 DEF Grown, Exists
  <2>2. s.content = content
    OBVIOUS
  <2> HIDE DEF s, content
  <2>3. Log!Add(q, content) /\ LogBar'[q] # LogBar[q]
    BY <1>1, <2>1, <2>2, LogGrows
  <2>4. LogBar[q] = <<>>
    <3>1. DOMAIN LogBar[q] = {} /\ LogBar[q] = [i \in {} |-> LogBar[q][i]]
      BY <1>1, <2>1, LengthOf DEF LogBar
    <3> QED BY <3>1
  <2>5. UNCHANGED <<MadeBar, FrozenBar>>
    BY <1>1 DEF MadeBar, FrozenBar
  <2>6. Log!Create(q, content)
    BY <1>1, <2>3, <2>4, <2>5 DEF Log!Create
  <2> QED BY <1>1, <2>3, <2>6 DEF Log!Next
<1> QED BY <1>2, <1>3 DEF EndCreate

LEMMA EditIsLogged ==
  ASSUME DraftIInv, NEW w \in Workers, EndApply(w)
  PROVE  [Log!Next]_(Log!logVars)
<1> DEFINE request == calls[w].request
           q == request.quest
           content == calls[w].content
           s == [content |-> content, cause |-> request]
<1>1. /\ q \in Quests /\ Compiles(content) /\ content # Refused
      /\ request.changes \in ChangeSets /\ HasIt(drafts, q, request.base)
      /\ content = TrialContent(drafts[q][request.base + 1].content, request.changes)
      /\ UNCHANGED <<restores, playtests>>
  BY DEF EndApply, DraftIInv, Sound
<1>2. CASE UNCHANGED drafts
  BY <1>1, <1>2, LogStays
<1>3. CASE /\ CurrentRevision(q) = request.base
           /\ drafts' = [drafts EXCEPT ![q] = Append(@, s)]
  <2>1. Grown(q, s) /\ s.content = content
    BY <1>3 DEF Grown
  <2> HIDE DEF s
  <2>2. /\ Log!Add(q, content) /\ LogBar'[q] # LogBar[q]
        /\ Len(LogBar[q]) = Len(drafts[q])
        /\ \A i \in 1..Len(drafts[q]) : LogBar[q][i] = drafts[q][i].content
    BY <1>1, <2>1, LogGrows
  <2>3. request.base + 1 = Len(drafts[q]) /\ Len(drafts[q]) \in 1..Len(drafts[q])
    BY <1>1, <1>3, BaseIsTop
  <2>4. content = TrialContent(LogBar[q][Len(LogBar[q])], request.changes)
    BY <1>1, <2>2, <2>3
  <2>5. LogBar[q] # <<>>
    BY <2>2, <2>3
  <2>6. UNCHANGED <<MadeBar, FrozenBar>>
    BY <1>1 DEF MadeBar, FrozenBar
  <2> HIDE DEF content
  <2>7. Log!Edit(q, request.changes)
    BY <1>1, <2>2, <2>4, <2>5, <2>6 DEF Log!Edit
  <2> QED BY <1>1, <2>2, <2>7 DEF Log!Next
<1> QED BY <1>2, <1>3 DEF EndApply

LEMMA RestoreIsLogged ==
  ASSUME DraftIInv, NEW w \in Workers, EndRestore(w)
  PROVE  [Log!Next]_(Log!logVars)
<1> DEFINE request == calls[w].request
           q == request.quest
           k == request.key
           content == calls[w].content
           place == request.source + 1
           s == [content |-> content, cause |-> request]
           record == [hash |-> RequestHash(request), revision |-> request.base + 1]
<1>1. /\ q \in Quests /\ k \in RestoreKeys /\ HasIt(drafts, q, request.source)
      /\ content = drafts[q][place].content
      /\ playtests' = playtests
  BY DEF EndRestore, DraftIInv, Sound
<1>2. CASE UNCHANGED <<drafts, restores>>
  BY <1>1, <1>2, LogStays
<1>3. CASE ~Restored(q, k) /\ CurrentRevision(q) = request.base /\ WriteRestore(w, request)
  <2>1. /\ Grown(q, s) /\ s.content = content
        /\ restores' = [restores EXCEPT ![q][k] = record]
    BY <1>3 DEF Grown, WriteRestore
  <2> HIDE DEF s
  <2>2. /\ Log!Add(q, content) /\ LogBar'[q] # LogBar[q]
        /\ Len(LogBar[q]) = Len(drafts[q])
        /\ \A i \in 1..Len(drafts[q]) : LogBar[q][i] = drafts[q][i].content
    BY <1>1, <2>1, LogGrows
  <2>3. /\ request.base + 1 = Len(drafts[q]) /\ Len(drafts[q]) \in Nat
        /\ place \in 1..Len(drafts[q])
    <3>1. Len(drafts[q]) \in Nat /\ place \in 1..Len(drafts[q])
      BY <1>1, PlaceOf
    <3>2. Len(drafts[q]) - 1 = request.base
      BY <1>3 DEF CurrentRevision
    <3> HIDE DEF q, request, place
    <3> QED BY <3>1, <3>2
  <2>4. content = LogBar[q][place]
    BY <1>1, <2>2, <2>3
  <2>5. record.revision = Len(drafts[q])
    BY <2>3
  <2> HIDE DEF record, content, place
  <2>6. MadeBar[q][k] = 0
    <3>1. restores[q][k].revision = -1
      BY <1>3 DEF Restored, NotRestored
    <3> QED BY <1>1, <3>1 DEF MadeBar
  <2>7. MadeBar' = [MadeBar EXCEPT ![q][k] = Len(LogBar[q]) + 1]
    <3>1. /\ restores'[q][k] = record
          /\ \A p \in Quests, j \in RestoreKeys :
               p # q \/ j # k => restores'[p][j] = restores[p][j]
      BY <1>1, <2>1 DEF DraftIInv, RestoreTable
    <3>2. MadeBar'[q] = [MadeBar[q] EXCEPT ![k] = Len(LogBar[q]) + 1]
      BY <1>1, <2>2, <2>5, <3>1 DEF MadeBar
    <3>3. \A p \in Quests \ {q} : MadeBar'[p] = MadeBar[p]
      BY <3>1 DEF MadeBar
    <3>4. MadeBar = [p \in Quests |-> MadeBar[p]] /\ MadeBar' = [p \in Quests |-> MadeBar'[p]]
      BY DEF MadeBar
    <3> QED BY <1>1, <3>2, <3>3, <3>4
  <2>8. UNCHANGED FrozenBar
    BY <1>1 DEF FrozenBar
  <2>9. Log!Restore(q, place, k)
    BY <2>2, <2>4, <2>6, <2>7, <2>8 DEF Log!Restore
  <2> QED BY <1>1, <2>2, <2>3, <2>9 DEF Log!Next
<1> QED BY <1>2, <1>3 DEF EndRestore

\* What the log keeps of a playtest.
Played(t) == [quest |-> t.quest, place |-> t.revision + 1, content |-> t.content]

LEMMA PlaytestIsLogged ==
  ASSUME DraftIInv, NEW w \in Workers, NEW q \in Quests, NEW r \in Revisions,
         NEW v \in DOMAIN validations, CreatePlaytest(w, q, r, v)
  PROVE  [Log!Next]_(Log!logVars)
<1> DEFINE t == [quest |-> q, revision |-> r, content |-> ContentOf(q, r), validation |-> v]
           f == [quest |-> q, place |-> r + 1, content |-> LogBar[q][r + 1]]
           n == Len(playtests)
<1>1. UNCHANGED <<drafts, restores>>
  BY DEF CreatePlaytest
<1>2. CASE playtests' = playtests
  BY <1>1, <1>2, LogStays
<1>3. CASE playtests' = Append(playtests, t)
  <2>1. HasIt(drafts, q, r)
    BY ExistsHas DEF CreatePlaytest
  <2>2. Len(drafts[q]) \in Nat /\ r + 1 \in 1..Len(drafts[q])
    BY <2>1, PlaceOf
  <2>3. /\ Len(LogBar[q]) = Len(drafts[q])
        /\ LogBar[q][r + 1] = ContentOf(q, r)
    <3>1. IsSequence(drafts[q])
      BY DEF DraftIInv
    <3> QED BY <2>2, <3>1, LogIs, ContentsAppend DEF ContentsOf, ContentOf
  <2>4. /\ n \in Nat /\ Len(playtests') = n + 1 /\ playtests'[n + 1] = t
        /\ \A i \in 1..n : playtests'[i] = playtests[i]
    BY <1>3, AppendAny DEF DraftIInv
  <2>5. /\ FrozenBar = [i \in 1..n |-> FrozenBar[i]]
        /\ FrozenBar' = [i \in 1..(n + 1) |-> FrozenBar'[i]]
        /\ \A i \in 1..n : FrozenBar'[i] = FrozenBar[i]
        /\ FrozenBar'[n + 1] = f
    <3>1. FrozenBar = [i \in 1..n |-> Played(playtests[i])]
      BY DEF FrozenBar, Played
    <3>2. FrozenBar' = [i \in 1..(n + 1) |-> Played(playtests'[i])]
      BY <2>4 DEF FrozenBar, Played
    <3>3. Played(t) = f
      BY <2>3 DEF Played
    <3>4. n + 1 \in 1..(n + 1) /\ \A i \in 1..n : i \in 1..(n + 1)
      BY <2>4
    <3> HIDE DEF n, t, f
    <3>5. \A i \in 1..n : FrozenBar[i] = Played(playtests[i])
      BY <3>1
    <3>6. \A i \in 1..(n + 1) : FrozenBar'[i] = Played(playtests'[i])
      BY <3>2
    <3>7. FrozenBar'[n + 1] = f /\ \A i \in 1..n : FrozenBar'[i] = FrozenBar[i]
      BY <2>4, <3>3, <3>4, <3>5, <3>6
    <3>8. FrozenBar = [i \in 1..n |-> FrozenBar[i]]
      BY <3>1
    <3>9. FrozenBar' = [i \in 1..(n + 1) |-> FrozenBar'[i]]
      BY <3>2
    <3> QED BY <3>7, <3>8, <3>9
  <2> HIDE DEF f, n
  <2>6. FrozenBar' = Append(FrozenBar, f) /\ FrozenBar' # FrozenBar
    BY <2>4, <2>5, OneLonger
  <2>7. UNCHANGED <<LogBar, MadeBar>>
    BY <1>1 DEF LogBar, MadeBar
  <2>8. Log!Freeze(q, r + 1)
    BY <2>6, <2>7 DEF Log!Freeze, f
  <2> QED BY <2>2, <2>3, <2>6, <2>8 DEF Log!Next
<1> QED BY <1>2, <1>3 DEF CreatePlaytest

\* A step of the store is a step of the log, or leaves it alone.
LEMMA StepIsLogged ==
  ASSUME Adapter = "sqlite", DraftIInv, [Next]_vars
  PROVE  [Log!Next]_(Log!logVars)
<1>1. CASE UNCHANGED vars
  BY <1>1, LogStays DEF vars
<1>2. CASE Next
  <2>1. PICK w \in Workers :
          \/ \E q \in Quests, content \in Contents : BeginCreate(w, q, content)
          \/ \E q \in Quests, base \in Revisions, changes \in ChangeSets :
               BeginApply(w, q, base, changes)
          \/ \E q \in Quests, base \in Revisions, source \in Revisions, key \in RestoreKeys :
               BeginRestore(w, q, base, source, key)
          \/ \E q \in Quests, r \in Revisions : BeginValidate(w, q, r)
          \/ EndCreate(w) \/ EndApply(w) \/ EndRestore(w) \/ EndValidate(w)
          \/ \E q \in Quests, r \in Revisions, v \in DOMAIN validations :
               CreatePlaytest(w, q, r, v)
          \/ Crash(w)
    BY <1>2 DEF Next
  <2>2. CASE UNCHANGED <<drafts, restores, playtests>>
    BY <2>2, LogStays
  <2> QED BY <2>1, <2>2, CreateIsLogged, EditIsLogged, RestoreIsLogged, PlaytestIsLogged
          DEF BeginCreate, BeginApply, BeginRestore, BeginValidate, EndValidate, Crash, tables
<1> QED BY <1>1, <1>2

LEMMA LogInitially == Init => Log!Init
<1> SUFFICES ASSUME Init PROVE Log!Init
  OBVIOUS
<1>1. /\ \A q \in Quests : Len(drafts[q]) = 0
      /\ \A q \in Quests, k \in RestoreKeys : restores[q][k].revision = -1
      /\ Len(playtests) = 0
  BY DEF Init, NotRestored
<1>2. LogBar = [q \in Quests |-> <<>>]
  BY <1>1 DEF LogBar
<1>3. MadeBar = [q \in Quests |-> [k \in RestoreKeys |-> 0]]
  BY <1>1 DEF MadeBar
<1>4. FrozenBar = <<>>
  BY <1>1 DEF FrozenBar
<1> QED BY <1>2, <1>3, <1>4 DEF Log!Init

\* For every set of quests, contents, edits, keys and overlapping calls, the durable store
\* implements the log: each create, edit and restore takes effect at one moment, on what is
\* newest then, although its content was compiled before (the transactions after the
\* awaits of sqlite-store.ts).
THEOREM DraftsImplementTheLog == (Adapter = "sqlite" /\ Spec) => DraftsAreALog
<1>1. CASE Adapter = "sqlite"
  <2>1. DraftIInv /\ [Next]_vars => [Log!Next]_(Log!logVars)
    BY <1>1, StepIsLogged
  <2> QED BY <1>1, <2>1, LogInitially, DraftInvariant, PTL DEF Spec, Log!Spec, DraftsAreALog
<1> QED BY <1>1

-------------------------------------------------------------------------------
(* Proposals, applied through the store.                                    *)

ApplyRecords ==
  [at : {"previewing", "deciding", "applying", "awaiting"}, proposal : Proposals,
   key : ProposalKeys, held : BOOLEAN, stale : BOOLEAN]

Begun(a) == a.at = "idle" \/ a \in ApplyRecords

BaseStands(d, p) ==
  HasIt(d, p.quest, p.base) /\ d[p.quest][p.base + 1].content = p.baseContent

Landed(d, p) ==
  /\ HasIt(d, p.quest, p.base + 1)
  /\ d[p.quest][p.base + 1 + 1].content = ExpectedContent(p)

\* What an apply knows once its preview is through, and what its store call knows.
Knows(d, a, call) ==
  /\ a.at \in {"deciding", "applying", "awaiting"} => BaseStands(d, a.proposal)
  /\ a.at = "awaiting" =>
       /\ call.at = "idle" /\ call.answer = "updated" => Landed(d, a.proposal)
       /\ call.at # "idle" =>
            /\ call.request = ApplyRequest(a.proposal.quest, a.proposal.base, a.proposal.changes)
            /\ call.content = ExpectedContent(a.proposal)

Recorded(d, r) ==
  \/ r = Free
  \/ \E p \in Proposals : r = Pending(p) \/ (r = Completed(p) /\ BaseStands(d, p) /\ Landed(d, p))

\* An apply decides on a base that it has seen and that stands; an answered store call
\* made what the proposal expects; a completed reservation names what is there.
AppliesKnow ==
  /\ applies = [w \in Workers |-> applies[w]]
  /\ reservations = [k \in ProposalKeys |-> reservations[k]]
  /\ \A w \in Workers : Begun(applies[w]) /\ Knows(drafts, applies[w], calls[w])
  /\ \A k \in ProposalKeys : Recorded(drafts, reservations[k])

ApplyIInv == DraftIInv /\ AppliesKnow

\* A person, an apply and a crash do to the drafts what DraftStore says.
LEMMA ProposalStepIsADraftStep ==
  ASSUME \A w \in Workers : Begun(applies[w]), [ProposalNext]_proposalVars
  PROVE  [Next]_vars
<1> SUFFICES Next \/ UNCHANGED vars
  OBVIOUS
<1>1. CASE UNCHANGED proposalVars
  BY <1>1 DEF proposalVars, vars
<1>2. ASSUME NEW w \in Workers, PersonStep(w) \/ StoreStep(w)
      PROVE  Next
  BY <1>2 DEF PersonStep, StoreStep, Next
<1>3. ASSUME NEW w \in Workers, CallStore(w)
      PROVE  Next
  <2>1. applies[w].proposal \in Proposals
    BY <1>3 DEF CallStore, Begun, ApplyRecords
  <2>2. /\ applies[w].proposal.quest \in Quests /\ applies[w].proposal.base \in Revisions
        /\ applies[w].proposal.changes \in ChangeSets
    BY <2>1, ProposalAssumption DEF Revisions
  <2> QED BY <1>3, <2>2 DEF CallStore, Next
<1>4. ASSUME NEW w \in Workers, CrashApply(w)
      PROVE  Next \/ UNCHANGED vars
  <2>1. CASE Idle(w)
    BY <1>4, <2>1 DEF CrashApply, vars, tables
  <2>2. CASE ~Idle(w)
    <3>1. Crash(w)
      BY <1>4, <2>2 DEF CrashApply, Crash
    <3> QED BY <3>1 DEF Next
  <2> QED BY <2>1, <2>2
<1> QED BY <1>1, <1>2, <1>3, <1>4
        DEF ProposalNext, BeginProposal, PreviewProposal, Recover, Reserve, Complete

LEMMA ProposalTyped ==
  ASSUME NEW p \in Proposals
  PROVE  p.quest \in Quests /\ p.base \in Nat
BY ProposalAssumption, ConstantAssumption

LEMMA ProposalsStay ==
  ASSUME NEW d, NEW e, Keeps(d, e)
  PROVE  /\ \A p \in Proposals : BaseStands(d, p) => BaseStands(e, p)
         /\ \A p \in Proposals : Landed(d, p) => Landed(e, p)
         /\ \A r : Recorded(d, r) => Recorded(e, r)
         /\ \A a, c : Begun(a) /\ Knows(d, a, c) => Knows(e, a, c)
<1>1. ASSUME NEW p \in Proposals, BaseStands(d, p) PROVE BaseStands(e, p)
  BY <1>1, ProposalTyped DEF BaseStands, Keeps
<1>2. ASSUME NEW p \in Proposals, Landed(d, p) PROVE Landed(e, p)
  BY <1>2, ProposalTyped DEF Landed, Keeps
<1>3. \A r : Recorded(d, r) => Recorded(e, r)
  BY <1>1, <1>2 DEF Recorded
<1>4. ASSUME NEW a, NEW c, Begun(a), Knows(d, a, c) PROVE Knows(e, a, c)
  <2>1. CASE a.at = "idle"
    BY <2>1 DEF Knows
  <2>2. CASE a.at # "idle"
    <3>1. a.proposal \in Proposals
      BY <1>4, <2>2 DEF Begun, ApplyRecords
    <3> QED BY <1>1, <1>2, <1>4, <3>1 DEF Knows
  <2> QED BY <2>1, <2>2
<1> QED BY <1>1, <1>2, <1>3, <1>4

\* The applies that a step leaves alone.
LEMMA OthersKnow ==
  ASSUME ApplyIInv, Keeps(drafts, drafts'), NEW w \in Workers,
         \A v \in Workers \ {w} : applies'[v] = applies[v] /\ calls'[v] = calls[v]
  PROVE  \A v \in Workers \ {w} : Begun(applies'[v]) /\ Knows(drafts', applies'[v], calls'[v])
<1>1. \A v \in Workers : Begun(applies[v]) /\ Knows(drafts, applies[v], calls[v])
  BY DEF ApplyIInv, AppliesKnow
<1>2. \A v \in Workers : Knows(drafts', applies[v], calls[v])
  BY <1>1, ProposalsStay
<1> QED BY <1>1, <1>2

\* A step of one apply, on the drafts as they are, that records what has landed.
LEMMA ApplyMoves ==
  ASSUME ApplyIInv, drafts' = drafts, NEW w \in Workers, NEW a,
         applies' = [applies EXCEPT ![w] = a], Begun(a), Knows(drafts, a, calls'[w]),
         \A v \in Workers \ {w} : calls'[v] = calls[v],
         \/ UNCHANGED reservations
         \/ \E k \in ProposalKeys : \E r : Recorded(drafts, r) /\ reservations' = [reservations EXCEPT ![k] = r]
  PROVE  AppliesKnow'
<1>1. /\ applies' = [v \in Workers |-> applies'[v]] /\ applies'[w] = a
      /\ \A v \in Workers \ {w} : applies'[v] = applies[v]
  BY DEF ApplyIInv, AppliesKnow
<1>2. \A v \in Workers \ {w} : Begun(applies'[v]) /\ Knows(drafts', applies'[v], calls'[v])
  BY <1>1, KeepsSame, OthersKnow
<1>3. \A v \in Workers : Begun(applies'[v]) /\ Knows(drafts', applies'[v], calls'[v])
  BY <1>1, <1>2
<1>4. /\ reservations' = [k \in ProposalKeys |-> reservations'[k]]
      /\ \A k \in ProposalKeys : Recorded(drafts', reservations'[k])
  BY DEF ApplyIInv, AppliesKnow
<1> QED BY <1>1, <1>3, <1>4 DEF AppliesKnow

\* A finished apply knows nothing more.
LEMMA FinishedKnows ==
  ASSUME NEW kind, NEW d, NEW c
  PROVE  /\ Begun([at |-> "idle", answer |-> kind])
         /\ Knows(d, [at |-> "idle", answer |-> kind], c)
BY DEF Begun, Knows

LEMMA GoingOn ==
  ASSUME NEW a \in ApplyRecords, NEW place \in {"deciding", "applying", "awaiting"},
         NEW stale \in BOOLEAN
  PROVE  LET b == [a EXCEPT !.at = place]
             c == [a EXCEPT !.at = place, !.stale = stale]
         IN /\ b \in ApplyRecords /\ b.at = place /\ b.proposal = a.proposal
            /\ c \in ApplyRecords /\ c.at = place /\ c.proposal = a.proposal
BY DEF ApplyRecords

\* Where the apply of a step is.
LEMMA ApplyOf ==
  ASSUME ApplyIInv, NEW w \in Workers, applies[w].at # "idle"
  PROVE  /\ applies[w] \in ApplyRecords /\ applies[w].proposal \in Proposals
         /\ applies[w].key \in ProposalKeys
         /\ applies[w].at \in {"deciding", "applying", "awaiting"} =>
              BaseStands(drafts, applies[w].proposal)
<1>1. Begun(applies[w]) /\ Knows(drafts, applies[w], calls[w])
  BY DEF ApplyIInv, AppliesKnow
<1> QED BY <1>1 DEF Begun, ApplyRecords, Knows

LEMMA Finishing ==
  ASSUME ApplyIInv, UNCHANGED drafts, NEW w \in Workers, NEW kind, Finish(w, kind),
         \A v \in Workers \ {w} : calls'[v] = calls[v],
         \/ UNCHANGED reservations
         \/ \E k \in ProposalKeys : \E r : Recorded(drafts, r) /\ reservations' = [reservations EXCEPT ![k] = r]
  PROVE  AppliesKnow'
<1> DEFINE a == [at |-> "idle", answer |-> kind]
<1>1. Begun(a) /\ Knows(drafts, a, calls'[w])
  BY FinishedKnows
<1>2. applies' = [applies EXCEPT ![w] = a]
  BY DEF Finish
<1> HIDE DEF a
<1> QED BY <1>1, <1>2, ApplyMoves

LEMMA GoingTo ==
  ASSUME ApplyIInv, UNCHANGED drafts, NEW w \in Workers, applies[w].at \in {"deciding", "applying"},
         NEW place \in {"applying", "awaiting"}, GoTo(w, place),
         Knows(drafts, [applies[w] EXCEPT !.at = place], calls'[w]),
         \A v \in Workers \ {w} : calls'[v] = calls[v],
         \/ UNCHANGED reservations
         \/ \E k \in ProposalKeys : \E r : Recorded(drafts, r) /\ reservations' = [reservations EXCEPT ![k] = r]
  PROVE  AppliesKnow'
<1> DEFINE a == [applies[w] EXCEPT !.at = place]
<1>1. a \in ApplyRecords
  BY ApplyOf, GoingOn
<1>2. applies' = [applies EXCEPT ![w] = a]
  BY DEF GoTo
<1>3. Begun(a) /\ Knows(drafts, a, calls'[w])
  BY <1>1 DEF Begun
<1> HIDE DEF a
<1> QED BY <1>2, <1>3, ApplyMoves

\* Going on to the store call, the base still stands.
LEMMA GoingToApply ==
  ASSUME ApplyIInv, UNCHANGED drafts, UNCHANGED calls, NEW w \in Workers, applies[w].at = "deciding",
         GoTo(w, "applying"),
         \/ UNCHANGED reservations
         \/ \E k \in ProposalKeys : \E r : Recorded(drafts, r) /\ reservations' = [reservations EXCEPT ![k] = r]
  PROVE  AppliesKnow'
<1> DEFINE a == [applies[w] EXCEPT !.at = "applying"]
<1>1. a.at = "applying" /\ a.proposal = applies[w].proposal
  BY ApplyOf, GoingOn
<1>2. BaseStands(drafts, a.proposal)
  BY <1>1, ApplyOf
<1>3. Knows(drafts, a, calls'[w])
  <2> HIDE DEF a
  <2> QED BY <1>1, <1>2 DEF Knows
<1> QED BY <1>3, GoingTo

LEMMA BeginProposalStep ==
  ASSUME ApplyIInv, NEW w \in Workers, NEW p \in Proposals, NEW key \in ProposalKeys,
         BeginProposal(w, p, key)
  PROVE  AppliesKnow'
<1>1. drafts' = drafts /\ calls' = calls /\ reservations' = reservations
  BY DEF BeginProposal, vars
<1> DEFINE a == [at |-> "previewing", proposal |-> p, key |-> key,
                 held |-> (reservations[key] = Pending(p)), stale |-> FALSE]
<1>2. CASE \E kind : Finish(w, kind)
  BY <1>1, <1>2, Finishing
<1>3. CASE applies' = [applies EXCEPT ![w] = a]
  <2>1. a \in ApplyRecords /\ a.at = "previewing"
    BY DEF ApplyRecords
  <2> HIDE DEF a
  <2>2. Begun(a) /\ Knows(drafts, a, calls'[w])
    BY <2>1 DEF Begun, Knows
  <2> QED BY <1>1, <1>3, <2>2, ApplyMoves
<1> DEFINE r == reservations[key]
<1>4. r = Free \/ \E o \in Proposals : r = Pending(o) \/ r = Completed(o)
  BY DEF ApplyIInv, AppliesKnow, Recorded
<1> HIDE DEF a
<1>5. ASSUME NEW o \in Proposals, o # p, r = Pending(o) \/ r = Completed(o)
      PROVE  \E kind : Finish(w, kind)
  <2>1. r.status # "free" /\ r.proposal # p /\ r # Completed(p) /\ r # Pending(p)
    BY <1>5 DEF Pending, Completed
  <2> QED BY <2>1 DEF BeginProposal
<1>6. ASSUME r = Completed(p)
      PROVE  \E kind : Finish(w, kind)
  <2>1. r.status = "completed" /\ r.proposal = p /\ r # Pending(p)
    BY <1>6 DEF Pending, Completed
  <2> QED BY <1>6, <2>1 DEF BeginProposal
<1>7. ASSUME r = Free \/ r = Pending(p)
      PROVE  applies' = [applies EXCEPT ![w] = a]
  <2>1. r # Completed(p) /\ ~(r.status # "free" /\ r.proposal # p)
    BY <1>7 DEF Pending, Completed, Free
  <2>2. r.status = "free" \/ r = Pending(p)
    BY <1>7 DEF Free
  <2> QED BY <2>1, <2>2 DEF BeginProposal, a
<1> QED BY <1>2, <1>3, <1>4, <1>5, <1>6, <1>7

LEMMA PreviewStep ==
  ASSUME ApplyIInv, NEW w \in Workers, PreviewProposal(w)
  PROVE  AppliesKnow'
<1> DEFINE p == applies[w].proposal
           stale == ~AtBase(p)
           a == [applies[w] EXCEPT !.at = "deciding", !.stale = stale]
<1>1. drafts' = drafts /\ calls' = calls /\ reservations' = reservations
  BY DEF PreviewProposal, vars
<1>2. p \in Proposals /\ applies[w] \in ApplyRecords /\ applies[w].at = "previewing"
  BY ApplyOf DEF PreviewProposal
<1>3. CASE \E kind : Finish(w, kind)
  BY <1>1, <1>3, Finishing
<1>4. CASE /\ Exists(p.quest) /\ HasRevision(p.quest, p.base)
           /\ ContentOf(p.quest, p.base) = p.baseContent
           /\ applies' = [applies EXCEPT ![w].at = "deciding", ![w].stale = stale]
  <2>1. stale \in BOOLEAN
    BY DEF AtBase
  <2> HIDE DEF stale
  <2>2. a \in ApplyRecords /\ a.at = "deciding" /\ a.proposal = p
    BY <1>2, <2>1 DEF ApplyRecords
  <2>3. BaseStands(drafts, p)
    BY <1>2, <1>4, ProposalTyped, ExistsHas DEF BaseStands, ContentOf, ApplyIInv
  <2>4. applies' = [applies EXCEPT ![w] = a]
    BY <1>4 DEF ApplyIInv, AppliesKnow
  <2> HIDE DEF a
  <2>5. Begun(a) /\ Knows(drafts, a, calls'[w])
    BY <2>2, <2>3 DEF Begun, Knows
  <2> QED BY <1>1, <2>4, <2>5, ApplyMoves
<1> QED BY <1>3, <1>4 DEF PreviewProposal

LEMMA RecoverStep ==
  ASSUME ApplyIInv, NEW w \in Workers, Recover(w)
  PROVE  AppliesKnow'
<1> DEFINE p == applies[w].proposal
           key == applies[w].key
<1>1. drafts' = drafts /\ calls' = calls
  BY DEF Recover, vars
<1>2. /\ applies[w].at = "deciding" /\ p \in Proposals /\ key \in ProposalKeys
      /\ BaseStands(drafts, p)
  BY ApplyOf DEF Recover
<1>3. CASE AtExpected(p)
  <2>1. Landed(drafts, p)
    <3>1. /\ Len(drafts[p.quest]) - 1 = p.base + 1 /\ p.base \in Nat
          /\ drafts[p.quest][p.base + 1 + 1].content = ExpectedContent(p)
      BY <1>2, <1>3, ProposalTyped DEF AtExpected, CurrentRevision, ExpectedRevision, ContentOf
    <3>2. HasIt(drafts, p.quest, p.base + 1)
      BY <3>1 DEF HasIt
    <3> QED BY <3>1, <3>2 DEF Landed
  <2>2. Recorded(drafts, Completed(p))
    BY <1>2, <2>1 DEF Recorded
  <2>3. /\ reservations' = [reservations EXCEPT ![key] = Completed(p)]
        /\ Finish(w, "replay")
    BY <1>3 DEF Recover
  <2> HIDE DEF p, key
  <2> QED BY <1>1, <1>2, <2>2, <2>3, Finishing
<1>4. CASE ~AtExpected(p) /\ ~AtBase(p)
  BY <1>1, <1>4, Finishing DEF Recover
<1>5. CASE ~AtExpected(p) /\ AtBase(p)
  BY <1>1, <1>2, <1>5, GoingToApply DEF Recover
<1> QED BY <1>3, <1>4, <1>5

LEMMA ReserveStep ==
  ASSUME ApplyIInv, NEW w \in Workers, Reserve(w)
  PROVE  AppliesKnow'
<1> DEFINE p == applies[w].proposal
           key == applies[w].key
           r == reservations[key]
<1>1. drafts' = drafts /\ calls' = calls
  BY DEF Reserve, vars
<1>2. applies[w].at = "deciding" /\ p \in Proposals /\ key \in ProposalKeys
  BY ApplyOf DEF Reserve
<1>3. CASE applies[w].stale
  BY <1>1, <1>3, Finishing DEF Reserve
<1>4. CASE ~applies[w].stale /\ r.status = "free"
  <2>1. Recorded(drafts, Pending(p))
    BY <1>2 DEF Recorded
  <2>2. /\ reservations' = [reservations EXCEPT ![key] = Pending(p)]
        /\ GoTo(w, "applying")
    BY <1>4 DEF Reserve
  <2> HIDE DEF p, key
  <2> QED BY <1>1, <1>2, <2>1, <2>2, GoingToApply
<1>5. CASE ~applies[w].stale /\ r.status # "free"
  BY <1>1, <1>2, <1>5, Finishing, GoingToApply DEF Reserve
<1> QED BY <1>3, <1>4, <1>5

LEMMA CallStoreStep ==
  ASSUME ApplyIInv, NEW w \in Workers, CallStore(w)
  PROVE  AppliesKnow'
<1> DEFINE p == applies[w].proposal
           c == TrialContent(ContentOf(p.quest, p.base), p.changes)
           a == [applies[w] EXCEPT !.at = "awaiting"]
<1>1. /\ UNCHANGED reservations /\ drafts' = drafts /\ GoTo(w, "awaiting")
      /\ BeginApply(w, p.quest, p.base, p.changes)
  BY DEF CallStore, BeginApply, tables
<1>2. applies[w].at = "applying" /\ p \in Proposals /\ BaseStands(drafts, p)
  BY ApplyOf DEF CallStore
<1>3. a \in ApplyRecords /\ a.at = "awaiting" /\ a.proposal = p
  BY <1>2, ApplyOf, GoingOn
<1>4. c = ExpectedContent(p)
  BY <1>2 DEF BaseStands, ContentOf, ExpectedContent
<1>5. calls = [v \in Workers |-> calls[v]]
  BY DEF ApplyIInv, DraftIInv
<1>6. ASSUME NEW kind, Reply(w, kind), kind # "updated"
      PROVE  /\ Knows(drafts, a, calls'[w])
             /\ \A v \in Workers \ {w} : calls'[v] = calls[v]
  <2>1. /\ calls'[w].at = "idle" /\ calls'[w].answer = kind
        /\ \A v \in Workers \ {w} : calls'[v] = calls[v]
    BY <1>5, <1>6 DEF Reply
  <2> HIDE DEF a
  <2> QED BY <1>2, <1>3, <1>6, <2>1 DEF Knows
<1>7. ASSUME Suspend(w, ApplyRequest(p.quest, p.base, p.changes), c)
      PROVE  /\ Knows(drafts, a, calls'[w])
             /\ \A v \in Workers \ {w} : calls'[v] = calls[v]
  <2>1. /\ calls'[w].at = "compiling" /\ calls'[w].content = c
        /\ calls'[w].request = ApplyRequest(p.quest, p.base, p.changes)
        /\ \A v \in Workers \ {w} : calls'[v] = calls[v]
    BY <1>5, <1>7 DEF Suspend
  <2> HIDE DEF a
  <2> QED BY <1>2, <1>3, <1>4, <2>1 DEF Knows
<1>8. \/ \E kind : Reply(w, kind) /\ kind # "updated"
      \/ Suspend(w, ApplyRequest(p.quest, p.base, p.changes), c)
  <2> DEFINE q == p.quest
  <2>1. CASE ~Exists(q)
    <3>1. Reply(w, "quest_not_found")
      BY <1>1, <2>1 DEF BeginApply
    <3> QED BY <3>1
  <2>2. CASE Exists(q) /\ p.base # CurrentRevision(q)
    <3>1. Reply(w, "revision_conflict")
      BY <1>1, <2>2 DEF BeginApply
    <3> QED BY <3>1
  <2>3. CASE Exists(q) /\ p.base = CurrentRevision(q)
    <3>1. \/ Reply(w, "invalid_change_set")
          \/ Suspend(w, ApplyRequest(q, p.base, p.changes), c)
      BY <1>1, <2>3 DEF BeginApply
    <3> QED BY <3>1
  <2> QED BY <2>1, <2>2, <2>3
<1> QED BY <1>1, <1>2, <1>6, <1>7, <1>8, GoingTo

LEMMA CompleteStep ==
  ASSUME ApplyIInv, NEW w \in Workers, Complete(w)
  PROVE  AppliesKnow'
<1> DEFINE p == applies[w].proposal
           key == applies[w].key
<1>1. drafts' = drafts /\ calls' = calls
  BY DEF Complete, vars
<1>2. /\ applies[w].at = "awaiting" /\ p \in Proposals /\ key \in ProposalKeys
      /\ BaseStands(drafts, p)
  BY ApplyOf DEF Complete
<1>3. CASE calls[w].answer = "updated"
  <2>1. Landed(drafts, p)
    BY <1>2, <1>3 DEF Complete, Idle, ApplyIInv, AppliesKnow, Knows
  <2>2. Recorded(drafts, Completed(p))
    BY <1>2, <2>1 DEF Recorded
  <2>3. /\ reservations' = [reservations EXCEPT ![key] = Completed(p)]
        /\ Finish(w, "applied")
    BY <1>3 DEF Complete
  <2> HIDE DEF p, key
  <2> QED BY <1>1, <1>2, <2>2, <2>3, Finishing
<1>4. CASE calls[w].answer # "updated"
  BY <1>1, <1>4, Finishing DEF Complete
<1> QED BY <1>3, <1>4

LEMMA CrashApplyStep ==
  ASSUME ApplyIInv, NEW w \in Workers, CrashApply(w)
  PROVE  AppliesKnow'
<1>1. drafts' = drafts /\ reservations' = reservations /\ Finish(w, "lost")
  BY DEF CrashApply, tables
<1>2. \A v \in Workers \ {w} : calls'[v] = calls[v]
  BY DEF CrashApply, Reply, ApplyIInv, DraftIInv
<1> QED BY <1>1, <1>2, Finishing

LEMMA OneCallMoves ==
  ASSUME DraftIInv, NEW w \in Workers,
         (\E kind : Reply(w, kind)) \/ \E request, content : Suspend(w, request, content)
  PROVE  \A v \in Workers \ {w} : calls'[v] = calls[v]
BY DEF DraftIInv, Reply, Suspend

LEMMA PersonStepStep ==
  ASSUME ApplyIInv, NEW w \in Workers, PersonStep(w)
  PROVE  AppliesKnow'
<1>1. /\ applies[w].at = "idle" /\ applies' = applies /\ reservations' = reservations
  BY DEF PersonStep, Applying
<1>2. drafts' = drafts
  BY DEF PersonStep, BeginCreate, BeginApply, Crash, tables
<1>3. (\E kind : Reply(w, kind)) \/ \E request, content : Suspend(w, request, content)
  <2>1. ASSUME NEW q \in Quests, NEW content \in Contents, BeginCreate(w, q, content)
        PROVE  (\E kind : Reply(w, kind)) \/ \E r, c : Suspend(w, r, c)
    BY <2>1 DEF BeginCreate
  <2>2. ASSUME NEW q \in Quests, NEW base \in Revisions, NEW changes \in ChangeSets,
               BeginApply(w, q, base, changes)
        PROVE  (\E kind : Reply(w, kind)) \/ \E r, c : Suspend(w, r, c)
    <3>1. CASE ~Exists(q)
      BY <2>2, <3>1 DEF BeginApply
    <3>2. CASE Exists(q) /\ base # CurrentRevision(q)
      BY <2>2, <3>2 DEF BeginApply
    <3>3. CASE Exists(q) /\ base = CurrentRevision(q)
      BY <2>2, <3>3 DEF BeginApply
    <3> QED BY <3>1, <3>2, <3>3
  <2> QED BY <2>1, <2>2 DEF PersonStep, Crash
<1>4. \A v \in Workers \ {w} : calls'[v] = calls[v]
  BY <1>3, OneCallMoves DEF ApplyIInv
<1>5. Begun(applies'[w]) /\ Knows(drafts', applies'[w], calls'[w])
  BY <1>1 DEF Begun, Knows
<1>6. \A v \in Workers \ {w} : Begun(applies'[v]) /\ Knows(drafts', applies'[v], calls'[v])
  BY <1>1, <1>2, <1>4, KeepsSame, OthersKnow
<1> QED BY <1>1, <1>2, <1>5, <1>6 DEF ApplyIInv, AppliesKnow

LEMMA StoreStepStep ==
  ASSUME Adapter = "sqlite", ApplyIInv, NEW w \in Workers, StoreStep(w)
  PROVE  AppliesKnow'
<1> DEFINE request == calls[w].request
<1>1. /\ applies' = applies /\ reservations' = reservations /\ calls[w].at = "compiling"
      /\ DraftIInv /\ AppliesKnow
  BY DEF StoreStep, EndCreate, EndApply, ApplyIInv
<1>2. drafts' = drafts \/ \E q \in Quests : Grown(q, Snapshot(w))
  BY <1>1, EndCreateStep, EndApplyStep DEF StoreStep
<1>3. Keeps(drafts, drafts')
  BY <1>1, <1>2, KeepsSame, GrowthKeeps
<1>4. \A v \in Workers \ {w} : calls'[v] = calls[v]
  <2>1. \E kind : Reply(w, kind)
    BY DEF StoreStep, EndCreate, EndApply
  <2> QED BY <1>1, <2>1, OneCallMoves
<1>5. \A v \in Workers \ {w} : Begun(applies'[v]) /\ Knows(drafts', applies'[v], calls'[v])
  BY <1>1, <1>3, <1>4, OthersKnow
<1>6. \A k \in ProposalKeys : Recorded(drafts', reservations'[k])
  BY <1>1, <1>3, ProposalsStay DEF AppliesKnow
<1>7. Begun(applies[w]) /\ Knows(drafts, applies[w], calls[w])
  BY <1>1 DEF AppliesKnow
<1>8. Knows(drafts', applies[w], calls[w])
  BY <1>3, <1>7, ProposalsStay
<1>9. Knows(drafts', applies[w], calls'[w])
  <2>1. CASE applies[w].at # "awaiting"
    BY <1>8, <2>1 DEF Knows
  <2>2. CASE applies[w].at = "awaiting"
    <3> DEFINE p == applies[w].proposal
               q == p.quest
    <3>1. /\ request = ApplyRequest(q, p.base, p.changes)
          /\ calls[w].content = ExpectedContent(p) /\ BaseStands(drafts', p)
      BY <1>1, <1>7, <1>8, <2>2 DEF Knows
    <3>2. p \in Proposals /\ q \in Quests /\ p.base \in Nat
      BY <2>2, ApplyOf, ProposalTyped
    <3>3. request.op = "apply" /\ request.quest = q /\ request.base = p.base
      BY <3>1 DEF ApplyRequest
    <3>4. EndApply(w)
      BY <3>3 DEF StoreStep, EndCreate
    <3>5. CASE Reply(w, "revision_conflict")
      <4>1. calls'[w].at = "idle" /\ calls'[w].answer = "revision_conflict"
        BY <1>1, <3>5 DEF Reply, DraftIInv
      <4> QED BY <2>2, <3>1, <4>1 DEF Knows
    <3>6. CASE /\ CurrentRevision(q) = p.base /\ Reply(w, "updated")
               /\ drafts' = [drafts EXCEPT ![q] = Append(@, Snapshot(w))]
      <4>1. calls'[w].at = "idle"
        BY <1>1, <3>6 DEF Reply, DraftIInv
      <4>2. Grown(q, Snapshot(w))
        BY <3>6 DEF Grown
      <4>3. /\ Len(drafts[q]) \in Nat /\ Len(drafts'[q]) = Len(drafts[q]) + 1
            /\ drafts'[q][Len(drafts[q]) + 1] = Snapshot(w)
        <5>1. drafts'[q] = Append(drafts[q], Snapshot(w)) /\ IsSequence(drafts[q])
          BY <1>1, <3>2, <4>2, GrowthKeeps DEF DraftIInv
        <5> HIDE DEF q
        <5> QED BY <5>1, AppendAny
      <4>4. Len(drafts[q]) - 1 = p.base
        BY <3>6 DEF CurrentRevision
      <4>5. Len(drafts[q]) = p.base + 1
        BY <3>2, <4>3, <4>4
      <4>6. Snapshot(w).content = ExpectedContent(p)
        BY <3>1 DEF Snapshot
      <4>7. HasIt(drafts', q, p.base + 1)
        BY <3>2, <4>3, <4>5 DEF HasIt
      <4>8. Landed(drafts', p)
        BY <4>3, <4>5, <4>6, <4>7 DEF Landed
      <4> QED BY <2>2, <3>1, <4>1, <4>8 DEF Knows
    <3> QED BY <3>3, <3>4, <3>5, <3>6 DEF EndApply, Snapshot
  <2> QED BY <2>1, <2>2
<1> QED BY <1>1, <1>5, <1>6, <1>7, <1>9 DEF AppliesKnow

LEMMA ProposalStep ==
  Adapter = "sqlite" /\ ApplyIInv /\ [ProposalNext]_proposalVars => ApplyIInv' /\ [Next]_vars
<1> SUFFICES ASSUME Adapter = "sqlite", ApplyIInv, [ProposalNext]_proposalVars
             PROVE  ApplyIInv' /\ [Next]_vars
  OBVIOUS
<1>1. [Next]_vars
  BY ProposalStepIsADraftStep DEF ApplyIInv, AppliesKnow
<1>2. DraftIInv'
  BY <1>1, DraftStep DEF ApplyIInv
<1>3. ASSUME UNCHANGED proposalVars PROVE AppliesKnow'
  BY <1>3 DEF proposalVars, ApplyIInv, AppliesKnow
<1>4. ASSUME ProposalNext PROVE AppliesKnow'
  BY <1>4, PersonStepStep, StoreStepStep, BeginProposalStep, PreviewStep, RecoverStep,
     ReserveStep, CallStoreStep, CompleteStep, CrashApplyStep DEF ProposalNext
<1>5. AppliesKnow'
  BY <1>3, <1>4
<1> QED BY <1>1, <1>2, <1>5 DEF ApplyIInv

LEMMA ProposalInitially == ProposalInit => ApplyIInv
<1> SUFFICES ASSUME ProposalInit PROVE ApplyIInv
  OBVIOUS
<1>1. DraftIInv
  BY DraftInitially DEF ProposalInit
<1>2. AppliesKnow
  BY DEF ProposalInit, AppliesKnow, NotApplying, Begun, Knows, Recorded
<1> QED BY <1>1, <1>2 DEF ApplyIInv

\* A proposal is applied where its base is the last revision: one snapshot can have
\* that base.
LEMMA LandsOnce ==
  ASSUME DraftIInv, NEW p \in Proposals
  PROVE  Cardinality(MadeBy(p)) <= 1
<1>1. p.quest \in Quests /\ p.base \in Nat
  BY ProposalTyped
<1>2. ASSUME NEW i \in MadeBy(p) PROVE i = p.base + 2
  <2>1. /\ i \in DOMAIN drafts[p.quest] /\ Follows(drafts[p.quest], i)
        /\ drafts[p.quest][i].cause = ApplyRequest(p.quest, p.base, p.changes)
    BY <1>1, <1>2 DEF MadeBy, DraftIInv
  <2>2. i \in Nat
    BY <1>1, <2>1, LengthOf
  <2>3. p.base = i - 2
    BY <2>1 DEF Follows, ApplyRequest
  <2> QED BY <1>1, <2>2, <2>3
<1>3. MadeBy(p) \subseteq {p.base + 2}
  BY <1>2
<1>4. IsFiniteSet({p.base + 2}) /\ Cardinality({p.base + 2}) = 1
  BY FS_Singleton
<1> QED BY <1>3, <1>4, FS_Subset

LEMMA RecordsAreTrue == ApplyIInv => ApplicationsTrue
<1> SUFFICES ASSUME ApplyIInv PROVE ApplicationsTrue
  OBVIOUS
<1>1. ASSUME NEW k \in ProposalKeys, reservations[k].status = "completed"
      PROVE  LET p == reservations[k].proposal IN
             /\ HasRevision(p.quest, ExpectedRevision(p))
             /\ ContentOf(p.quest, ExpectedRevision(p)) = ExpectedContent(p)
             /\ ContentOf(p.quest, p.base) = p.baseContent
  <2>1. Recorded(drafts, reservations[k])
    BY DEF ApplyIInv, AppliesKnow
  <2>2. BaseStands(drafts, reservations[k].proposal) /\ Landed(drafts, reservations[k].proposal)
    <3>1. Free.status = "free" /\ \A p : Pending(p).status = "pending" /\ Completed(p).proposal = p
      BY DEF Free, Pending, Completed
    <3>2. PICK p \in Proposals :
            reservations[k] = Completed(p) /\ BaseStands(drafts, p) /\ Landed(drafts, p)
      BY <1>1, <2>1, <3>1 DEF Recorded
    <3> QED BY <3>1, <3>2
  <2> QED BY <2>2 DEF BaseStands, Landed, HasIt, HasRevision, CurrentRevision, ContentOf,
                      ExpectedRevision
<1>2. \A p \in Proposals : Cardinality(MadeBy(p)) <= 1
  BY LandsOnce DEF ApplyIInv
<1> QED BY <1>1, <1>2 DEF ApplicationsTrue

\* The inductive invariant of the apply saga (executeApply of authoring-proposal.ts):
\* what an apply under way knows of its reservation, and what a reservation says of the
\* draft, is so.
THEOREM ProposalInvariant == (Adapter = "sqlite" /\ ProposalSpec) => []ApplyIInv
<1>1. CASE Adapter = "sqlite"
  BY <1>1, ProposalInitially, ProposalStep, PTL DEF ProposalSpec
<1> QED BY <1>1

\* Whatever applies, people and crashes do to a draft, each is a step of the store: what
\* is proved of it holds under them too (executeApply of authoring-proposal.ts writes a
\* draft only through applyDraftChanges).
THEOREM ProposalsRunTheStore == (Adapter = "sqlite" /\ ProposalSpec) => Spec
<1>1. CASE Adapter = "sqlite"
  <2>1. ProposalInit => Init
    BY DEF ProposalInit
  <2> QED BY <1>1, <2>1, ProposalInvariant, ProposalStep, PTL DEF ProposalSpec, Spec
<1> QED BY <1>1

\* An application record is true for ever, and a proposal lands at most once, whatever
\* keys it is sent with, however many applies of it run at once and wherever a process
\* stops (executeApply of authoring-proposal.ts, whose reservation, edit and completion
\* are three transactions).
THEOREM ApplicationsStayTrue == (Adapter = "sqlite" /\ ProposalSpec) => []ApplicationsTrue
BY ProposalInvariant, RecordsAreTrue, PTL

-----------------------------------------------------------------------------
(* Copies of quests.  A row pins what its copy is made of: a snapshot, and  *)
(* snapshots never change.  So what the calls of one key build is one       *)
(* draft, whichever of them builds it and whatever has become of the source *)
(* since, and a quest that was once equal to it stays so at revision 0.     *)

Fits(q, c) == IsDraft(c) /\ IdsApart(q, c)

HistoriesHold ==
  /\ DOMAIN histories = AllQuests
  /\ \A q \in AllQuests :
       /\ IsSequence(histories[q]) /\ Len(histories[q]) <= LastRevision + 1
       /\ \A i \in DOMAIN histories[q] : Fits(q, histories[q][i])
  /\ \A q \in Originals : \A i \in DOMAIN histories[q] : histories[q][i] \in Versions

\* What a row and its hash and revision say that the copy is of, and that it is there.
Pins(row, hash, revision) ==
  /\ hash.dest \in Destinations
  /\ row[1] \in {"clone", "import"}
  /\ row[1] = "clone" =>
       /\ row[2] \in AllQuests /\ row[2] # hash.dest
       /\ revision \in Nat /\ revision + 1 \in DOMAIN histories[row[2]]
  /\ row[1] = "import" =>
       /\ hash.package.intact /\ hash.package.quest \in Originals
       /\ hash.package.revision + 1 \in DOMAIN histories[hash.package.quest]

BuiltFor(row, hash, revision) ==
  IF row[1] = "clone"
  THEN CloneOf(SnapshotOf(row[2], revision), row[2], revision, hash.dest, hash.title)
  ELSE ContentIn(hash.package)

Made(row, hash, revision) ==
  IsThere(hash.dest) /\ SnapshotOf(hash.dest, 0) = BuiltFor(row, hash, revision)

RowHolds(row, r) ==
  /\ DOMAIN r = {"hash", "revision", "status"} /\ r.status \in {"pending", "completed"}
  /\ Pins(row, r.hash, r.revision)
  /\ r.status = "completed" => Made(row, r.hash, r.revision)

RowsHold ==
  \A row \in DOMAIN copyReservations : \A r \in {copyReservations[row]} : RowHolds(row, r)

\* What a call has read of its row, or the row has become since.
IsHeld(request, held) ==
  LET row == Row(request) IN
  /\ row \in DOMAIN copyReservations
  /\ copyReservations[row].hash = HashOf(request)
  /\ copyReservations[row].revision = held.revision
  /\ held.status = "completed" => copyReservations[row].status = "completed"

IsRequest(request) ==
  /\ request.dest \in Destinations
  /\ \/ request.op = "clone" /\ request.scope \in AllQuests /\ request.scope # request.dest
     \/ /\ request.op = "import" /\ request.package.quest \in Originals
        /\ request.package.revision + 1 \in DOMAIN histories[request.package.quest]

CallHolds(call) ==
  /\ call.at \in {"idle", "reading", "looking", "checking", "comparing", "creating", "created",
                  "raced"}
  /\ call.at # "idle" => IsRequest(call.request)
  /\ call.at = "reading" => /\ call.request.op = "import"
                            /\ call.held = NoReservation \/ IsHeld(call.request, call.held)
  /\ call.at = "looking" => call.request.op = "clone"
  /\ call.at = "checking" => Pins(Row(call.request), HashOf(call.request), call.held.revision)
  /\ call.at \in {"comparing", "creating", "created", "raced"} => IsHeld(call.request, call.held)
  /\ call.at = "created" =>
       Made(Row(call.request), HashOf(call.request), call.held.revision)

CallsHold ==
  DOMAIN copiers = Copiers /\ \A call \in {copiers[w] : w \in Copiers} : CallHolds(call)

AnswerHolds(answer) ==
  /\ IsHeld(answer.request, [revision |-> answer.revision, status |-> "completed"])
  /\ answer.kind # "corrupt"

\* Who has made a quest, and is about to say so or has said so, is the only one.
MakesIt(w, dest) == copiers[w].at = "created" /\ copiers[w].request.dest = dest
MadeIt(answer, dest) == answer.kind = "made" /\ answer.request.dest = dest

OneMaker ==
  /\ \A v, w \in Copiers : \A dest \in Destinations :
       MakesIt(v, dest) /\ MakesIt(w, dest) => v = w
  /\ \A w \in Copiers : \A answer \in copied : \A dest \in Destinations :
       ~ (MakesIt(w, dest) /\ MadeIt(answer, dest))
  /\ \A a, b \in copied : \A dest \in Destinations : MadeIt(a, dest) /\ MadeIt(b, dest) => a = b

CopiesIInv ==
  /\ HistoriesHold /\ RowsHold /\ CallsHold
  /\ \A answer \in copied : AnswerHolds(answer) /\ answer.request.dest \in Destinations
  /\ OneMaker

-----------------------------------------------------------------------------
(* What is built.                                                          *)

LEMMA IdsOfClones ==
  ASSUME NEW s, NEW r, NEW d, NEW x, NEW y
  PROVE  /\ ClonedId(s, r, d, x) = ClonedId(s, r, d, y) <=> x = y
         /\ ClonedId(s, r, d, x) = NoBlock <=> x = NoBlock
<1>1. \A z : <<s, r, d, z>> # <<>>
  OBVIOUS
<1>2. <<s, r, d, x>> = <<s, r, d, y>> => x = y
  OBVIOUS
<1> QED BY <1>1, <1>2 DEF ClonedId, NoBlock

LEMMA BlocksOfClones ==
  ASSUME NEW old, NEW s, NEW r, NEW d, NEW title, IsDraft(old)
  PROVE  LET new == CloneOf(old, s, r, d, title) IN
         /\ new.title = title /\ new.entry = ClonedId(s, r, d, old.entry)
         /\ DOMAIN new.blocks = DOMAIN old.blocks
         /\ \A i \in DOMAIN old.blocks :
              /\ DOMAIN new.blocks[i] = {"id", "kind", "to"}
              /\ new.blocks[i].id = ClonedId(s, r, d, old.blocks[i].id)
              /\ new.blocks[i].to = ClonedId(s, r, d, old.blocks[i].to)
              /\ new.blocks[i].kind = old.blocks[i].kind
<1> DEFINE new == CloneOf(old, s, r, d, title)
           block(i) == [old.blocks[i] EXCEPT !.id = ClonedId(s, r, d, old.blocks[i].id),
                                             !.to = ClonedId(s, r, d, old.blocks[i].to)]
<1>1. /\ new.title = title /\ new.entry = ClonedId(s, r, d, old.entry)
      /\ new.blocks = [i \in DOMAIN old.blocks |-> block(i)]
  BY DEF CloneOf
<1>2. ASSUME NEW i \in DOMAIN old.blocks
      PROVE  /\ DOMAIN block(i) = {"id", "kind", "to"}
             /\ block(i).id = ClonedId(s, r, d, old.blocks[i].id)
             /\ block(i).to = ClonedId(s, r, d, old.blocks[i].to)
             /\ block(i).kind = old.blocks[i].kind
  BY DEF IsDraft
<1> HIDE DEF new, block
<1> QED BY <1>1, <1>2 DEF new

LEMMA CloneIsClone ==
  ASSUME NEW old, NEW s, NEW r \in 0..LastRevision, NEW d \in Destinations, NEW title,
         Fits(s, old)
  PROVE  IsClone(CloneOf(old, s, r, d, title), old)
<1> DEFINE new == CloneOf(old, s, r, d, title)
<1>1. /\ new.entry = ClonedId(s, r, d, old.entry) /\ DOMAIN new.blocks = DOMAIN old.blocks
      /\ \A i \in DOMAIN old.blocks :
           /\ new.blocks[i].id = ClonedId(s, r, d, old.blocks[i].id)
           /\ new.blocks[i].to = ClonedId(s, r, d, old.blocks[i].to)
           /\ new.blocks[i].kind = old.blocks[i].kind
  BY BlocksOfClones DEF Fits
<1> HIDE DEF new
<1>2. SUFFICES ASSUME NEW i \in DOMAIN old.blocks, NEW j \in DOMAIN old.blocks
               PROVE  /\ new.blocks[i].id # old.blocks[j].id
                      /\ new.blocks[i].id = new.blocks[j].id <=> i = j
                      /\ new.blocks[i].to = new.blocks[j].id <=>
                           old.blocks[i].to = old.blocks[j].id
                      /\ new.entry = new.blocks[j].id <=> old.entry = old.blocks[j].id
  BY <1>1 DEF IsClone, new
<1>3. new.blocks[i].id # old.blocks[j].id
  BY <1>1 DEF Fits, IdsApart
<1>4. new.blocks[i].id = new.blocks[j].id <=> i = j
  BY <1>1, IdsOfClones DEF Fits, IsDraft
<1>5. /\ new.blocks[i].to = new.blocks[j].id <=> old.blocks[i].to = old.blocks[j].id
      /\ new.entry = new.blocks[j].id <=> old.entry = old.blocks[j].id
  BY <1>1, IdsOfClones
<1> QED BY <1>3, <1>4, <1>5

\* A clone can be cloned: its ids name the source, which is another quest.
LEMMA CloneFits ==
  ASSUME NEW old, NEW s, NEW r, NEW d, NEW title, IsDraft(old), s # d
  PROVE  Fits(d, CloneOf(old, s, r, d, title))
<1> DEFINE new == CloneOf(old, s, r, d, title)
<1>1. /\ DOMAIN new.blocks = DOMAIN old.blocks
      /\ \A i \in DOMAIN old.blocks :
           /\ DOMAIN new.blocks[i] = {"id", "kind", "to"}
           /\ new.blocks[i].id = ClonedId(s, r, d, old.blocks[i].id)
           /\ new.blocks[i].to = ClonedId(s, r, d, old.blocks[i].to)
  BY BlocksOfClones
<1> HIDE DEF new
<1>2. ASSUME NEW i \in DOMAIN new.blocks
      PROVE  /\ DOMAIN new.blocks[i] = {"id", "kind", "to"}
             /\ new.blocks[i].id # NoBlock
             /\ \A j \in DOMAIN new.blocks : new.blocks[j].id = new.blocks[i].id => j = i
             /\ new.blocks[i].to # NoBlock =>
                  \E j \in DOMAIN new.blocks : new.blocks[j].id = new.blocks[i].to
  <2>1. /\ i \in DOMAIN old.blocks /\ old.blocks[i].id # NoBlock
        /\ \A j \in DOMAIN old.blocks : old.blocks[j].id = old.blocks[i].id => j = i
        /\ old.blocks[i].to # NoBlock =>
             \E j \in DOMAIN old.blocks : old.blocks[j].id = old.blocks[i].to
    BY <1>1, <1>2 DEF IsDraft
  <2>2. \A j \in DOMAIN new.blocks : new.blocks[j].id = new.blocks[i].id => j = i
    BY <1>1, <2>1, IdsOfClones
  <2>3. ASSUME new.blocks[i].to # NoBlock
        PROVE  \E j \in DOMAIN new.blocks : new.blocks[j].id = new.blocks[i].to
    <3>1. old.blocks[i].to # NoBlock
      BY <1>1, <2>1, <2>3, IdsOfClones
    <3>2. PICK j \in DOMAIN old.blocks : old.blocks[j].id = old.blocks[i].to
      BY <2>1, <3>1
    <3>3. new.blocks[j].id = new.blocks[i].to
      BY <1>1, <2>1, <3>2
    <3> QED BY <1>1, <3>2, <3>3
  <2> QED BY <1>1, <2>1, <2>2, <2>3, IdsOfClones
<1>3. IsDraft(new)
  BY <1>2 DEF IsDraft
<1>4. ASSUME NEW i \in DOMAIN new.blocks, NEW j \in DOMAIN new.blocks,
             NEW q \in 0..LastRevision, NEW dest \in Destinations
      PROVE  ClonedId(d, q, dest, new.blocks[i].id) # new.blocks[j].id
  <2>1. /\ new.blocks[i].id # NoBlock /\ new.blocks[j].id # NoBlock
        /\ new.blocks[j].id = ClonedId(s, r, d, old.blocks[j].id)
    BY <1>1, <1>2, <1>4
  <2>2. /\ ClonedId(d, q, dest, new.blocks[i].id) = <<d, q, dest, new.blocks[i].id>>
        /\ new.blocks[j].id = <<s, r, d, old.blocks[j].id>>
    BY <2>1 DEF ClonedId
  <2>3. <<d, q, dest, new.blocks[i].id>> # <<s, r, d, old.blocks[j].id>>
    OBVIOUS
  <2> QED BY <2>2, <2>3
<1> QED BY <1>3, <1>4 DEF Fits, IdsApart, new

-----------------------------------------------------------------------------
(* What stays.                                                             *)

HistoriesGrow ==
  \A q \in AllQuests : \A i \in DOMAIN histories[q] :
    i \in DOMAIN histories'[q] /\ histories'[q][i] = histories[q][i]

RowsGrow ==
  \A row \in DOMAIN copyReservations :
    /\ row \in DOMAIN copyReservations'
    /\ copyReservations'[row].hash = copyReservations[row].hash
    /\ copyReservations'[row].revision = copyReservations[row].revision
    /\ copyReservations[row].status = "completed" => copyReservations'[row].status = "completed"

LEMMA HistoryFacts ==
  ASSUME HistoriesHold, NEW q \in AllQuests
  PROVE  /\ Len(histories[q]) \in Nat /\ DOMAIN histories[q] = 1..Len(histories[q])
         /\ IsThere(q) <=> 1 \in DOMAIN histories[q]
<1>1. PICK S : histories[q] \in Seq(S)
  BY DEF HistoriesHold, IsSequence
<1>2. Len(histories[q]) \in Nat /\ DOMAIN histories[q] = 1..Len(histories[q])
  BY <1>1, LenProperties
<1>3. histories[q] = <<>> <=> Len(histories[q]) = 0
  BY <1>1, EmptySeq
<1> QED BY <1>2, <1>3 DEF IsThere

LEMMA ThereStays ==
  ASSUME HistoriesHold, HistoriesGrow, NEW q \in AllQuests, IsThere(q)
  PROVE  IsThere(q)' /\ SnapshotOf(q, 0)' = SnapshotOf(q, 0)
<1>1. 1 \in DOMAIN histories[q]
  BY HistoryFacts
<1>2. 1 \in DOMAIN histories'[q] /\ histories'[q][1] = histories[q][1]
  BY <1>1 DEF HistoriesGrow
<1>3. DOMAIN <<>> = {}
  OBVIOUS
<1> QED BY <1>2, <1>3 DEF IsThere, SnapshotOf

LEMMA PinsStay ==
  ASSUME HistoriesHold, HistoriesGrow, NEW row, NEW hash, NEW revision, Pins(row, hash, revision)
  PROVE  /\ Pins(row, hash, revision)'
         /\ BuiltFor(row, hash, revision)' = BuiltFor(row, hash, revision)
         /\ Made(row, hash, revision) => Made(row, hash, revision)'
<1>1. Originals \subseteq AllQuests /\ Destinations \subseteq AllQuests
  BY DEF AllQuests
<1>2. Pins(row, hash, revision)'
  BY <1>1 DEF Pins, HistoriesGrow
<1>3. BuiltFor(row, hash, revision)' = BuiltFor(row, hash, revision)
  <2>1. CASE row[1] = "clone"
    <3>1. SnapshotOf(row[2], revision)' = SnapshotOf(row[2], revision)
      BY <2>1 DEF Pins, HistoriesGrow, SnapshotOf
    <3> QED BY <2>1, <3>1 DEF BuiltFor
  <2>2. CASE row[1] = "import"
    <3>1. ContentIn(hash.package)' = ContentIn(hash.package)
      BY <1>1, <2>2 DEF Pins, HistoriesGrow, SnapshotOf, ContentIn
    <3> QED BY <2>2, <3>1 DEF BuiltFor
  <2> QED BY <2>1, <2>2 DEF Pins
<1>4. ASSUME Made(row, hash, revision) PROVE Made(row, hash, revision)'
  <2>1. hash.dest \in AllQuests
    BY <1>1 DEF Pins
  <2>2. IsThere(hash.dest)' /\ SnapshotOf(hash.dest, 0)' = SnapshotOf(hash.dest, 0)
    BY <1>4, <2>1, ThereStays DEF Made
  <2> QED BY <1>3, <1>4, <2>2 DEF Made
<1> QED BY <1>2, <1>3, <1>4

LEMMA HeldStays ==
  ASSUME RowsGrow, NEW request, NEW held, IsHeld(request, held)
  PROVE  IsHeld(request, held)'
BY DEF RowsGrow, IsHeld

LEMMA HeldPins ==
  ASSUME RowsHold, NEW request, NEW held, IsHeld(request, held)
  PROVE  /\ Pins(Row(request), HashOf(request), held.revision)
         /\ held.status = "completed" => Made(Row(request), HashOf(request), held.revision)
BY DEF RowsHold, RowHolds, IsHeld

LEMMA RequestStays ==
  ASSUME HistoriesGrow, NEW request, IsRequest(request)
  PROVE  IsRequest(request)'
BY DEF HistoriesGrow, IsRequest, AllQuests

LEMMA CallStays ==
  ASSUME HistoriesHold, RowsHold, HistoriesGrow, RowsGrow, NEW call, CallHolds(call)
  PROVE  CallHolds(call)'
<1>1. call.at # "idle" => IsRequest(call.request)'
  BY RequestStays DEF CallHolds
<1>2. IsHeld(call.request, call.held) => IsHeld(call.request, call.held)'
  BY HeldStays
<1>3. call.at = "checking" => Pins(Row(call.request), HashOf(call.request), call.held.revision)'
  BY PinsStay DEF CallHolds
<1>4. ASSUME call.at = "created"
      PROVE  Made(Row(call.request), HashOf(call.request), call.held.revision)'
  <2>1. /\ IsHeld(call.request, call.held)
        /\ Made(Row(call.request), HashOf(call.request), call.held.revision)
    BY <1>4 DEF CallHolds
  <2>2. Pins(Row(call.request), HashOf(call.request), call.held.revision)
    BY <2>1, HeldPins
  <2> QED BY <2>1, <2>2, PinsStay
<1> QED BY <1>1, <1>2, <1>3, <1>4 DEF CallHolds

LEMMA AnswersStay ==
  ASSUME RowsGrow, \A answer \in copied : AnswerHolds(answer) /\ answer.request.dest \in Destinations
  PROVE  \A answer \in copied : AnswerHolds(answer)' /\ answer.request.dest \in Destinations
BY HeldStays DEF AnswerHolds

LEMMA RowStays ==
  ASSUME HistoriesHold, HistoriesGrow, NEW row, NEW r, RowHolds(row, r)
  PROVE  RowHolds(row, r)'
BY PinsStay DEF RowHolds

LEMMA RowsStay ==
  ASSUME HistoriesHold, HistoriesGrow, RowsHold, UNCHANGED copyReservations
  PROVE  RowsHold' /\ RowsGrow
BY RowStays DEF RowsHold, RowsGrow

\* The call of one copier goes on, and all that the others rely on stays.
LEMMA CallGoesOn ==
  ASSUME HistoriesHold, RowsHold, CallsHold, HistoriesGrow, RowsGrow,
         NEW w \in Copiers, NEW call, copiers' = [copiers EXCEPT ![w] = call], CallHolds(call)'
  PROVE  CallsHold'
<1>1. /\ DOMAIN copiers' = Copiers /\ copiers'[w] = call
      /\ \A v \in Copiers : v # w => copiers'[v] = copiers[v]
  BY DEF CallsHold
<1>2. ASSUME NEW c \in {copiers'[v] : v \in Copiers} PROVE CallHolds(c)'
  <2>1. CASE c = call
    BY <2>1
  <2>2. CASE c # call
    <3>1. c \in {copiers[v] : v \in Copiers}
      BY <1>1, <1>2, <2>2
    <3> QED BY <3>1, CallStays DEF CallsHold
  <2> QED BY <2>1, <2>2
<1> QED BY <1>1, <1>2 DEF CallsHold

LEMMA CallOf ==
  ASSUME CallsHold, NEW w \in Copiers
  PROVE  CallHolds(copiers[w])
BY DEF CallsHold

\* No step but the making of a quest makes a second maker.
LEMMA NoNewMaker ==
  ASSUME CallsHold, OneMaker, NEW w \in Copiers, NEW call,
         copiers' = [copiers EXCEPT ![w] = call], call.at # "created",
         \A answer \in copied' : answer \in copied \/ answer.kind # "made"
  PROVE  OneMaker'
<1>1. \A v \in Copiers : \A dest \in Destinations : MakesIt(v, dest)' => MakesIt(v, dest)
  BY DEF CallsHold, MakesIt
<1>2. \A answer \in copied' : \A dest \in Destinations :
        MadeIt(answer, dest) => answer \in copied
  BY DEF MadeIt
<1>3. \A v, u \in Copiers : \A dest \in Destinations :
        MakesIt(v, dest)' /\ MakesIt(u, dest)' => v = u
  BY <1>1 DEF OneMaker
<1>4. \A v \in Copiers : \A answer \in copied' : \A dest \in Destinations :
        ~ (MakesIt(v, dest)' /\ MadeIt(answer, dest))
  BY <1>1, <1>2 DEF OneMaker
<1>5. \A a, b \in copied' : \A dest \in Destinations :
        MadeIt(a, dest) /\ MadeIt(b, dest) => a = b
  BY <1>2 DEF OneMaker
<1> QED BY <1>3, <1>4, <1>5 DEF OneMaker, MadeIt

\* A step that only moves a call.
LEMMA OnlyMoves ==
  ASSUME CopiesIInv, NEW w \in Copiers, NEW call, copiers' = [copiers EXCEPT ![w] = call],
         UNCHANGED <<histories, copyReservations, copied>>,
         CallHolds(call), call.at # "created"
  PROVE  CopiesIInv'
<1>1. HistoriesHold' /\ HistoriesGrow
  BY DEF CopiesIInv, HistoriesHold, HistoriesGrow
<1>2. RowsHold' /\ RowsGrow
  BY <1>1, RowsStay DEF CopiesIInv
<1>3. CallsHold'
  BY <1>1, <1>2, CallStays, CallGoesOn DEF CopiesIInv
<1>4. OneMaker'
  BY NoNewMaker DEF CopiesIInv
<1>5. \A answer \in copied' : AnswerHolds(answer)' /\ answer.request.dest \in Destinations
  BY <1>2, AnswersStay DEF CopiesIInv
<1> QED BY <1>1, <1>2, <1>3, <1>4, <1>5 DEF CopiesIInv

LEMMA AtRestHolds == CallHolds(AtRest) /\ CallHolds(AtRest)' /\ AtRest.at = "idle"
BY DEF CallHolds, AtRest

LEMMA RefusesKeeps ==
  ASSUME CopiesIInv, NEW w \in Copiers, Refuses(w), UNCHANGED <<histories, copyReservations>>
  PROVE  CopiesIInv'
BY AtRestHolds, OnlyMoves DEF Refuses

-----------------------------------------------------------------------------
(* The steps.                                                              *)

LEMMA HeldIs ==
  ASSUME RowsHold, NEW request
  PROVE  /\ Row(request) \in DOMAIN copyReservations <=> Held(request) # NoReservation
         /\ Held(request) # NoReservation => Held(request) = copyReservations[Row(request)]
         /\ Held(request) # NoReservation /\ Held(request).hash = HashOf(request) =>
              IsHeld(request, Held(request))
<1>1. ASSUME Row(request) \in DOMAIN copyReservations
      PROVE  /\ Held(request) = copyReservations[Row(request)]
             /\ Held(request) # NoReservation
  <2>1. copyReservations[Row(request)].status \in {"pending", "completed"}
    BY <1>1 DEF RowsHold, RowHolds
  <2>2. NoReservation.status = "none"
    BY DEF NoReservation
  <2> QED BY <1>1, <2>1, <2>2 DEF Held
<1>2. Row(request) \notin DOMAIN copyReservations => Held(request) = NoReservation
  BY DEF Held
<1> QED BY <1>1, <1>2 DEF IsHeld

LEMMA Shapes ==
  ASSUME NEW at, NEW request, NEW held
  PROVE  LET call == [at |-> at, request |-> request, held |-> held] IN
         call.at = at /\ call.request = request /\ call.held = held
OBVIOUS

LEMMA BeginCopyKeeps ==
  ASSUME CopiesIInv, NEW w \in Copiers, NEW request, IsRequest(request), BeginCopy(w, request)
  PROVE  CopiesIInv'
<1> DEFINE row == Held(request)
<1>1. CASE Refuses(w)
  BY <1>1, RefusesKeeps DEF BeginCopy
<1>2. CASE ~ Refuses(w)
  <2>1. /\ row # NoReservation => row.hash = HashOf(request)
        /\ UNCHANGED <<histories, copyReservations, copied>>
    BY <1>2 DEF BeginCopy
  <2>2. row # NoReservation => IsHeld(request, row)
    BY <2>1, HeldIs DEF CopiesIInv
  <2>3. PICK at : /\ at = IF request.op = "import" THEN "reading"
                          ELSE IF row = NoReservation THEN "looking" ELSE "comparing"
                  /\ GoesOn(w, at, request, row)
    BY <1>2, <2>1 DEF BeginCopy
  <2> DEFINE call == [at |-> at, request |-> request, held |-> row]
  <2>4. call.at = at /\ call.request = request /\ call.held = row
    OBVIOUS
  <2>5. copiers' = [copiers EXCEPT ![w] = call]
    BY <2>3 DEF GoesOn
  <2> HIDE DEF row, call
  <2>6. CallHolds(call)
    BY <2>2, <2>3, <2>4 DEF CallHolds, IsRequest
  <2> QED BY <2>1, <2>3, <2>4, <2>5, <2>6, OnlyMoves
<1> QED BY <1>1, <1>2

LEMMA ReadArchiveKeeps ==
  ASSUME CopiesIInv, NEW w \in Copiers, ReadArchive(w)
  PROVE  CopiesIInv'
<1> DEFINE old == copiers[w]
<1>1. /\ CallHolds(old) /\ old.at = "reading"
      /\ UNCHANGED <<histories, copyReservations>>
  BY CallOf DEF ReadArchive, CopiesIInv
<1>2. CASE Refuses(w)
  BY <1>1, <1>2, RefusesKeeps
<1>3. CASE ~ Refuses(w)
  <2>1. PICK at : /\ at = IF old.held = NoReservation THEN "checking" ELSE "comparing"
                  /\ GoesOn(w, at, old.request, old.held)
    BY <1>3 DEF ReadArchive
  <2>2. old.request.package.intact /\ UNCHANGED copied
    BY <1>3 DEF ReadArchive
  <2> DEFINE call == [at |-> at, request |-> old.request, held |-> old.held]
  <2>3. call.at = at /\ call.request = old.request /\ call.held = old.held
    OBVIOUS
  <2>4. copiers' = [copiers EXCEPT ![w] = call]
    BY <2>1 DEF GoesOn
  <2> HIDE DEF call, old
  <2>5. IsRequest(old.request) /\ old.request.op = "import"
    BY <1>1 DEF CallHolds
  <2>6. Pins(Row(old.request), HashOf(old.request), old.held.revision)
    BY <2>2, <2>5 DEF Pins, Row, HashOf, IsRequest
  <2>7. old.held # NoReservation => IsHeld(old.request, old.held)
    BY <1>1 DEF CallHolds
  <2>8. CallHolds(call)
    BY <2>1, <2>3, <2>5, <2>6, <2>7 DEF CallHolds
  <2> QED BY <1>1, <2>1, <2>2, <2>3, <2>4, <2>8, OnlyMoves
<1> QED BY <1>2, <1>3

LEMMA FindSourceKeeps ==
  ASSUME CopiesIInv, NEW w \in Copiers, FindSource(w)
  PROVE  CopiesIInv'
<1> DEFINE old == copiers[w]
           held == [NoReservation EXCEPT !.revision = Latest(old.request.scope)]
<1>1. /\ CallHolds(old) /\ old.at = "looking"
      /\ UNCHANGED <<histories, copyReservations>>
  BY CallOf DEF FindSource, CopiesIInv
<1>2. CASE Refuses(w)
  BY <1>1, <1>2, RefusesKeeps
<1>3. CASE ~ Refuses(w)
  <2>1. /\ IsThere(old.request.scope) /\ UNCHANGED copied
        /\ GoesOn(w, "checking", old.request, held)
    BY <1>3 DEF FindSource
  <2> DEFINE call == [at |-> "checking", request |-> old.request, held |-> held]
  <2>2. call.at = "checking" /\ call.request = old.request /\ call.held = held
    OBVIOUS
  <2>3. copiers' = [copiers EXCEPT ![w] = call]
    BY <2>1 DEF GoesOn
  <2>4. held.revision = Latest(old.request.scope)
    BY DEF NoReservation
  <2> HIDE DEF call, old, held
  <2>5. IsRequest(old.request) /\ old.request.op = "clone"
    BY <1>1 DEF CallHolds
  <2>6. /\ Latest(old.request.scope) \in Nat
        /\ Latest(old.request.scope) + 1 \in DOMAIN histories[old.request.scope]
    <3>1. old.request.scope \in AllQuests
      BY <2>5 DEF IsRequest
    <3> QED BY <2>1, <3>1, HistoryFacts DEF CopiesIInv, Latest
  <2>7. Pins(Row(old.request), HashOf(old.request), held.revision)
    BY <2>4, <2>5, <2>6 DEF Pins, Row, HashOf, IsRequest
  <2>8. CallHolds(call)
    BY <2>2, <2>5, <2>7 DEF CallHolds
  <2> QED BY <1>1, <2>1, <2>2, <2>3, <2>8, OnlyMoves
<1> QED BY <1>2, <1>3

LEMMA ReserveKeyKeeps ==
  ASSUME CopiesIInv, NEW w \in Copiers, ReserveKey(w)
  PROVE  CopiesIInv'
<1>1. PICK request, held : request = copiers[w].request /\ held = copiers[w].held
  OBVIOUS
<1>2. /\ IsRequest(request) /\ Pins(Row(request), HashOf(request), held.revision)
      /\ UNCHANGED histories
  BY <1>1, CallOf DEF ReserveKey, CopiesIInv, CallHolds
<1>3. CASE IsThere(request.dest)
  BY <1>1, <1>2, <1>3, RefusesKeeps DEF ReserveKey
<1>4. CASE ~ IsThere(request.dest)
  <2>1. PICK row, stored :
          /\ row = Row(request)
          /\ stored = IF Held(request) = NoReservation THEN PendingRow(request, held.revision)
                      ELSE Held(request)
    OBVIOUS
  <2>2. /\ copyReservations' = [r \in DOMAIN copyReservations \cup {row} |->
                                  IF r = row THEN stored ELSE copyReservations[r]]
        /\ IF stored.hash = HashOf(request)
           THEN GoesOn(w, "comparing", request, stored) /\ UNCHANGED copied
           ELSE Refuses(w)
    BY <1>1, <1>4, <2>1 DEF ReserveKey
  <2>3. /\ DOMAIN copyReservations' = DOMAIN copyReservations \cup {row}
        /\ copyReservations'[row] = stored
        /\ \A r \in DOMAIN copyReservations : r # row => copyReservations'[r] = copyReservations[r]
    BY <2>2
  <2>4. /\ row \in DOMAIN copyReservations => stored = copyReservations[row]
        /\ row \notin DOMAIN copyReservations => stored = PendingRow(request, held.revision)
    BY <2>1, HeldIs DEF CopiesIInv
  <2>5. HistoriesHold' /\ HistoriesGrow
    BY <1>2 DEF CopiesIInv, HistoriesHold, HistoriesGrow
  <2>6. RowsGrow
    BY <2>3, <2>4 DEF RowsGrow
  <2>7. RowHolds(row, stored)
    <3>1. CASE row \notin DOMAIN copyReservations
      BY <1>2, <2>1, <2>4, <3>1 DEF RowHolds, PendingRow
    <3>2. CASE row \in DOMAIN copyReservations
      BY <2>4, <3>2 DEF CopiesIInv, RowsHold
    <3> QED BY <3>1, <3>2
  <2>8. RowsHold'
    <3>1. SUFFICES ASSUME NEW r \in DOMAIN copyReservations', NEW x, x = copyReservations'[r]
                   PROVE  RowHolds(r, x)'
      BY DEF RowsHold
    <3>2. RowHolds(r, x)
      BY <2>3, <2>7, <3>1 DEF CopiesIInv, RowsHold
    <3> QED BY <2>5, <3>2, RowStays DEF CopiesIInv
  <2>9. ASSUME NEW call, copiers' = [copiers EXCEPT ![w] = call], CallHolds(call)',
               call.at # "created", UNCHANGED copied
        PROVE  CopiesIInv'
    <3>1. CallsHold'
      BY <2>5, <2>6, <2>9, CallGoesOn DEF CopiesIInv
    <3>2. OneMaker'
      BY <2>9, NoNewMaker DEF CopiesIInv
    <3>3. \A answer \in copied' : AnswerHolds(answer)' /\ answer.request.dest \in Destinations
      BY <2>6, <2>9, AnswersStay DEF CopiesIInv
    <3> QED BY <2>5, <2>8, <3>1, <3>2, <3>3 DEF CopiesIInv
  <2>10. CASE stored.hash = HashOf(request)
    <3>1. PICK call : call = [at |-> "comparing", request |-> request, held |-> stored]
      OBVIOUS
    <3>2. call.at = "comparing" /\ call.request = request /\ call.held = stored
      BY <3>1
    <3>3. copiers' = [copiers EXCEPT ![w] = call] /\ UNCHANGED copied
      BY <2>2, <2>10, <3>1 DEF GoesOn
    <3>4. IsHeld(request, stored)'
      BY <2>1, <2>3, <2>10 DEF IsHeld
    <3>5. IsRequest(request)'
      BY <1>2, <2>5, RequestStays
    <3>6. CallHolds(call)'
      BY <3>2, <3>4, <3>5 DEF CallHolds
    <3> QED BY <2>9, <3>2, <3>3, <3>6
  <2>11. CASE stored.hash # HashOf(request)
    BY <2>2, <2>9, <2>11, AtRestHolds DEF Refuses
  <2> QED BY <2>10, <2>11
<1> QED BY <1>3, <1>4

\* The row of a call whose copy is there is completed.
LEMMA CompletesKeeps ==
  ASSUME HistoriesHold, RowsHold, UNCHANGED histories, NEW request, NEW held,
         IsHeld(request, held), Made(Row(request), HashOf(request), held.revision),
         Completes(request)
  PROVE  /\ HistoriesHold' /\ HistoriesGrow /\ RowsHold' /\ RowsGrow
         /\ IsHeld(request, [revision |-> held.revision, status |-> "completed"])'
<1> DEFINE row == Row(request)
           r == copyReservations[row]
           done == [r EXCEPT !.status = "completed"]
<1>1. /\ row \in DOMAIN copyReservations /\ RowHolds(row, r)
      /\ r.hash = HashOf(request) /\ r.revision = held.revision
  BY DEF IsHeld, RowsHold
<1>2. /\ DOMAIN done = {"hash", "revision", "status"} /\ done.status = "completed"
      /\ done.hash = r.hash /\ done.revision = r.revision
  BY <1>1 DEF RowHolds
<1>3. copyReservations' = [copyReservations EXCEPT ![row] = done]
  BY DEF Completes
<1> HIDE DEF done
<1>4. /\ DOMAIN copyReservations' = DOMAIN copyReservations
      /\ copyReservations'[row] = done
      /\ \A o \in DOMAIN copyReservations : o # row => copyReservations'[o] = copyReservations[o]
  BY <1>1, <1>3
<1>5. HistoriesHold' /\ HistoriesGrow
  BY DEF HistoriesHold, HistoriesGrow
<1>6. RowsGrow
  BY <1>1, <1>2, <1>4 DEF RowsGrow
<1>7. RowHolds(row, done)
  BY <1>1, <1>2 DEF RowHolds
<1>8. RowsHold'
  <2>1. SUFFICES ASSUME NEW o \in DOMAIN copyReservations', NEW x, x = copyReservations'[o]
                 PROVE  RowHolds(o, x)'
    BY DEF RowsHold
  <2>2. RowHolds(o, x)
    BY <1>4, <1>7, <2>1 DEF RowsHold
  <2> QED BY <1>5, <2>2, RowStays
<1>9. IsHeld(request, [revision |-> held.revision, status |-> "completed"])'
  BY <1>1, <1>2, <1>4 DEF IsHeld
<1> QED BY <1>5, <1>6, <1>8, <1>9

LEMMA MatchesIsMade ==
  ASSUME NEW call, IsRequest(call.request)
  PROVE  Matches(call) <=> Made(Row(call.request), HashOf(call.request), call.held.revision)
<1>1. Built(call.request, call.held.revision) =
        BuiltFor(Row(call.request), HashOf(call.request), call.held.revision)
  BY DEF Built, BuiltFor, Row, HashOf
<1>2. HashOf(call.request).dest = call.request.dest
  BY DEF HashOf
<1> QED BY <1>1, <1>2 DEF Matches, Made

LEMMA TellsKeeps ==
  ASSUME CopiesIInv, NEW w \in Copiers, UNCHANGED histories, NEW kind \in {"replay", "made"},
         IsRequest(copiers[w].request), IsHeld(copiers[w].request, copiers[w].held),
         Made(Row(copiers[w].request), HashOf(copiers[w].request), copiers[w].held.revision),
         Completes(copiers[w].request), Tells(w, kind, copiers[w].request, copiers[w].held),
         kind = "made" => copiers[w].at = "created"
  PROVE  CopiesIInv'
<1>1. PICK request, held : request = copiers[w].request /\ held = copiers[w].held
  OBVIOUS
<1> DEFINE told == [kind |-> kind, request |-> request, revision |-> held.revision]
<1>2. /\ copiers' = [copiers EXCEPT ![w] = AtRest] /\ copied' = copied \cup {told}
      /\ IsHeld(request, held) /\ Made(Row(request), HashOf(request), held.revision)
      /\ Completes(request) /\ request.dest \in Destinations
  BY <1>1 DEF Tells, IsRequest
<1>3. /\ HistoriesHold' /\ HistoriesGrow /\ RowsHold' /\ RowsGrow
      /\ IsHeld(request, [revision |-> held.revision, status |-> "completed"])'
  BY <1>2, CompletesKeeps DEF CopiesIInv
<1>4. CallsHold'
  BY <1>2, <1>3, AtRestHolds, CallGoesOn DEF CopiesIInv
<1>5. told.kind = kind /\ told.request = request /\ told.revision = held.revision
  OBVIOUS
<1> HIDE DEF told
<1>6. AnswerHolds(told)'
  BY <1>3, <1>5 DEF AnswerHolds
<1>7. \A answer \in copied' : AnswerHolds(answer)' /\ answer.request.dest \in Destinations
  BY <1>2, <1>3, <1>5, <1>6, AnswersStay DEF CopiesIInv
<1>8. OneMaker'
  <2>1. CASE kind = "replay"
    BY <1>2, <1>5, <2>1, NoNewMaker, AtRestHolds DEF CopiesIInv
  <2>2. CASE kind = "made"
    <3>1. /\ \A v \in Copiers : \A dest \in Destinations :
               MakesIt(v, dest)' => MakesIt(v, dest) /\ v # w
          /\ \A dest \in Destinations : MadeIt(told, dest) => MakesIt(w, dest)
      BY <1>1, <1>2, <1>5, <2>2, AtRestHolds DEF CopiesIInv, CallsHold, MakesIt, MadeIt
    <3>2. \A v, u \in Copiers : \A dest \in Destinations :
            MakesIt(v, dest)' /\ MakesIt(u, dest)' => v = u
      BY <3>1 DEF CopiesIInv, OneMaker
    <3>3. \A v \in Copiers : \A answer \in copied' : \A dest \in Destinations :
            ~ (MakesIt(v, dest)' /\ MadeIt(answer, dest))
      BY <1>2, <3>1 DEF CopiesIInv, OneMaker
    <3>4. \A a, b \in copied' : \A dest \in Destinations :
            MadeIt(a, dest) /\ MadeIt(b, dest) => a = b
      BY <1>2, <3>1 DEF CopiesIInv, OneMaker
    <3> QED BY <3>2, <3>3, <3>4 DEF OneMaker, MadeIt
  <2> QED BY <2>1, <2>2
<1> QED BY <1>3, <1>4, <1>7, <1>8 DEF CopiesIInv

LEMMA AnswersReplayKeeps ==
  ASSUME CopiesIInv, NEW w \in Copiers, UNCHANGED histories,
         copiers[w].at \in {"comparing", "raced"}, AnswersReplay(w, copiers[w])
  PROVE  CopiesIInv'
<1>1. IsRequest(copiers[w].request) /\ IsHeld(copiers[w].request, copiers[w].held)
  BY CallOf DEF CopiesIInv, CallHolds
<1>2. CASE Matches(copiers[w])
  <2>1. /\ Completes(copiers[w].request)
        /\ Tells(w, "replay", copiers[w].request, copiers[w].held)
    BY <1>2 DEF AnswersReplay
  <2>2. Made(Row(copiers[w].request), HashOf(copiers[w].request), copiers[w].held.revision)
    BY <1>1, <1>2, MatchesIsMade
  <2> QED BY <1>1, <2>1, <2>2, TellsKeeps
<1>3. CASE ~ Matches(copiers[w])
  BY <1>3, RefusesKeeps DEF AnswersReplay
<1> QED BY <1>2, <1>3

LEMMA CompareFirstKeeps ==
  ASSUME CopiesIInv, NEW w \in Copiers, CompareFirst(w)
  PROVE  CopiesIInv'
<1> DEFINE old == copiers[w]
<1>1. /\ old.at = "comparing" /\ IsRequest(old.request) /\ IsHeld(old.request, old.held)
      /\ UNCHANGED histories
  BY CallOf DEF CopiesIInv, CallHolds, CompareFirst
<1>2. old.held.status = "completed" => Matches(old)
  BY <1>1, HeldPins, MatchesIsMade DEF CopiesIInv
<1>3. CASE old.held.status # "completed" /\ ~ IsThere(old.request.dest)
  <2>1. /\ GoesOn(w, "creating", old.request, old.held)
        /\ UNCHANGED <<copyReservations, copied>>
    BY <1>3 DEF CompareFirst
  <2> DEFINE call == [at |-> "creating", request |-> old.request, held |-> old.held]
  <2>2. call.at = "creating" /\ call.request = old.request /\ call.held = old.held
    OBVIOUS
  <2>3. copiers' = [copiers EXCEPT ![w] = call]
    BY <2>1 DEF GoesOn
  <2> HIDE DEF call, old
  <2>4. CallHolds(call)
    BY <1>1, <2>2 DEF CallHolds
  <2> QED BY <1>1, <2>1, <2>2, <2>3, <2>4, OnlyMoves
<1>4. CASE ~ (old.held.status # "completed" /\ ~ IsThere(old.request.dest))
  <2>1. AnswersReplay(w, old)
    BY <1>2, <1>4 DEF CompareFirst
  <2> QED BY <1>1, <2>1, AnswersReplayKeeps
<1> QED BY <1>3, <1>4

LEMMA CompareRacedKeeps ==
  ASSUME CopiesIInv, NEW w \in Copiers, CompareRaced(w)
  PROVE  CopiesIInv'
BY AnswersReplayKeeps DEF CompareRaced

LEMMA CompleteCopyKeeps ==
  ASSUME CopiesIInv, NEW w \in Copiers, CompleteCopy(w)
  PROVE  CopiesIInv'
<1>1. /\ IsRequest(copiers[w].request) /\ IsHeld(copiers[w].request, copiers[w].held)
      /\ Made(Row(copiers[w].request), HashOf(copiers[w].request), copiers[w].held.revision)
      /\ copiers[w].at = "created"
  BY CallOf DEF CopiesIInv, CallHolds, CompleteCopy
<1> QED BY <1>1, TellsKeeps DEF CompleteCopy

\* Histories in which one has another draft, at its end.
LEMMA HistoryAppended ==
  ASSUME HistoriesHold, NEW q \in AllQuests, NEW c, Len(histories[q]) <= LastRevision,
         histories' = [histories EXCEPT ![q] = Append(@, c)],
         Fits(q, c), q \in Originals => c \in Versions
  PROVE  HistoriesHold' /\ HistoriesGrow
<1>1. /\ DOMAIN histories' = AllQuests /\ histories'[q] = Append(histories[q], c)
      /\ \A o \in AllQuests : o # q => histories'[o] = histories[o]
  BY DEF HistoriesHold
<1>2. /\ IsSequence(histories'[q]) /\ Len(histories[q]) \in Nat
      /\ DOMAIN histories[q] = 1..Len(histories[q])
      /\ Len(histories'[q]) = Len(histories[q]) + 1
      /\ DOMAIN histories'[q] = 1..(Len(histories[q]) + 1)
      /\ \A i \in 1..Len(histories[q]) : histories'[q][i] = histories[q][i]
      /\ histories'[q][Len(histories[q]) + 1] = c
  BY <1>1, AppendAny DEF HistoriesHold
<1>3. HistoriesGrow
  BY <1>1, <1>2 DEF HistoriesGrow
<1>4. ASSUME NEW o \in AllQuests
      PROVE  /\ IsSequence(histories'[o]) /\ Len(histories'[o]) <= LastRevision + 1
             /\ \A i \in DOMAIN histories'[o] : Fits(o, histories'[o][i])
             /\ o \in Originals =>
                  \A i \in DOMAIN histories'[o] : histories'[o][i] \in Versions
  <2>1. CASE o # q
    BY <1>1, <2>1 DEF HistoriesHold
  <2>2. CASE o = q
    <3>1. Len(histories'[o]) <= LastRevision + 1
      BY <1>2, <2>2, CopyAssumption
    <3>2. \A i \in DOMAIN histories'[o] : i \in DOMAIN histories[o] \/ i = Len(histories[o]) + 1
      BY <1>2, <2>2
    <3> QED BY <1>2, <2>2, <3>1, <3>2 DEF HistoriesHold
  <2> QED BY <2>1, <2>2
<1> QED BY <1>1, <1>3, <1>4 DEF HistoriesHold, Fits, AllQuests

LEMMA AuthorSavesKeeps ==
  ASSUME CopiesIInv, NEW q \in AllQuests, NEW content \in Versions, AuthorSaves(q, content)
  PROVE  CopiesIInv'
<1>1. HistoriesHold' /\ HistoriesGrow
  BY HistoryAppended, CopyAssumption DEF AuthorSaves, CopiesIInv, Fits
<1>2. RowsHold' /\ RowsGrow
  BY <1>1, RowsStay DEF CopiesIInv, AuthorSaves
<1>3. CallsHold'
  BY <1>1, <1>2, CallStays DEF CopiesIInv, CallsHold, AuthorSaves
<1>4. \A answer \in copied' : AnswerHolds(answer)' /\ answer.request.dest \in Destinations
  BY <1>2, AnswersStay DEF CopiesIInv, AuthorSaves
<1>5. OneMaker'
  BY DEF CopiesIInv, AuthorSaves, OneMaker, MakesIt, MadeIt
<1> QED BY <1>1, <1>2, <1>3, <1>4, <1>5 DEF CopiesIInv

LEMMA CreateCopyKeeps ==
  ASSUME CopiesIInv, NEW w \in Copiers, CreateCopy(w)
  PROVE  CopiesIInv'
<1>1. PICK request, held : request = copiers[w].request /\ held = copiers[w].held
  OBVIOUS
<1>2. /\ copiers[w].at = "creating" /\ IsRequest(request) /\ IsHeld(request, held)
      /\ UNCHANGED <<copyReservations, copied>>
  BY <1>1, CallOf DEF CopiesIInv, CallHolds, CreateCopy
<1>3. PICK at : /\ at = IF IsThere(request.dest) THEN "raced" ELSE "created"
                /\ GoesOn(w, at, request, held)
  BY <1>1 DEF CreateCopy
<1> DEFINE call == [at |-> at, request |-> request, held |-> held]
<1>4. call.at = at /\ call.request = request /\ call.held = held
  OBVIOUS
<1>5. copiers' = [copiers EXCEPT ![w] = call]
  BY <1>3 DEF GoesOn
<1> HIDE DEF call
<1>6. CASE IsThere(request.dest)
  <2>1. UNCHANGED histories
    BY <1>1, <1>6 DEF CreateCopy
  <2>2. CallHolds(call)
    BY <1>2, <1>3, <1>4, <1>6 DEF CallHolds
  <2> QED BY <1>2, <1>3, <1>4, <1>5, <1>6, <2>1, <2>2, OnlyMoves
<1>7. CASE ~ IsThere(request.dest)
  <2> DEFINE row == Row(request)
             hash == HashOf(request)
             built == BuiltFor(row, hash, held.revision)
             dest == request.dest
  <2>1. /\ dest \in Destinations /\ dest \in AllQuests /\ dest \notin Originals
        /\ hash.dest = dest /\ histories[dest] = <<>>
    BY <1>2, <1>7, CopyAssumption DEF IsRequest, AllQuests, HashOf, IsThere
  <2>2. Pins(row, hash, held.revision)
    BY <1>2, HeldPins DEF CopiesIInv
  <2>3. Built(request, held.revision) = built
    BY <1>2 DEF Built, BuiltFor, Row, HashOf
  <2>4. histories' = [histories EXCEPT ![dest] = Append(@, built)]
    <3>1. histories' = [histories EXCEPT ![dest] = <<built>>]
      BY <1>1, <1>7, <2>3 DEF CreateCopy
    <3>2. Append(<<>>, built) = <<built>>
      OBVIOUS
    <3> QED BY <2>1, <3>1, <3>2
  <2>5. Fits(dest, built)
    <3>1. CASE row[1] = "clone"
      <4>1. /\ row[2] \in AllQuests /\ row[2] # dest
            /\ held.revision + 1 \in DOMAIN histories[row[2]]
        BY <2>1, <2>2, <3>1 DEF Pins
      <4>2. IsDraft(SnapshotOf(row[2], held.revision))
        BY <4>1 DEF CopiesIInv, HistoriesHold, Fits, SnapshotOf
      <4> QED BY <3>1, <4>1, <4>2, <2>1, CloneFits DEF BuiltFor
    <3>2. CASE row[1] = "import"
      <4>1. built \in Versions
        BY <2>2, <3>2 DEF Pins, BuiltFor, ContentIn, SnapshotOf, CopiesIInv, HistoriesHold
      <4> QED BY <2>1, <4>1, CopyAssumption DEF Fits
    <3> QED BY <2>2, <3>1, <3>2 DEF Pins
  <2>6. HistoriesHold' /\ HistoriesGrow
    <3>1. Len(histories[dest]) <= LastRevision
      BY <2>1, CopyAssumption
    <3> QED BY <2>1, <2>4, <2>5, <3>1, HistoryAppended DEF CopiesIInv
  <2>7. RowsHold' /\ RowsGrow
    BY <1>2, <2>6, RowsStay DEF CopiesIInv
  <2>8. Made(row, hash, held.revision)'
    <3>1. histories'[dest] = <<built>>
      BY <2>1, <2>4 DEF CopiesIInv, HistoriesHold
    <3>2. BuiltFor(row, hash, held.revision)' = built
      BY <2>2, <2>6, PinsStay DEF CopiesIInv
    <3>3. <<built>> # <<>> /\ <<built>>[0 + 1] = built
      OBVIOUS
    <3> QED BY <2>1, <3>1, <3>2, <3>3 DEF Made, IsThere, SnapshotOf
  <2> HIDE DEF row, hash, built, dest
  <2>9. CallHolds(call)'
    <3>1. IsRequest(request)' /\ IsHeld(request, held)'
      BY <1>2, <2>6, <2>7, RequestStays, HeldStays
    <3>2. Made(Row(request), HashOf(request), held.revision)'
      BY <2>8 DEF row, hash
    <3> QED BY <1>3, <1>4, <1>7, <3>1, <3>2 DEF CallHolds
  <2>10. CallsHold'
    BY <1>5, <2>6, <2>7, <2>9, CallGoesOn DEF CopiesIInv
  <2>11. \A answer \in copied' : AnswerHolds(answer)' /\ answer.request.dest \in Destinations
    BY <1>2, <2>7, AnswersStay DEF CopiesIInv
  <2>12. OneMaker'
    <3>1. \A v \in Copiers : ~ MakesIt(v, dest)
      <4>1. SUFFICES ASSUME NEW v \in Copiers, MakesIt(v, dest) PROVE FALSE
        OBVIOUS
      <4>2. Made(Row(copiers[v].request), HashOf(copiers[v].request), copiers[v].held.revision)
        BY <4>1, CallOf DEF CopiesIInv, CallHolds, MakesIt
      <4> QED BY <1>7, <4>1, <4>2 DEF Made, HashOf, MakesIt, dest
    <3>2. \A answer \in copied : ~ MadeIt(answer, dest)
      <4>1. SUFFICES ASSUME NEW answer \in copied, MadeIt(answer, dest) PROVE FALSE
        OBVIOUS
      <4> DEFINE told == [revision |-> answer.revision, status |-> "completed"]
      <4>2. IsHeld(answer.request, told) /\ told.status = "completed"
        BY <4>1 DEF CopiesIInv, AnswerHolds
      <4>3. Made(Row(answer.request), HashOf(answer.request), told.revision)
        BY <4>2, HeldPins DEF CopiesIInv
      <4> QED BY <1>7, <4>1, <4>3 DEF Made, HashOf, MadeIt, dest
    <3>3. \A v \in Copiers : \A d \in Destinations :
            MakesIt(v, d)' => MakesIt(v, d) \/ (v = w /\ d = dest)
      BY <1>4, <1>5 DEF CopiesIInv, CallsHold, MakesIt, dest
    <3>4. \A v, u \in Copiers : \A d \in Destinations :
            MakesIt(v, d)' /\ MakesIt(u, d)' => v = u
      BY <3>1, <3>3 DEF CopiesIInv, OneMaker
    <3>5. \A v \in Copiers : \A answer \in copied : \A d \in Destinations :
            ~ (MakesIt(v, d)' /\ MadeIt(answer, d))
      BY <3>2, <3>3 DEF CopiesIInv, OneMaker
    <3> QED BY <1>2, <3>4, <3>5 DEF CopiesIInv, OneMaker, MadeIt
  <2> QED BY <2>6, <2>7, <2>10, <2>11, <2>12 DEF CopiesIInv
<1> QED BY <1>6, <1>7

LEMMA CrashCopiesKeeps ==
  ASSUME CopiesIInv, CrashCopies
  PROVE  CopiesIInv'
<1>1. copiers' = [w \in Copiers |-> AtRest] /\ UNCHANGED <<histories, copyReservations, copied>>
  BY DEF CrashCopies
<1>2. HistoriesHold' /\ HistoriesGrow
  BY <1>1 DEF CopiesIInv, HistoriesHold, HistoriesGrow
<1>3. RowsHold' /\ RowsGrow
  BY <1>1, <1>2, RowsStay DEF CopiesIInv
<1>4. CallsHold'
  BY <1>1, AtRestHolds DEF CallsHold
<1>5. \A answer \in copied' : AnswerHolds(answer)' /\ answer.request.dest \in Destinations
  BY <1>1, <1>3, AnswersStay DEF CopiesIInv
<1>6. OneMaker'
  BY <1>1, AtRestHolds DEF CopiesIInv, OneMaker, MakesIt, MadeIt
<1> QED BY <1>2, <1>3, <1>4, <1>5, <1>6 DEF CopiesIInv

LEMMA CopiesIdle == CopiesIInv /\ UNCHANGED copyVars => CopiesIInv'
<1> SUFFICES ASSUME CopiesIInv, UNCHANGED copyVars PROVE CopiesIInv'
  OBVIOUS
<1>1. UNCHANGED <<histories, copyReservations, copiers, copied>>
  BY DEF copyVars
<1>2. HistoriesHold' /\ HistoriesGrow
  BY <1>1 DEF CopiesIInv, HistoriesHold, HistoriesGrow
<1>3. RowsHold' /\ RowsGrow
  BY <1>1, <1>2, RowsStay DEF CopiesIInv
<1>4. CallsHold'
  BY <1>1, <1>2, <1>3, CallStays DEF CopiesIInv, CallsHold
<1>5. \A answer \in copied' : AnswerHolds(answer)' /\ answer.request.dest \in Destinations
  BY <1>1, <1>3, AnswersStay DEF CopiesIInv
<1>6. OneMaker'
  BY <1>1 DEF CopiesIInv, OneMaker, MakesIt, MadeIt
<1> QED BY <1>2, <1>3, <1>4, <1>5, <1>6 DEF CopiesIInv

LEMMA CopiesInitially == CopiesInit => CopiesIInv
<1> SUFFICES ASSUME CopiesInit PROVE CopiesIInv
  OBVIOUS
<1>1. DOMAIN copyReservations = {} /\ copied = {}
  BY DEF CopiesInit
<1>2. HistoriesHold
  <2>1. DOMAIN histories = AllQuests
    BY DEF CopiesInit
  <2>2. ASSUME NEW q \in AllQuests
        PROVE  /\ IsSequence(histories[q]) /\ Len(histories[q]) <= LastRevision + 1
               /\ \A i \in DOMAIN histories[q] : histories[q][i] \in Versions
    <3>1. histories[q] = <<>> \/ \E v \in Versions : histories[q] = <<v>>
      BY <2>2 DEF CopiesInit
    <3>2. CASE histories[q] = <<>>
      BY <3>2, CopyAssumption DEF IsSequence
    <3>3. CASE \E v \in Versions : histories[q] = <<v>>
      <4>1. PICK v \in Versions : histories[q] = <<v>>
        BY <3>3
      <4>2. <<v>> \in Seq(Versions) /\ Len(<<v>>) = 1 /\ DOMAIN <<v>> = {1} /\ <<v>>[1] = v
        OBVIOUS
      <4> QED BY <4>1, <4>2, CopyAssumption DEF IsSequence
    <3> QED BY <3>1, <3>2, <3>3
  <2> QED BY <2>1, <2>2, CopyAssumption DEF HistoriesHold, Fits, AllQuests
<1>3. CallsHold
  BY AtRestHolds DEF CopiesInit, CallsHold
<1>4. OneMaker
  BY <1>1, AtRestHolds DEF CopiesInit, OneMaker, MakesIt
<1> QED BY <1>1, <1>2, <1>3, <1>4 DEF CopiesIInv, RowsHold

LEMMA RequestsAre ==
  ASSUME CopiesIInv
  PROVE  /\ \A q \in AllQuests : \A dest \in Destinations : \A title, key :
              q # dest => IsRequest(CloneRequest(q, dest, title, key))
         /\ \A q \in Originals : \A r \in 0..Latest(q) : \A intact, key :
              \A dest \in Destinations :
                IsRequest(ImportRequest(Package(q, r, intact), dest, key))
<1>1. \A q \in Originals : \A r \in 0..Latest(q) : r + 1 \in DOMAIN histories[q]
  BY HistoryFacts DEF CopiesIInv, Latest, AllQuests
<1> QED BY <1>1 DEF IsRequest, CloneRequest, ImportRequest, Package

LEMMA CopiesStep == CopiesIInv /\ [CopiesNext]_copyVars => CopiesIInv'
<1> SUFFICES ASSUME CopiesIInv, [CopiesNext]_copyVars PROVE CopiesIInv'
  OBVIOUS
<1>1. ASSUME NEW w \in Copiers, AsksClone(w) \/ AsksImport(w)
      PROVE  CopiesIInv'
  BY <1>1, RequestsAre, BeginCopyKeeps DEF AsksClone, AsksImport
<1>2. ASSUME NEW w \in Copiers, ReadArchive(w) \/ FindSource(w) \/ ReserveKey(w)
      PROVE  CopiesIInv'
  BY <1>2, ReadArchiveKeeps, FindSourceKeeps, ReserveKeyKeeps
<1>3. ASSUME NEW w \in Copiers,
             CompareFirst(w) \/ CreateCopy(w) \/ CompleteCopy(w) \/ CompareRaced(w)
      PROVE  CopiesIInv'
  BY <1>3, CompareFirstKeeps, CreateCopyKeeps, CompleteCopyKeeps, CompareRacedKeeps
<1>4. CASE \E q \in AllQuests, content \in Versions : AuthorSaves(q, content)
  BY <1>4, AuthorSavesKeeps
<1>5. CASE CrashCopies
  BY <1>5, CrashCopiesKeeps
<1>6. CASE UNCHANGED copyVars
  BY <1>6, CopiesIdle
<1> QED BY <1>1, <1>2, <1>3, <1>4, <1>5, <1>6 DEF CopiesNext

LEMMA MadeIsTheCopy ==
  ASSUME CopiesIInv, NEW row \in DOMAIN copyReservations,
         copyReservations[row].status = "completed"
  PROVE  LET dest == copyReservations[row].hash.dest IN
         IsThere(dest) /\ IsTheCopy(SnapshotOf(dest, 0), row)
<1> DEFINE r == copyReservations[row]
           dest == r.hash.dest
<1>1. Pins(row, r.hash, r.revision) /\ Made(row, r.hash, r.revision)
  BY DEF CopiesIInv, RowsHold, RowHolds
<1>2. IsThere(dest) /\ SnapshotOf(dest, 0) = BuiltFor(row, r.hash, r.revision)
  BY <1>1 DEF Made
<1>3. CASE row[1] = "clone"
  <2> DEFINE old == SnapshotOf(row[2], r.revision)
             new == CloneOf(old, row[2], r.revision, dest, r.hash.title)
  <2>1. /\ row[2] \in AllQuests /\ dest \in Destinations
        /\ r.revision \in Nat /\ r.revision + 1 \in DOMAIN histories[row[2]]
    BY <1>1, <1>3 DEF Pins
  <2>2. Fits(row[2], old)
    BY <2>1 DEF CopiesIInv, HistoriesHold, SnapshotOf
  <2>3. r.revision \in 0..LastRevision
    BY <2>1, HistoryFacts, CopyAssumption DEF CopiesIInv, HistoriesHold
  <2>4. new.title = r.hash.title
    BY <2>2, BlocksOfClones DEF Fits
  <2>5. IsClone(new, old)
    BY <2>1, <2>2, <2>3, CloneIsClone
  <2>6. SnapshotOf(dest, 0) = new
    BY <1>2, <1>3 DEF BuiltFor
  <2> QED BY <1>2, <1>3, <2>4, <2>5, <2>6 DEF IsTheCopy
<1>4. CASE row[1] = "import"
  BY <1>1, <1>2, <1>4 DEF Pins, BuiltFor, IsTheCopy
<1> QED BY <1>1, <1>3, <1>4 DEF Pins

\* A key that is completed, and every answer given under it, name one quest: the copy of
\* the revision that the key pinned, as it was first made, whoever edits, creates, retries
\* or crashes meanwhile, and one call at most is told that it made it (executeClone,
\* executeImport).
THEOREM CopiesAreTrue == CopiesSpec => []CopiesComeTrue
<1>1. CopiesIInv => CopiesComeTrue
  <2> SUFFICES ASSUME CopiesIInv PROVE CopiesComeTrue
    OBVIOUS
  <2>1. \A answer \in copied :
          LET held == Held(answer.request) IN
          /\ held.status = "completed" /\ held.hash = HashOf(answer.request)
          /\ answer.kind # "corrupt"
          /\ answer.revision = held.revision
    <3>1. SUFFICES ASSUME NEW answer \in copied
                   PROVE  LET held == Held(answer.request) IN
                          /\ held.status = "completed" /\ held.hash = HashOf(answer.request)
                          /\ answer.kind # "corrupt"
                          /\ answer.revision = held.revision
      OBVIOUS
    <3>2. /\ IsHeld(answer.request, [revision |-> answer.revision, status |-> "completed"])
          /\ answer.kind # "corrupt"
      BY DEF CopiesIInv, AnswerHolds
    <3> QED BY <3>2 DEF IsHeld, Held
  <2>2. \A a, b \in copied :
          a.kind = "made" /\ b.kind = "made" /\ a.request.dest = b.request.dest => a = b
    BY DEF CopiesIInv, OneMaker, MadeIt
  <2> QED BY <2>1, <2>2, MadeIsTheCopy DEF CopiesComeTrue
<1> QED BY CopiesInitially, CopiesStep, <1>1, PTL DEF CopiesSpec
=============================================================================
