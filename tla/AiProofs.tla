------------------------------- MODULE AiProofs -------------------------------
(***************************************************************************)
(* Proofs about the AI connections, for every number of calls, sessions,   *)
(* turns and logins: the account and its author backend (CodexAccount),    *)
(* the two model calls of an action (RuntimeModels), the backend over a    *)
(* model provider (ModelAuthor), and, of the jobs it works for, the reads  *)
(* of references (ReferenceReads) and the conversation with the author     *)
(* (AuthorConversation).  Each part has an inductive invariant of its own. *)
(***************************************************************************)
EXTENDS CodexAccount, ModelAuthor, RuntimeModels, ReferenceReads, AuthorConversation,
        SequenceTheorems, FiniteSetTheorems, TLAPS

-----------------------------------------------------------------------------
(* The account and the threads.  A generation only grows.  An opening saw  *)
(* a generation of the past, the thread it is answered with was started in *)
(* that one or a later one, and no thread in a later one than now.  So a   *)
(* session whose generation is the lease's works on a thread of exactly    *)
(* that generation, and what was admitted then stays true.                 *)

Leases == [generation : Nat, account : Accounts \cup {NoAccount}]
Threads == [startedIn : Nat, held : BOOLEAN]
Sessions == [thread : Nat, generation : Nat, account : Accounts \cup {NoAccount},
             turn : BOOLEAN, open : BOOLEAN]
Openings == [op : {"initialize", "start"}, seen : Leases]
Starteds == [op : {"started"}, seen : Leases, thread : Nat]
Admissions == [op : {"turn", "interrupt", "release"}, session : Nat, closes : BOOLEAN,
               admittedIn : Nat]
CodexCalls == {Idle} \cup Openings \cup Starteds \cup Admissions

BackendTyped ==
  /\ lease \in Leases
  /\ threads \in Seq(Threads)
  /\ sessions \in Seq(Sessions)
  /\ authorCalls \in [AuthorCalls -> CodexCalls]

\* No thread is of a later generation than the lease, and no opening saw one.
ThePastIsPast ==
  /\ \A n \in 1 .. Len(threads) : threads[n].startedIn <= lease.generation
  /\ \A b \in AuthorCalls : authorCalls[b].op \in {"initialize", "start", "started"} =>
       authorCalls[b].seen.generation <= lease.generation

\* The thread of an opening, or of a session, is no older than what the opening saw.
SeenBeforeStarted ==
  /\ \A b \in AuthorCalls : authorCalls[b].op = "started" =>
       /\ authorCalls[b].thread \in 1 .. Len(threads)
       /\ authorCalls[b].seen.generation <= threads[authorCalls[b].thread].startedIn
  /\ \A s \in 1 .. Len(sessions) :
       /\ sessions[s].thread \in 1 .. Len(threads)
       /\ sessions[s].generation <= threads[sessions[s].thread].startedIn

AdmittedToASession ==
  \A b \in AuthorCalls : authorCalls[b].op \in {"turn", "interrupt", "release"} =>
    authorCalls[b].session \in 1 .. Len(sessions)

CodexIInv ==
  /\ BackendTyped /\ ThePastIsPast /\ SeenBeforeStarted /\ AdmittedToASession
  /\ ThreadsServeTheirLogin

LEMMA CodexStarts == CodexInit => CodexIInv
<1> SUFFICES ASSUME CodexInit PROVE CodexIInv
  OBVIOUS
<1>1. BackendTyped
  BY DEF CodexInit, BackendTyped, Leases, CodexCalls
<1>2. \A b \in AuthorCalls : authorCalls[b].op = "idle"
  BY DEF CodexInit, Idle
<1>3. QED
  BY <1>1, <1>2 DEF CodexInit, CodexIInv, ThePastIsPast, SeenBeforeStarted,
     AdmittedToASession, ThreadsServeTheirLogin

\* The controller only moves the lease on.
LEMMA LeaseMovesOn ==
  ASSUME CodexIInv, AccountStep
  PROVE /\ UNCHANGED authorVars
        /\ lease' \in Leases
        /\ lease'.generation >= lease.generation
<1> USE DEF CodexIInv, BackendTyped, Leases
<1>1. lease.generation \in Nat /\ lease.account \in Accounts \cup {NoAccount}
  OBVIOUS
<1>2. CASE RotateCredentialRevision
  BY <1>1, <1>2 DEF RotateCredentialRevision, InvalidateLocalState, Invalidated
<1>3. CASE Close
  BY <1>1, <1>3 DEF Close, InvalidateLocalState, Invalidated
<1>4. ASSUME NEW c \in AccountCalls, LoginRefused(c) \/ IdentityRefused(c) \/ LoggedOut(c)
      PROVE /\ UNCHANGED authorVars
            /\ lease' \in Leases
            /\ lease'.generation >= lease.generation
  BY <1>1, <1>4 DEF LoginRefused, IdentityRefused, LoggedOut, InvalidateLocalState, Invalidated
<1>5. ASSUME NEW c \in AccountCalls, IdentityRead(c)
      PROVE /\ UNCHANGED authorVars
            /\ lease' \in Leases
            /\ lease'.generation >= lease.generation
  BY <1>1, <1>5 DEF IdentityRead, Activated
<1>6. ASSUME NEW c \in AccountCalls,
             \/ StartLogin(c) \/ LoginStarted(c) \/ CompleteLogin(c) \/ LoginCompleted(c)
             \/ CancelLogin(c) \/ LoginCancelled(c) \/ ReadIdentity(c) \/ ReadRateLimits(c)
             \/ LimitsRead(c) \/ Logout(c) \/ AccountRequestFails(c)
      PROVE UNCHANGED <<authorVars, lease>>
  BY <1>6 DEF StartLogin, LoginStarted, CompleteLogin, LoginCompleted, CancelLogin,
     LoginCancelled, ReadIdentity, ReadRateLimits, LimitsRead, Logout, AccountRequestFails,
     LocalStateKept
<1>7. QED
  BY <1>1, <1>2, <1>3, <1>4, <1>5, <1>6 DEF AccountStep

LEMMA AccountStepsKeep ==
  ASSUME CodexIInv, AccountStep
  PROVE CodexIInv'
<1>1. /\ threads' = threads /\ sessions' = sessions /\ authorCalls' = authorCalls
      /\ lease' \in Leases
      /\ lease'.generation >= lease.generation
  BY LeaseMovesOn DEF authorVars
<1>2. BackendTyped'
  BY <1>1 DEF CodexIInv, BackendTyped
<1>3. ThePastIsPast'
  <2>1. lease.generation \in Nat /\ lease'.generation \in Nat
    BY <1>1 DEF CodexIInv, BackendTyped, Leases
  <2>2. ASSUME NEW n \in 1 .. Len(threads) PROVE threads[n].startedIn \in Nat
    <3>1. threads[n] \in Threads
      BY ElementOfSeq DEF CodexIInv, BackendTyped
    <3>2. QED
      BY <3>1 DEF Threads
  <2>3. \A b \in AuthorCalls : authorCalls[b].op \in {"initialize", "start", "started"} =>
          authorCalls[b].seen.generation \in Nat
    BY DEF CodexIInv, BackendTyped, CodexCalls, Openings, Starteds, Admissions, Idle, Leases
  <2>4. \A n \in 1 .. Len(threads) : threads[n].startedIn <= lease'.generation
    BY <1>1, <2>1, <2>2 DEF CodexIInv, ThePastIsPast
  <2>5. \A b \in AuthorCalls : authorCalls[b].op \in {"initialize", "start", "started"} =>
          authorCalls[b].seen.generation <= lease'.generation
    BY <1>1, <2>1, <2>3 DEF CodexIInv, ThePastIsPast
  <2>6. QED
    BY <1>1, <2>4, <2>5 DEF ThePastIsPast
<1>4. QED
  BY <1>1, <1>2, <1>3 DEF CodexIInv, SeenBeforeStarted, AdmittedToASession,
     ThreadsServeTheirLogin

\* A call b that leaves threads, sessions and lease alone keeps the invariant when the
\* new state of the call is as good as the old ones.
LEMMA CallKeeps ==
  ASSUME CodexIInv, NEW b \in AuthorCalls, NEW call \in CodexCalls, Asks(b, call),
         lease' = lease, threads' = threads, sessions' = sessions,
         call.op \in {"initialize", "start", "started"} =>
           call.seen.generation <= lease.generation,
         call.op # "started",
         call.op \in {"turn", "interrupt", "release"} =>
           /\ call.session \in 1 .. Len(sessions)
           /\ threads[sessions[call.session].thread].startedIn = call.admittedIn
  PROVE CodexIInv'
<1>1. /\ authorCalls' \in [AuthorCalls -> CodexCalls]
      /\ authorCalls'[b] = call
      /\ \A x \in AuthorCalls : x # b => authorCalls'[x] = authorCalls[x]
  BY DEF Asks, CodexIInv, BackendTyped
<1>2. BackendTyped'
  BY <1>1 DEF CodexIInv, BackendTyped
<1>3. ThePastIsPast'
  BY <1>1 DEF CodexIInv, ThePastIsPast
<1>4. SeenBeforeStarted'
  BY <1>1 DEF CodexIInv, SeenBeforeStarted
<1>5. AdmittedToASession'
  BY <1>1 DEF CodexIInv, AdmittedToASession
<1>6. ThreadsServeTheirLogin'
  BY <1>1 DEF CodexIInv, ThreadsServeTheirLogin
<1>7. QED
  BY <1>2, <1>3, <1>4, <1>5, <1>6 DEF CodexIInv

\* A request admitted now is about a thread of the lease's generation.
LEMMA OwnedIsOfNow ==
  ASSUME CodexIInv, NEW s \in 1 .. Len(sessions), Owned(s)
  PROVE threads[sessions[s].thread].startedIn = lease.generation
<1>1. sessions[s] \in Sessions /\ lease.generation \in Nat
  BY ElementOfSeq DEF CodexIInv, BackendTyped, Leases
<1>2. /\ sessions[s].thread \in 1 .. Len(threads)
      /\ sessions[s].generation <= threads[sessions[s].thread].startedIn
  BY DEF CodexIInv, SeenBeforeStarted
<1>3. /\ threads[sessions[s].thread] \in Threads
      /\ threads[sessions[s].thread].startedIn <= lease.generation
  BY <1>2, ElementOfSeq DEF CodexIInv, BackendTyped, ThePastIsPast
<1>4. lease.generation = sessions[s].generation
  BY DEF Owned
<1>5. threads[sessions[s].thread].startedIn \in Nat
  BY <1>3 DEF Threads
<1>6. QED
  BY <1>1, <1>2, <1>3, <1>4, <1>5

LEMMA ClosingIsAdmitted ==
  ASSUME NEW a \in Admissions
  PROVE LET call == [a EXCEPT !.closes = TRUE] IN
        /\ call \in Admissions /\ call.op = a.op /\ call.session = a.session
        /\ call.admittedIn = a.admittedIn
BY DEF Admissions

LEMMA CallsStep ==
  ASSUME CodexIInv, NEW b \in AuthorCalls,
         \/ OpenSession(b) \/ OpeningFails(b) \/ StartAuthorThread(b) \/ RunTurn(b)
         \/ CloseSession(b) \/ AuthorRequestFails(b)
  PROVE CodexIInv'
<1>1. Idle \in CodexCalls /\ Idle.op = "idle"
  BY DEF CodexCalls, Idle
<1>2. authorCalls[b] \in CodexCalls /\ lease \in Leases /\ lease.generation \in Nat
  BY DEF CodexIInv, BackendTyped, Leases
<1>3. CASE OpenSession(b)
  <2> DEFINE call == [op |-> "initialize", seen |-> lease]
  <2>1. call \in CodexCalls
    BY <1>2 DEF CodexCalls, Openings
  <2>2. call.op = "initialize" /\ call.seen.generation <= lease.generation
    BY <1>2
  <2>3. Asks(b, call) /\ lease' = lease /\ threads' = threads /\ sessions' = sessions
    BY <1>3 DEF OpenSession, accountVars
  <2> HIDE DEF call
  <2>4. QED
    BY <2>1, <2>2, <2>3, CallKeeps
<1>4. CASE OpeningFails(b) \/ AuthorRequestFails(b)
  <2>1. Asks(b, Idle) /\ lease' = lease /\ threads' = threads /\ sessions' = sessions
    BY <1>4 DEF OpeningFails, AuthorRequestFails, accountVars, AuthorDone
  <2>2. QED
    BY <1>1, <2>1, CallKeeps
<1>5. CASE StartAuthorThread(b)
  <2> DEFINE call == [authorCalls[b] EXCEPT !.op = "start"]
  <2>1. authorCalls[b] \in Openings /\ authorCalls[b].seen.generation <= lease.generation
    BY <1>2, <1>5 DEF StartAuthorThread, CodexCalls, Openings, Starteds, Admissions, Idle,
       CodexIInv, ThePastIsPast
  <2>2. call \in CodexCalls /\ call.op = "start" /\ call.seen.generation <= lease.generation
    BY <2>1 DEF CodexCalls, Openings
  <2>3. Asks(b, call) /\ lease' = lease /\ threads' = threads /\ sessions' = sessions
    BY <1>5 DEF StartAuthorThread, accountVars
  <2> HIDE DEF call
  <2>4. QED
    BY <2>2, <2>3, CallKeeps
<1>6. CASE RunTurn(b)
  <2>1. PICK s \in 1 .. Len(sessions) : Owned(s) /\ Asks(b, Admitted("turn", s))
    BY <1>6 DEF RunTurn
  <2> DEFINE call == Admitted("turn", s)
  <2>2. /\ call \in CodexCalls /\ call.op = "turn" /\ call.session = s
        /\ call.admittedIn = lease.generation
    BY <1>2 DEF Admitted, CodexCalls, Admissions
  <2>3. threads[sessions[s].thread].startedIn = lease.generation
    BY <2>1, OwnedIsOfNow
  <2>4. lease' = lease /\ threads' = threads /\ sessions' = sessions
    BY <1>6 DEF RunTurn, accountVars
  <2> HIDE DEF call
  <2>5. QED
    BY <2>1, <2>2, <2>3, <2>4, CallKeeps DEF call
<1>7. CASE CloseSession(b)
  <2>1. PICK s \in 1 .. Len(sessions) :
          /\ Owned(s)
          /\ Asks(b, [Admitted(IF sessions[s].turn THEN "interrupt" ELSE "release", s)
                        EXCEPT !.closes = TRUE])
    BY <1>7 DEF CloseSession
  <2> DEFINE op == IF sessions[s].turn THEN "interrupt" ELSE "release"
             call == [Admitted(op, s) EXCEPT !.closes = TRUE]
  <2>2. /\ op \in {"interrupt", "release"}
        /\ Admitted(op, s) \in Admissions /\ Admitted(op, s).op = op
        /\ Admitted(op, s).session = s
        /\ Admitted(op, s).admittedIn = lease.generation
    BY <1>2 DEF Admitted, Admissions
  <2>3. /\ call \in CodexCalls /\ call.op = op /\ call.session = s
        /\ call.admittedIn = lease.generation
    BY <2>2, ClosingIsAdmitted DEF CodexCalls
  <2>4. threads[sessions[s].thread].startedIn = lease.generation
    BY <2>1, OwnedIsOfNow
  <2>5. lease' = lease /\ threads' = threads /\ sessions' = sessions
    BY <1>7 DEF CloseSession, accountVars
  <2>6. Asks(b, call)
    BY <2>1
  <2> HIDE DEF call, op
  <2>7. QED
    BY <2>2, <2>3, <2>4, <2>5, <2>6, CallKeeps
<1>8. QED
  BY <1>3, <1>4, <1>5, <1>6, <1>7

\* The app server starts a thread in the generation of the lease.
LEMMA ThreadStartsStep ==
  ASSUME CodexIInv, NEW b \in AuthorCalls, ThreadStarts(b)
  PROVE CodexIInv'
<1> DEFINE thread == [startedIn |-> lease.generation, held |-> TRUE]
           call == [op |-> "started", seen |-> authorCalls[b].seen, thread |-> Len(threads) + 1]
<1>1. /\ lease' = lease /\ sessions' = sessions /\ threads' = Append(threads, thread)
      /\ Asks(b, call)
  BY DEF ThreadStarts, accountVars
<1>2. lease.generation \in Nat /\ threads \in Seq(Threads) /\ Len(threads) \in Nat
  BY DEF CodexIInv, BackendTyped, Leases
<1>3. thread \in Threads /\ thread.startedIn = lease.generation
  BY <1>2 DEF Threads
<1>4. /\ authorCalls[b] \in Openings
      /\ authorCalls[b].seen \in Leases
      /\ authorCalls[b].seen.generation <= lease.generation
  <2>1. authorCalls[b] \in CodexCalls /\ authorCalls[b].op = "start"
    BY DEF CodexIInv, BackendTyped, ThreadStarts
  <2>2. QED
    BY <2>1 DEF CodexCalls, Openings, Starteds, Admissions, Idle, CodexIInv, ThePastIsPast
<1>5. /\ call \in CodexCalls /\ call.op = "started"
      /\ call.seen.generation <= lease.generation
      /\ call.thread = Len(threads) + 1
  BY <1>2, <1>4 DEF CodexCalls, Starteds
<1>6. /\ threads' \in Seq(Threads) /\ Len(threads') = Len(threads) + 1
      /\ \A n \in 1 .. Len(threads) : threads'[n] = threads[n]
      /\ threads'[Len(threads) + 1] = thread
  <2> HIDE DEF thread
  <2>1. QED
    BY <1>1, <1>2, <1>3, AppendProperties
<1>7. /\ authorCalls' \in [AuthorCalls -> CodexCalls]
      /\ authorCalls'[b] = call
      /\ \A x \in AuthorCalls : x # b => authorCalls'[x] = authorCalls[x]
  <2> HIDE DEF call
  <2>1. QED
    BY <1>1, <1>5 DEF Asks, CodexIInv, BackendTyped
<1> HIDE DEF call, thread
<1>8. BackendTyped'
  BY <1>1, <1>6, <1>7 DEF CodexIInv, BackendTyped
<1>9. ThePastIsPast'
  <2>1. \A n \in 1 .. Len(threads') : threads'[n].startedIn <= lease'.generation
    <3>1. \A n \in 1 .. Len(threads') : n \in 1 .. Len(threads) \/ n = Len(threads) + 1
      BY <1>2, <1>6
    <3>2. QED
      BY <1>1, <1>2, <1>3, <1>6, <3>1 DEF CodexIInv, ThePastIsPast
  <2>2. QED
    BY <1>1, <1>5, <1>7, <2>1 DEF CodexIInv, ThePastIsPast
<1>10. \A n \in 1 .. Len(threads) : n \in 1 .. Len(threads')
  BY <1>2, <1>6
<1>11. SeenBeforeStarted'
  <2>1. \A x \in AuthorCalls : authorCalls'[x].op = "started" =>
          /\ authorCalls'[x].thread \in 1 .. Len(threads')
          /\ authorCalls'[x].seen.generation <= threads'[authorCalls'[x].thread].startedIn
    BY <1>2, <1>3, <1>5, <1>6, <1>7, <1>10 DEF CodexIInv, SeenBeforeStarted
  <2>2. QED
    BY <1>1, <1>6, <1>10, <2>1 DEF CodexIInv, SeenBeforeStarted
<1>12. AdmittedToASession'
  BY <1>1, <1>5, <1>7 DEF CodexIInv, AdmittedToASession
<1>13. ThreadsServeTheirLogin'
  BY <1>1, <1>5, <1>6, <1>7 DEF CodexIInv, ThreadsServeTheirLogin, AdmittedToASession,
     SeenBeforeStarted
<1>14. QED
  BY <1>8, <1>9, <1>11, <1>12, <1>13 DEF CodexIInv

\* A session is of the generation its opening saw.
LEMMA SessionOpensStep ==
  ASSUME CodexIInv, NEW b \in AuthorCalls, SessionOpens(b)
  PROVE CodexIInv'
<1> DEFINE call == authorCalls[b]
           session == [thread |-> call.thread, generation |-> call.seen.generation,
                       account |-> call.seen.account, turn |-> FALSE, open |-> TRUE]
<1>1. /\ lease' = lease /\ threads' = threads /\ sessions' = Append(sessions, session)
      /\ Asks(b, Idle)
  BY DEF SessionOpens, accountVars, AuthorDone
<1>2. sessions \in Seq(Sessions) /\ Len(sessions) \in Nat
  BY DEF CodexIInv, BackendTyped
<1>3. call \in Starteds
  BY DEF SessionOpens, CodexIInv, BackendTyped, CodexCalls, Openings, Starteds, Admissions, Idle
<1>4. session \in Sessions
  BY <1>3 DEF Starteds, Leases, Sessions
<1>5. /\ session.thread \in 1 .. Len(threads)
      /\ session.generation <= threads[session.thread].startedIn
  BY DEF SessionOpens, CodexIInv, SeenBeforeStarted
<1>6. /\ sessions' \in Seq(Sessions) /\ Len(sessions') = Len(sessions) + 1
      /\ \A n \in 1 .. Len(sessions) : sessions'[n] = sessions[n]
      /\ sessions'[Len(sessions) + 1] = session
  <2> HIDE DEF session
  <2>1. QED
    BY <1>1, <1>2, <1>4, AppendProperties
<1> HIDE DEF session, call
<1>7. /\ authorCalls' \in [AuthorCalls -> CodexCalls]
      /\ authorCalls'[b].op = "idle"
      /\ \A x \in AuthorCalls : x # b => authorCalls'[x] = authorCalls[x]
  BY <1>1 DEF Asks, CodexIInv, BackendTyped, CodexCalls, Idle
<1>8. BackendTyped'
  BY <1>1, <1>6, <1>7 DEF CodexIInv, BackendTyped
<1>9. ThePastIsPast'
  BY <1>1, <1>7 DEF CodexIInv, ThePastIsPast
<1>10. /\ \A n \in 1 .. Len(sessions) : n \in 1 .. Len(sessions')
       /\ \A n \in 1 .. Len(sessions') : n \in 1 .. Len(sessions) \/ n = Len(sessions) + 1
  BY <1>2, <1>6
<1>11. SeenBeforeStarted'
  BY <1>1, <1>5, <1>6, <1>7, <1>10 DEF CodexIInv, SeenBeforeStarted
<1>12. AdmittedToASession'
  BY <1>7, <1>10 DEF CodexIInv, AdmittedToASession
<1>13. ThreadsServeTheirLogin'
  BY <1>1, <1>6, <1>7 DEF CodexIInv, ThreadsServeTheirLogin, AdmittedToASession
<1>14. QED
  BY <1>8, <1>9, <1>11, <1>12, <1>13 DEF CodexIInv

\* An answer to a request that was admitted changes neither the thread of a session nor
\* the generation of either.
LEMMA AnswersKeep ==
  ASSUME CodexIInv, NEW b \in AuthorCalls, authorCalls[b] \in Admissions,
         NEW call \in {Idle} \cup Admissions, Asks(b, call), lease' = lease,
         call # Idle => /\ call.session = authorCalls[b].session
                        /\ call.admittedIn = authorCalls[b].admittedIn,
         threads' \in Seq(Threads), Len(threads') = Len(threads),
         \A n \in 1 .. Len(threads) : threads'[n].startedIn = threads[n].startedIn,
         sessions' \in Seq(Sessions), Len(sessions') = Len(sessions),
         \A s \in 1 .. Len(sessions) : /\ sessions'[s].thread = sessions[s].thread
                                       /\ sessions'[s].generation = sessions[s].generation
  PROVE CodexIInv'
<1>1. /\ call \in CodexCalls
      /\ \/ call.op = "idle"
         \/ /\ call.op \in {"turn", "interrupt", "release"}
            /\ call.session = authorCalls[b].session
            /\ call.admittedIn = authorCalls[b].admittedIn
  BY DEF CodexCalls, Idle, Admissions
<1>2. /\ authorCalls' \in [AuthorCalls -> CodexCalls]
      /\ authorCalls'[b] = call
      /\ \A x \in AuthorCalls : x # b => authorCalls'[x] = authorCalls[x]
  BY <1>1 DEF Asks, CodexIInv, BackendTyped
<1>3. authorCalls[b].op \in {"turn", "interrupt", "release"}
  BY DEF Admissions
<1>4. BackendTyped'
  BY <1>2 DEF CodexIInv, BackendTyped
<1>5. ThePastIsPast'
  BY <1>1, <1>2 DEF CodexIInv, ThePastIsPast
<1>6. SeenBeforeStarted'
  <2>1. ASSUME NEW x \in AuthorCalls, authorCalls'[x].op = "started"
        PROVE  /\ authorCalls'[x].thread \in 1 .. Len(threads')
               /\ authorCalls'[x].seen.generation <= threads'[authorCalls'[x].thread].startedIn
    <3>1. x # b
      BY <1>1, <1>2, <2>1
    <3>2. authorCalls'[x] = authorCalls[x]
      BY <1>2, <3>1
    <3>3. /\ authorCalls[x].thread \in 1 .. Len(threads)
          /\ authorCalls[x].seen.generation <= threads[authorCalls[x].thread].startedIn
      BY <2>1, <3>2 DEF CodexIInv, SeenBeforeStarted
    <3> QED BY <3>2, <3>3
  <2>2. ASSUME NEW s \in 1 .. Len(sessions')
        PROVE  /\ sessions'[s].thread \in 1 .. Len(threads')
               /\ sessions'[s].generation <= threads'[sessions'[s].thread].startedIn
    <3>1. /\ sessions[s].thread \in 1 .. Len(threads)
          /\ sessions[s].generation <= threads[sessions[s].thread].startedIn
      BY DEF CodexIInv, SeenBeforeStarted
    <3> QED BY <3>1
  <2> QED BY <2>1, <2>2 DEF SeenBeforeStarted
<1>7. AdmittedToASession'
  BY <1>1, <1>2, <1>3 DEF CodexIInv, AdmittedToASession
<1>8. ThreadsServeTheirLogin'
  <2>1. \A s \in 1 .. Len(sessions) :
          threads'[sessions'[s].thread].startedIn = threads[sessions[s].thread].startedIn
    BY DEF CodexIInv, SeenBeforeStarted
  <2>2. ASSUME NEW x \in AuthorCalls, authorCalls'[x].op \in {"turn", "interrupt", "release"}
        PROVE /\ authorCalls[x].op \in {"turn", "interrupt", "release"}
              /\ authorCalls'[x].session = authorCalls[x].session
              /\ authorCalls'[x].admittedIn = authorCalls[x].admittedIn
    BY <1>1, <1>2, <1>3, <2>2
  <2>3. ASSUME NEW x \in AuthorCalls, authorCalls'[x].op \in {"turn", "interrupt", "release"}
        PROVE threads'[sessions'[authorCalls'[x].session].thread].startedIn
                = authorCalls'[x].admittedIn
    BY <2>1, <2>2, <2>3 DEF CodexIInv, ThreadsServeTheirLogin, AdmittedToASession
  <2>4. QED
    BY <2>3 DEF ThreadsServeTheirLogin
<1>9. QED
  BY <1>4, <1>5, <1>6, <1>7, <1>8 DEF CodexIInv

LEMMA AnswersStep ==
  ASSUME CodexIInv, NEW b \in AuthorCalls,
         TurnAnswers(b) \/ TurnRefused(b) \/ Interrupted(b) \/ Released(b)
  PROVE CodexIInv'
<1> DEFINE s == authorCalls[b].session
<1>1. authorCalls[b] \in Admissions
  BY DEF TurnAnswers, TurnRefused, Interrupted, Released, CodexIInv, BackendTyped, CodexCalls,
     Openings, Starteds, Admissions, Idle
<1>2. s \in 1 .. Len(sessions) /\ sessions \in Seq(Sessions) /\ sessions[s] \in Sessions
  <2>1. s \in 1 .. Len(sessions) /\ sessions \in Seq(Sessions)
    BY <1>1 DEF CodexIInv, AdmittedToASession, BackendTyped, Admissions
  <2>2. QED
    BY <2>1, ElementOfSeq
<1>3. threads \in Seq(Threads) /\ lease' = lease
  BY DEF CodexIInv, BackendTyped, TurnAnswers, TurnRefused, Interrupted, Released, accountVars
<1>4. ASSUME NEW known \in BOOLEAN, sessions' = [sessions EXCEPT ![s].turn = known]
      PROVE /\ sessions' \in Seq(Sessions) /\ Len(sessions') = Len(sessions)
            /\ \A x \in 1 .. Len(sessions) : /\ sessions'[x].thread = sessions[x].thread
                                             /\ sessions'[x].generation = sessions[x].generation
  <2> DEFINE session == [sessions[s] EXCEPT !.turn = known]
  <2>1. session \in Sessions /\ session.thread = sessions[s].thread
        /\ session.generation = sessions[s].generation
    BY <1>2 DEF Sessions
  <2>2. sessions' = [sessions EXCEPT ![s] = session]
    BY <1>4
  <2> HIDE DEF session, s
  <2>3. QED
    BY <1>2, <2>1, <2>2, ExceptSeq
<1>5. CASE TurnAnswers(b)
  <2>1. /\ threads' = threads /\ sessions' = [sessions EXCEPT ![s].turn = FALSE]
        /\ Asks(b, Idle)
    BY <1>5 DEF TurnAnswers, AuthorDone
  <2> HIDE DEF s
  <2>2. QED
    BY <1>1, <1>3, <1>4, <2>1, AnswersKeep
<1>6. CASE TurnRefused(b)
  <2> DEFINE call == [authorCalls[b] EXCEPT !.op = "interrupt"]
  <2>1. PICK known \in BOOLEAN : sessions' = [sessions EXCEPT ![s].turn = known]
    BY <1>6 DEF TurnRefused
  <2>2. threads' = threads /\ Asks(b, call)
    BY <1>6 DEF TurnRefused
  <2>3. /\ call \in Admissions /\ call.session = authorCalls[b].session
        /\ call.admittedIn = authorCalls[b].admittedIn
    BY <1>1 DEF Admissions
  <2> HIDE DEF s, call
  <2>4. QED
    BY <1>1, <1>3, <1>4, <2>1, <2>2, <2>3, AnswersKeep
<1>7. CASE Interrupted(b)
  <2> DEFINE release == [authorCalls[b] EXCEPT !.op = "release"]
  <2>1. threads' = threads /\ sessions' = [sessions EXCEPT ![s].turn = FALSE]
    BY <1>7 DEF Interrupted
  <2>2. Asks(b, release) \/ Asks(b, Idle)
    BY <1>7 DEF Interrupted, AuthorDone
  <2>3. /\ release \in Admissions /\ release.session = authorCalls[b].session
        /\ release.admittedIn = authorCalls[b].admittedIn
    BY <1>1 DEF Admissions
  <2>4. /\ sessions' \in Seq(Sessions) /\ Len(sessions') = Len(sessions)
        /\ \A x \in 1 .. Len(sessions) : /\ sessions'[x].thread = sessions[x].thread
                                         /\ sessions'[x].generation = sessions[x].generation
    BY <1>4, <2>1
  <2> HIDE DEF s, release
  <2>5. CASE Asks(b, release)
    BY <1>1, <1>3, <2>1, <2>3, <2>4, <2>5, AnswersKeep
  <2>6. CASE Asks(b, Idle)
    BY <1>1, <1>3, <2>1, <2>4, <2>6, AnswersKeep
  <2>7. QED
    BY <2>2, <2>5, <2>6
<1>8. CASE Released(b)
  <2> DEFINE n == sessions[s].thread
             thread == [threads[n] EXCEPT !.held = FALSE]
             session == [sessions[s] EXCEPT !.open = FALSE]
  <2>1. /\ threads' = [threads EXCEPT ![n] = thread]
        /\ sessions' = [sessions EXCEPT ![s] = session]
        /\ Asks(b, Idle)
    BY <1>8 DEF Released, AuthorDone
  <2>2. n \in 1 .. Len(threads)
    BY <1>2 DEF CodexIInv, SeenBeforeStarted
  <2>3. threads[n] \in Threads
    BY <1>3, <2>2, ElementOfSeq
  <2>4. thread \in Threads /\ thread.startedIn = threads[n].startedIn
    BY <2>3 DEF Threads
  <2>5. /\ session \in Sessions /\ session.thread = sessions[s].thread
        /\ session.generation = sessions[s].generation
    BY <1>2 DEF Sessions
  <2> HIDE DEF s, n, thread, session
  <2>6. /\ threads' \in Seq(Threads) /\ Len(threads') = Len(threads)
        /\ \A i \in 1 .. Len(threads) : threads'[i].startedIn = threads[i].startedIn
    BY <1>3, <2>1, <2>2, <2>4, ExceptSeq
  <2>7. /\ sessions' \in Seq(Sessions) /\ Len(sessions') = Len(sessions)
        /\ \A x \in 1 .. Len(sessions) : /\ sessions'[x].thread = sessions[x].thread
                                         /\ sessions'[x].generation = sessions[x].generation
    BY <1>2, <2>1, <2>5, ExceptSeq
  <2>8. QED
    BY <1>1, <1>3, <2>1, <2>6, <2>7, AnswersKeep
<1>9. QED
  BY <1>5, <1>6, <1>7, <1>8

LEMMA CodexSteps == CodexIInv /\ [CodexNext]_codexVars => CodexIInv'
<1> SUFFICES ASSUME CodexIInv, [CodexNext]_codexVars PROVE CodexIInv'
  OBVIOUS
<1>1. CASE AccountStep
  BY <1>1, AccountStepsKeep
<1>2. CASE InitializeAnswers \/ UNCHANGED codexVars
  <2>1. UNCHANGED <<lease, threads, sessions, authorCalls>>
    BY <1>2 DEF InitializeAnswers, codexVars, accountVars, authorVars
  <2>2. QED
    BY <2>1 DEF CodexIInv, BackendTyped, ThePastIsPast, SeenBeforeStarted,
       AdmittedToASession, ThreadsServeTheirLogin
<1>3. ASSUME NEW b \in AuthorCalls,
             \/ OpenSession(b) \/ OpeningFails(b) \/ StartAuthorThread(b) \/ RunTurn(b)
             \/ CloseSession(b) \/ AuthorRequestFails(b)
      PROVE CodexIInv'
  BY <1>3, CallsStep
<1>4. ASSUME NEW b \in AuthorCalls,
             TurnAnswers(b) \/ TurnRefused(b) \/ Interrupted(b) \/ Released(b)
      PROVE CodexIInv'
  BY <1>4, AnswersStep
<1>5. QED
  BY <1>1, <1>2, <1>3, <1>4, ThreadStartsStep, SessionOpensStep DEF CodexNext, AuthorStep

\* A request about a thread is admitted only in the generation of the lease in which the
\* app server started that thread, whatever logins, logouts and rotations of the
\* credential overtake an opening (Owned of the codex author backend).
THEOREM WorkIsForItsLogin == CodexSpec => []ThreadsServeTheirLogin
<1>1. CodexIInv => ThreadsServeTheirLogin
  BY DEF CodexIInv
<1>2. QED
  BY CodexStarts, CodexSteps, <1>1, PTL DEF CodexSpec

-----------------------------------------------------------------------------
(* The two model calls of an action.  While a call is under way it has at  *)
(* most one answer, which was of no use and not final; so the second       *)
(* answer, whatever it is, ends the call with its own outcome.             *)

CallRequests == InterpretRequests \cup NarrateRequests
CallAnswers == Errors \cup {WrongFormat} \cup Proposals \cup Narratives
CallStates == {"asking", "waiting", "resolved", "needs_clarification", "unsupported", "model",
               "failed", "template"}
CallTasks == [state : CallStates, request : CallRequests, answer : CallAnswers,
              stopped : {"no", "aborted", "late"}]

CallTyped ==
  /\ task = NoTask \/ task \in CallTasks
  /\ attempts \in Seq(CallAnswers)

Final(answer) == answer.kind = "error" /\ ~answer.retryable
CallUnderWay == task.state \in {"asking", "waiting"}

ATryIsLeft ==
  CallUnderWay =>
    /\ ~InvalidContext(task.request)
    /\ Len(attempts) <= 1
    /\ Len(attempts) = 1 => ~Final(attempts[1]) /\ ~Usable(attempts[1], task.request)

CallsIInv == CallTyped /\ ATryIsLeft /\ EvidenceExplainsOutcome

LEMMA CallsStart == ModelCallsInit => CallsIInv
<1> SUFFICES ASSUME ModelCallsInit PROVE CallsIInv
  OBVIOUS
<1>1. task.state = "none" /\ attempts = <<>> /\ Len(attempts) = 0
  BY DEF ModelCallsInit, NoTask
<1>2. attempts \in Seq(CallAnswers) /\ task = NoTask
  BY <1>1 DEF ModelCallsInit
<1>3. QED
  BY <1>1, <1>2 DEF CallsIInv, CallTyped, ATryIsLeft, CallUnderWay, EvidenceExplainsOutcome

LEMMA BeginKeeps ==
  ASSUME CallsIInv, NEW request \in CallRequests, Begin(request)
  PROVE CallsIInv'
<1>1. /\ attempts' = <<>> /\ Len(attempts') = 0
      /\ attempts' \in Seq(CallAnswers)
  BY DEF Begin
<1>2. /\ task'.state = IF InvalidContext(request) THEN "failed" ELSE "asking"
      /\ task'.request = request /\ task' \in CallTasks
  BY DEF Begin, CallTasks, CallStates, CallAnswers
<1>3. CallTyped'
  BY <1>1, <1>2 DEF CallTyped
<1>4. ATryIsLeft'
  BY <1>1, <1>2 DEF ATryIsLeft, CallUnderWay, InvalidContext
<1>5. EvidenceExplainsOutcome'
  BY <1>1, <1>2 DEF EvidenceExplainsOutcome, InvalidContext
<1>6. QED
  BY <1>3, <1>4, <1>5 DEF CallsIInv

LEMMA DecidedTasks ==
  ASSUME task \in CallTasks, NEW s \in CallStates, NEW a \in CallAnswers, Decided(s, a)
  PROVE /\ task' \in CallTasks /\ task'.state = s /\ task'.answer = a
        /\ task'.request = task.request /\ task'.stopped = task.stopped
BY DEF CallTasks, Decided

LEMMA MovedTasks ==
  ASSUME task \in CallTasks, NEW s \in CallStates, task' = [task EXCEPT !.state = s]
  PROVE /\ task' \in CallTasks /\ task'.state = s
        /\ task'.request = task.request /\ task'.stopped = task.stopped
BY DEF CallTasks

LEMMA StoppedTasks ==
  ASSUME task \in CallTasks, NEW how \in {"aborted", "late"},
         task' = [task EXCEPT !.stopped = how]
  PROVE /\ task' \in CallTasks /\ task'.state = task.state /\ task'.request = task.request
BY DEF CallTasks

\* The evidence of the new state, part by part.
LEMMA EvidenceByParts ==
  ASSUME Len(attempts') <= 2,
         Len(attempts') = 2 =>
           ~Final(attempts'[1]) /\ ~Usable(attempts'[1], task'.request),
         task'.state = "resolved" =>
           /\ Len(attempts') > 0 /\ task'.answer = attempts'[Len(attempts')]
           /\ task'.answer.type \in task'.request.types
           /\ ElementsOf(task'.answer.ids) \subseteq task'.request.allowed,
         task'.state = "model" =>
           /\ Len(attempts') > 0 /\ task'.answer = attempts'[Len(attempts')]
           /\ task'.answer.speaker \in task'.request.speakers,
         task'.state \in {"failed", "template"} =>
           \/ Len(attempts') = 2 \/ task'.stopped # "no" \/ InvalidContext(task'.request)
           \/ Len(attempts') = 1 /\ Final(attempts'[1])
  PROVE EvidenceExplainsOutcome'
BY DEF EvidenceExplainsOutcome, Final

LEMMA UnderWayTasks ==
  ASSUME CallTyped, task.state # "none" PROVE task \in CallTasks
BY DEF CallTyped, NoTask

LEMMA StopKeeps ==
  ASSUME CallsIInv, Stop
  PROVE CallsIInv'
<1>1. /\ CallUnderWay /\ attempts' = attempts
      /\ task.state # "none"
  BY DEF Stop, CallUnderWay
<1>2. task \in CallTasks
  BY <1>1, UnderWayTasks DEF CallsIInv
<1>3. PICK how \in {"aborted", "late"} : task' = [task EXCEPT !.stopped = how]
  BY DEF Stop
<1>4. /\ task' \in CallTasks /\ task'.state = task.state /\ task'.request = task.request
  BY <1>2, <1>3, StoppedTasks
<1>5. CallTyped'
  BY <1>1, <1>4 DEF CallsIInv, CallTyped
<1>6. ATryIsLeft'
  BY <1>1, <1>4 DEF CallsIInv, ATryIsLeft, CallUnderWay
<1>7. EvidenceExplainsOutcome'
  BY <1>1, <1>4 DEF CallsIInv, EvidenceExplainsOutcome, ATryIsLeft, CallUnderWay
<1>8. QED
  BY <1>5, <1>6, <1>7 DEF CallsIInv

LEMMA AskProviderKeeps ==
  ASSUME CallsIInv, AskProvider
  PROVE CallsIInv'
<1>1. /\ CallUnderWay /\ attempts' = attempts /\ task.state # "none"
  BY DEF AskProvider, CallUnderWay
<1>2. task \in CallTasks /\ attempts \in Seq(CallAnswers) /\ Len(attempts) \in Nat
  BY <1>1, UnderWayTasks DEF CallsIInv, CallTyped
<1>3. /\ WrongFormat \in CallAnswers
      /\ GivesUp(task.request) \in {"failed", "template"} /\ GivesUp(task.request) \in CallStates
  BY DEF CallAnswers, GivesUp, CallStates
<1>4. CASE StoppedBeforeAsking
  <2>1. /\ task' \in CallTasks /\ task'.state = GivesUp(task.request)
        /\ task'.request = task.request /\ task'.stopped = task.stopped
    BY <1>2, <1>3, <1>4, DecidedTasks DEF AskProvider
  <2>2. task'.stopped # "no"
    BY <1>4, <2>1 DEF StoppedBeforeAsking
  <2>3. task'.state \in {"failed", "template"}
    BY <1>3, <2>1
  <2>4. CallTyped'
    BY <1>1, <1>2, <2>1 DEF CallTyped
  <2>5. ATryIsLeft'
    BY <2>3 DEF ATryIsLeft, CallUnderWay
  <2>6. EvidenceExplainsOutcome'
    BY <1>1, <1>2, <2>1, <2>2, <2>3
       DEF CallsIInv, EvidenceExplainsOutcome, ATryIsLeft, CallUnderWay
  <2>7. QED
    BY <2>4, <2>5, <2>6 DEF CallsIInv
<1>5. CASE ~StoppedBeforeAsking
  <2>1. "waiting" \in CallStates
    BY DEF CallStates
  <2>2. /\ task' \in CallTasks /\ task'.state = "waiting" /\ task'.request = task.request
    BY <1>2, <1>3, <1>5, <2>1, MovedTasks DEF AskProvider
  <2>3. CallTyped'
    BY <1>1, <1>2, <2>2 DEF CallTyped
  <2>4. ATryIsLeft'
    BY <1>1, <2>2 DEF CallsIInv, ATryIsLeft, CallUnderWay
  <2>5. EvidenceExplainsOutcome'
    BY <1>1, <1>2, <2>2 DEF CallsIInv, EvidenceExplainsOutcome, ATryIsLeft, CallUnderWay
  <2>6. QED
    BY <2>3, <2>4, <2>5 DEF CallsIInv
<1>6. QED
  BY <1>4, <1>5

LEMMA AnswersAreRecorded ==
  ASSUME CallsIInv, NEW answer \in CallAnswers, ProviderGives(answer)
  PROVE /\ CallUnderWay /\ task \in CallTasks
        /\ attempts' \in Seq(CallAnswers)
        /\ attempts'[Len(attempts')] = answer
        /\ \/ Len(attempts') = 1
           \/ Len(attempts') = 2 /\ ~Final(attempts'[1]) /\ ~Usable(attempts'[1], task.request)
<1>1. CallUnderWay /\ task.state # "none" /\ attempts' = Append(attempts, answer)
  BY DEF ProviderGives, CallUnderWay
<1>2. task \in CallTasks /\ attempts \in Seq(CallAnswers) /\ Len(attempts) \in Nat
  BY <1>1, UnderWayTasks DEF CallsIInv, CallTyped
<1>3. /\ attempts' \in Seq(CallAnswers) /\ Len(attempts') = Len(attempts) + 1
      /\ \A n \in 1 .. Len(attempts) : attempts'[n] = attempts[n]
      /\ attempts'[Len(attempts) + 1] = answer
  BY <1>1, <1>2, AppendProperties
<1>4. Len(attempts) = 0 \/ Len(attempts) = 1
  <2>1. Len(attempts) <= 1
    BY <1>1 DEF CallsIInv, ATryIsLeft
  <2>2. PICK n \in Nat : n = Len(attempts)
    BY <1>2
  <2>3. QED
    BY <2>1, <2>2
<1>5. QED
  BY <1>1, <1>2, <1>3, <1>4 DEF CallsIInv, ATryIsLeft

LEMMA ProviderGivesKeeps ==
  ASSUME CallsIInv, NEW answer \in CallAnswers, ProviderGives(answer)
  PROVE CallsIInv'
<1>1. /\ task \in CallTasks
      /\ attempts' \in Seq(CallAnswers) /\ attempts'[Len(attempts')] = answer
      /\ \/ Len(attempts') = 1
         \/ Len(attempts') = 2 /\ ~Final(attempts'[1]) /\ ~Usable(attempts'[1], task.request)
  BY AnswersAreRecorded
<1>2. CASE Usable(answer, task.request)
  <2> DEFINE outcome == IF task.request.kind = "intent" THEN answer.kind ELSE "model"
  <2>1. /\ outcome \in CallStates \ {"asking", "waiting", "failed", "template"}
        /\ outcome = "resolved" => /\ answer.type \in task.request.types
                                   /\ ElementsOf(answer.ids) \subseteq task.request.allowed
        /\ outcome = "model" => answer.speaker \in task.request.speakers
    BY <1>2 DEF Usable, ValidIntent, ValidNarrative, ValidIds, CallStates
  <2> HIDE DEF outcome
  <2>2. /\ task' \in CallTasks /\ task'.state = outcome /\ task'.answer = answer
        /\ task'.request = task.request
    BY <1>1, <1>2, <2>1, DecidedTasks DEF ProviderGives, outcome
  <2>3. CallTyped' /\ ATryIsLeft'
    BY <1>1, <2>1, <2>2 DEF CallTyped, ATryIsLeft, CallUnderWay
  <2>4. EvidenceExplainsOutcome'
    <3>1. task'.state \notin {"failed", "template"}
      BY <2>1, <2>2
    <3>2. Len(attempts') <= 2 /\ Len(attempts') > 0 /\ task'.answer = attempts'[Len(attempts')]
      BY <1>1, <2>2
    <3>3. Len(attempts') = 2 => ~Final(attempts'[1]) /\ ~Usable(attempts'[1], task'.request)
      BY <1>1, <2>2
    <3>4. task'.state = "resolved" =>
            /\ task'.answer.type \in task'.request.types
            /\ ElementsOf(task'.answer.ids) \subseteq task'.request.allowed
      BY <2>1, <2>2
    <3>5. task'.state = "model" => task'.answer.speaker \in task'.request.speakers
      BY <2>1, <2>2
    <3>6. QED
      BY <3>1, <3>2, <3>3, <3>4, <3>5, EvidenceByParts
  <2>5. QED
    BY <2>3, <2>4 DEF CallsIInv
<1>3. CASE ~Usable(answer, task.request) /\ TriesAgain(answer)
  <2>1. /\ "asking" \in CallStates /\ task.state = "waiting"
        /\ Len(attempts') = 1 /\ ~Final(answer)
        /\ attempts'[1] = answer
    <3>1. Len(attempts) \in Nat /\ Len(attempts) + 1 < 2 /\ Len(attempts') = Len(attempts) + 1
      BY <1>3 DEF CallsIInv, CallTyped, ProviderGives, TriesAgain, MaxAttempts
    <3>2. Len(attempts') = 1
      BY <1>1, <3>1
    <3>3. QED
      BY <1>1, <1>3, <3>2 DEF CallStates, ProviderGives, TriesAgain, Final
  <2>2. /\ task' \in CallTasks /\ task'.state = "asking" /\ task'.request = task.request
    BY <1>1, <1>3, <2>1, MovedTasks DEF ProviderGives
  <2>3. CallTyped' /\ ATryIsLeft'
    BY <1>1, <1>3, <2>1, <2>2
       DEF CallsIInv, CallTyped, ATryIsLeft, CallUnderWay, InvalidContext
  <2>4. EvidenceExplainsOutcome'
    BY <2>1, <2>2 DEF EvidenceExplainsOutcome
  <2>5. QED
    BY <2>3, <2>4 DEF CallsIInv
<1>4. CASE ~Usable(answer, task.request) /\ ~TriesAgain(answer)
  <2>1. /\ WrongFormat \in CallAnswers
        /\ GivesUp(task.request) \in {"failed", "template"}
        /\ GivesUp(task.request) \in CallStates
    BY DEF CallAnswers, GivesUp, CallStates
  <2>2. /\ task' \in CallTasks /\ task'.state = GivesUp(task.request)
        /\ task'.request = task.request
    BY <1>1, <1>4, <2>1, DecidedTasks DEF ProviderGives
  <2>3. Len(attempts') = 2 \/ Final(answer)
    <3>1. Len(attempts) \in Nat /\ Len(attempts') = Len(attempts) + 1
      BY DEF CallsIInv, CallTyped, ProviderGives
    <3>2. QED
      BY <1>1, <1>4, <3>1 DEF TriesAgain, MaxAttempts, Final
  <2>4. CallTyped' /\ ATryIsLeft'
    BY <1>1, <2>1, <2>2 DEF CallTyped, ATryIsLeft, CallUnderWay
  <2>5. EvidenceExplainsOutcome'
    <3>1. task'.state \in {"failed", "template"}
      BY <2>1, <2>2
    <3>2. Len(attempts') = 2 \/ (Len(attempts') = 1 /\ Final(attempts'[1]))
      BY <1>1, <2>3
    <3>3. /\ task'.state # "resolved" /\ task'.state # "model"
          /\ task'.state \in {"failed", "template"} =>
               \/ Len(attempts') = 2 \/ task'.stopped # "no" \/ InvalidContext(task'.request)
               \/ Len(attempts') = 1 /\ Final(attempts'[1])
      BY <3>1, <3>2
    <3>4. Len(attempts') <= 2
      BY <1>1
    <3>5. Len(attempts') = 2 =>
            ~Final(attempts'[1]) /\ ~Usable(attempts'[1], task'.request)
      BY <1>1, <2>2
    <3>6. QED
      BY <3>3, <3>4, <3>5, EvidenceByParts
  <2>6. QED
    BY <2>4, <2>5 DEF CallsIInv
<1>5. QED
  BY <1>2, <1>3, <1>4

LEMMA CallSteps == CallsIInv /\ [ModelCallsNext]_modelCallVars => CallsIInv'
<1> SUFFICES ASSUME CallsIInv, [ModelCallsNext]_modelCallVars PROVE CallsIInv'
  OBVIOUS
<1>1. ASSUME NEW request \in InterpretRequests \cup NarrateRequests, Begin(request)
      PROVE CallsIInv'
  BY <1>1, BeginKeeps DEF CallRequests
<1>2. ASSUME NEW answer \in AnswersTo(task.request), ProviderGives(answer)
      PROVE CallsIInv'
  BY <1>2, ProviderGivesKeeps DEF AnswersTo, CallAnswers
<1>3. CASE UNCHANGED modelCallVars
  BY <1>3 DEF modelCallVars, CallsIInv, CallTyped, ATryIsLeft, CallUnderWay,
     EvidenceExplainsOutcome, InvalidContext
<1>4. QED
  BY <1>1, <1>2, <1>3, StopKeeps, AskProviderKeeps DEF ModelCallsNext

\* The outcome of an interpretation or a narration is what its evidence says: the last
\* answer when it keeps to what was allowed, a second request only after an answer of no
\* use that was not final, no third, and no giving up while a retry was left (interpret
\* of intent.ts, narrate of narrative.ts).
THEOREM OutcomesAreExplained == ModelCallsSpec => []EvidenceExplainsOutcome
<1>1. CallsIInv => EvidenceExplainsOutcome
  BY DEF CallsIInv
<1>2. QED
  BY CallsStart, CallSteps, <1>1, PTL DEF ModelCallsSpec

-----------------------------------------------------------------------------
(* The model provider.  A turn under way is of the provider's generation   *)
(* or of an earlier one, and its session is open or has been aborted; that *)
(* of an earlier generation has been aborted, because replacing the        *)
(* provider ends every open session.  So an answer of a former provider    *)
(* is handed out as an abort, and the requests the status counts are those *)
(* of this generation.                                                     *)

TurnResults == Answers \cup {"none", "timeout", "aborted"}
TurnRecords ==
  [stage : {"calling", "settled", "observed"}, session : ModelSessions, generation : Nat,
   deadline : Nat, cancelled : BOOLEAN, expired : BOOLEAN, providerExpired : BOOLEAN,
   result : TurnResults]
SessionRecords ==
  [state : {"unused", "open", "gone"}, aborted : BOOLEAN, expires : Nat, busy : BOOLEAN]

ModelTyped ==
  /\ provider \in [generation : Nat, configured : BOOLEAN]
  /\ modelSessions \in [ModelSessions -> SessionRecords]
  /\ modelTurns \in [ModelTurns -> {NoTurn} \cup {Over(a) : a \in TurnResults} \cup TurnRecords]

FormerTurnsAreRevoked ==
  \A t \in ModelTurns : UnderWay(t) =>
    /\ modelTurns[t].generation <= provider.generation
    /\ modelSessions[modelTurns[t].session].state = "open" \/ Revoked(t)
    /\ modelTurns[t].generation # provider.generation => Revoked(t)

ModelIInv == ModelTyped /\ FormerTurnsAreRevoked /\ StatusIsOfThisProvider

Pending == {t \in ModelTurns : /\ modelTurns[t].stage \in {"calling", "settled"}
                               /\ modelTurns[t].generation = provider.generation}

LEMMA StatusCountsPending ==
  StatusIsOfThisProvider <=> /\ providerStatus.active = Cardinality(Pending)
                             /\ (providerStatus.state = "requesting") = (Pending # {})
BY DEF StatusIsOfThisProvider, Pending

LEMMA PendingIsFinite == IsFiniteSet(Pending)
BY ModelAssumption, FS_Subset DEF Pending

\* What a turn may be.
LEMMA TurnShapes ==
  ASSUME ModelTyped, NEW t \in ModelTurns
  PROVE /\ UnderWay(t) => modelTurns[t] \in TurnRecords
        /\ ~UnderWay(t) => modelTurns[t].stage \in {"idle", "over"}
<1>1. modelTurns[t] \in {NoTurn} \cup {Over(a) : a \in TurnResults} \cup TurnRecords
  BY DEF ModelTyped
<1>2. CASE modelTurns[t] = NoTurn
  BY <1>2 DEF NoTurn, UnderWay
<1>3. CASE modelTurns[t] \in {Over(a) : a \in TurnResults}
  BY <1>3 DEF Over, UnderWay
<1>4. CASE modelTurns[t] \in TurnRecords
  BY <1>4 DEF TurnRecords, UnderWay
<1>5. QED
  BY <1>1, <1>2, <1>3, <1>4

LEMMA ModelStarts == ModelInit => ModelIInv
<1> SUFFICES ASSUME ModelInit PROVE ModelIInv
  OBVIOUS
<1>1. ModelTyped
  BY DEF ModelInit, ModelTyped, SessionRecords, Unused
<1>2. \A t \in ModelTurns : modelTurns[t].stage = "idle"
  BY DEF ModelInit, NoTurn
<1>3. FormerTurnsAreRevoked
  BY <1>2 DEF FormerTurnsAreRevoked, UnderWay
<1>4. StatusIsOfThisProvider
  <2>1. Pending = {}
    BY <1>2 DEF Pending
  <2>2. QED
    BY <2>1, FS_EmptySet, StatusCountsPending DEF ModelInit
<1>5. QED
  BY <1>1, <1>3, <1>4 DEF ModelIInv

\* Replacing or disconnecting the provider ends every open session.
LEMMA ReplacingKeeps ==
  ASSUME ModelIInv, NEW configured \in BOOLEAN, NEW state, state # "requesting",
         provider' = [generation |-> provider.generation + 1, configured |-> configured],
         modelSessions' = AllEnded, modelTurns' = modelTurns,
         providerStatus' = [state |-> state, active |-> 0, error |-> "none"]
  PROVE ModelIInv'
<1>1. /\ provider.generation \in Nat /\ provider'.generation = provider.generation + 1
      /\ provider' \in [generation : Nat, configured : BOOLEAN]
  BY DEF ModelIInv, ModelTyped
<1>2. ASSUME NEW s \in ModelSessions
      PROVE /\ AllEnded[s] \in SessionRecords
            /\ modelSessions[s].state = "open" \/ modelSessions[s].aborted
                 => AllEnded[s].aborted
  <2>1. modelSessions[s] \in SessionRecords
    BY DEF ModelIInv, ModelTyped
  <2>2. /\ Ended(modelSessions[s]) \in SessionRecords
        /\ Ended(modelSessions[s]).aborted
    BY <2>1 DEF Ended, SessionRecords
  <2>3. QED
    BY <2>1, <2>2 DEF AllEnded, OpenOnes
<1>3. ModelTyped'
  <2>1. AllEnded \in [ModelSessions -> SessionRecords]
    BY <1>2 DEF AllEnded
  <2>2. QED
    BY <1>1, <2>1 DEF ModelIInv, ModelTyped
<1>4. ASSUME NEW t \in ModelTurns, UnderWay(t)
      PROVE /\ modelTurns[t].generation \in Nat
            /\ modelTurns[t].generation <= provider.generation
            /\ AllEnded[modelTurns[t].session].aborted
  <2>1. modelTurns[t] \in TurnRecords
    BY <1>4, TurnShapes DEF ModelIInv
  <2>2. QED
    BY <1>2, <1>4, <2>1 DEF TurnRecords, ModelIInv, FormerTurnsAreRevoked, Revoked
<1>5. FormerTurnsAreRevoked'
  BY <1>1, <1>4 DEF FormerTurnsAreRevoked, UnderWay, Revoked
<1>6. Pending' = {}
  BY <1>1, <1>4 DEF Pending, UnderWay
<1>7. StatusIsOfThisProvider'
  <2>1. StatusIsOfThisProvider' <=> /\ providerStatus'.active = Cardinality(Pending')
                                    /\ (providerStatus'.state = "requesting") = (Pending' # {})
    BY DEF StatusIsOfThisProvider, Pending
  <2>2. QED
    BY <1>6, <2>1, FS_EmptySet
<1>8. QED
  BY <1>3, <1>5, <1>7 DEF ModelIInv

\* A session that opens or closes leaves the turns as they are: only an open session
\* stops being open, and it is aborted then.
LEMMA SessionsKeep ==
  ASSUME ModelIInv, UNCHANGED <<provider, modelTurns, providerStatus>>,
         modelSessions' \in [ModelSessions -> SessionRecords],
         \A s \in ModelSessions :
           /\ modelSessions[s].aborted => modelSessions'[s].aborted
           /\ modelSessions[s].state = "open" =>
                modelSessions'[s].state = "open" \/ modelSessions'[s].aborted
  PROVE ModelIInv'
<1>1. ModelTyped' /\ StatusIsOfThisProvider'
  BY DEF ModelIInv, ModelTyped, StatusIsOfThisProvider
<1>2. \A t \in ModelTurns : UnderWay(t) => modelTurns[t].session \in ModelSessions
  BY TurnShapes DEF ModelIInv, TurnRecords
<1>3. FormerTurnsAreRevoked'
  BY <1>2 DEF ModelIInv, FormerTurnsAreRevoked, UnderWay, Revoked
<1>4. QED
  BY <1>1, <1>3 DEF ModelIInv

LEMMA SessionSteps ==
  ASSUME ModelIInv, NEW s \in ModelSessions, OpenModelSession(s) \/ CloseModelSession(s)
  PROVE ModelIInv'
<1>1. \A x \in ModelSessions : modelSessions[x] \in SessionRecords
  BY DEF ModelIInv, ModelTyped
<1>2. \A x \in ModelSessions :
        /\ Ended(modelSessions[x]) \in SessionRecords
        /\ Ended(modelSessions[x]).aborted
  BY <1>1 DEF Ended, SessionRecords
<1>3. CASE CloseModelSession(s)
  BY <1>1, <1>2, <1>3, SessionsKeep DEF CloseModelSession, ModelIInv, ModelTyped
<1>4. CASE OpenModelSession(s)
  <2> DEFINE expired == {x \in OpenOnes : modelSessions[x].expires <= instant}
             purged == [x \in ModelSessions |-> IF x \in expired THEN Ended(modelSessions[x])
                                                                  ELSE modelSessions[x]]
  <2>1. PICK deadline \in Instants :
          modelSessions' = purged
            \/ modelSessions' = [purged EXCEPT ![s].state = "open", ![s].expires = deadline]
    BY <1>4 DEF OpenModelSession
  <2>2. deadline \in Nat /\ modelSessions[s].state = "unused" /\ s \notin expired
    <3>1. deadline \in Nat
      BY ModelAssumption DEF Instants
    <3>2. modelSessions[s].state = "unused"
      BY <1>4 DEF OpenModelSession
    <3>3. QED
      BY <3>1, <3>2 DEF OpenOnes
  <2>3. UNCHANGED <<provider, modelTurns, providerStatus>>
    BY <1>4 DEF OpenModelSession
  <2>4. /\ purged \in [ModelSessions -> SessionRecords]
        /\ \A x \in ModelSessions :
             /\ modelSessions[x].aborted => purged[x].aborted
             /\ modelSessions[x].state = "open" =>
                  purged[x].state = "open" \/ purged[x].aborted
    BY <1>1, <1>2
  <2>5. CASE modelSessions' = purged
    <3> HIDE DEF purged
    <3>1. QED
      BY <2>3, <2>4, <2>5, SessionsKeep
  <2>6. CASE modelSessions' = [purged EXCEPT ![s].state = "open", ![s].expires = deadline]
    <3> DEFINE opened == [modelSessions[s] EXCEPT !.state = "open", !.expires = deadline]
    <3>1. /\ opened \in SessionRecords /\ opened.aborted = modelSessions[s].aborted
          /\ opened.state = "open"
      BY <1>1, <2>2 DEF SessionRecords
    <3>2. modelSessions' = [purged EXCEPT ![s] = opened]
      BY <2>2, <2>6
    <3> HIDE DEF opened, purged
    <3>3. QED
      BY <2>3, <2>4, <3>1, <3>2, SessionsKeep
  <2>7. QED
    BY <2>1, <2>5, <2>6
<1>5. QED
  BY <1>3, <1>4

\* A turn that moves within its stage, or from an answer on, leaves what is pending.
LEMMA TurnMoves ==
  ASSUME ModelIInv, NEW t \in ModelTurns, UnderWay(t), NEW turn \in TurnRecords,
         modelTurns' = [modelTurns EXCEPT ![t] = turn],
         UNCHANGED <<provider, modelSessions, providerStatus>>,
         turn.session = modelTurns[t].session, turn.generation = modelTurns[t].generation,
         (turn.stage \in {"calling", "settled"})
           = (modelTurns[t].stage \in {"calling", "settled"})
  PROVE ModelIInv'
<1>1. /\ modelTurns'[t] = turn
      /\ \A x \in ModelTurns : x # t => modelTurns'[x] = modelTurns[x]
      /\ modelTurns' \in [ModelTurns -> {NoTurn} \cup {Over(a) : a \in TurnResults}
                                                 \cup TurnRecords]
  BY DEF ModelIInv, ModelTyped
<1>2. ModelTyped'
  BY <1>1 DEF ModelIInv, ModelTyped
<1>3. FormerTurnsAreRevoked'
  BY <1>1 DEF ModelIInv, FormerTurnsAreRevoked, UnderWay, Revoked
<1>4. StatusIsOfThisProvider'
  <2>1. Pending' = Pending
    BY <1>1 DEF Pending
  <2>2. StatusIsOfThisProvider' <=> /\ providerStatus'.active = Cardinality(Pending')
                                    /\ (providerStatus'.state = "requesting") = (Pending' # {})
    BY DEF StatusIsOfThisProvider, Pending
  <2>3. QED
    BY <2>1, <2>2, StatusCountsPending DEF ModelIInv
<1>5. QED
  BY <1>2, <1>3, <1>4 DEF ModelIInv

LEMMA TurnSteps ==
  ASSUME ModelIInv, NEW t \in ModelTurns,
         \/ CancelTurn(t) \/ DeadlineTimer(t) \/ ProviderTimer(t)
         \/ ProviderAnswers(t) \/ FetchAborted(t)
  PROVE ModelIInv'
<1>1. UnderWay(t) /\ modelTurns[t] \in TurnRecords
  BY TurnShapes DEF CancelTurn, DeadlineTimer, ProviderTimer, ProviderAnswers, FetchAborted,
     Calling, UnderWay, ModelIInv
<1>2. ASSUME NEW turn, Changed(t, turn)
      PROVE /\ modelTurns' = [modelTurns EXCEPT ![t] = turn]
            /\ UNCHANGED <<provider, modelSessions, providerStatus>>
  BY <1>2 DEF Changed
<1>3. CASE CancelTurn(t)
  <2> DEFINE turn == [modelTurns[t] EXCEPT !.cancelled = TRUE]
  <2>1. /\ turn \in TurnRecords /\ turn.session = modelTurns[t].session
        /\ turn.generation = modelTurns[t].generation /\ turn.stage = modelTurns[t].stage
    BY <1>1 DEF TurnRecords
  <2>2. Changed(t, turn)
    BY <1>3 DEF CancelTurn
  <2> HIDE DEF turn
  <2>3. QED
    BY <1>1, <1>2, <2>1, <2>2, TurnMoves
<1>4. CASE DeadlineTimer(t)
  <2> DEFINE turn == [modelTurns[t] EXCEPT !.expired = TRUE]
  <2>1. /\ turn \in TurnRecords /\ turn.session = modelTurns[t].session
        /\ turn.generation = modelTurns[t].generation /\ turn.stage = modelTurns[t].stage
    BY <1>1 DEF TurnRecords
  <2>2. Changed(t, turn)
    BY <1>4 DEF DeadlineTimer
  <2> HIDE DEF turn
  <2>3. QED
    BY <1>1, <1>2, <2>1, <2>2, TurnMoves
<1>5. CASE ProviderTimer(t)
  <2> DEFINE turn == [modelTurns[t] EXCEPT !.providerExpired = TRUE]
  <2>1. /\ turn \in TurnRecords /\ turn.session = modelTurns[t].session
        /\ turn.generation = modelTurns[t].generation /\ turn.stage = modelTurns[t].stage
    BY <1>1 DEF TurnRecords
  <2>2. Changed(t, turn)
    BY <1>5 DEF ProviderTimer
  <2> HIDE DEF turn
  <2>3. QED
    BY <1>1, <1>2, <2>1, <2>2, TurnMoves
<1>6. CASE ProviderAnswers(t) \/ FetchAborted(t)
  <2>1. PICK r \in TurnResults :
          Changed(t, [modelTurns[t] EXCEPT !.stage = "settled", !.result = r])
    <3>1. CASE ProviderAnswers(t)
      BY <3>1 DEF ProviderAnswers, TurnResults
    <3>2. CASE FetchAborted(t)
      BY <3>2 DEF FetchAborted, TurnResults
    <3>3. QED
      BY <1>6, <3>1, <3>2
  <2> DEFINE turn == [modelTurns[t] EXCEPT !.stage = "settled", !.result = r]
  <2>2. /\ turn \in TurnRecords /\ turn.session = modelTurns[t].session
        /\ turn.generation = modelTurns[t].generation /\ turn.stage = "settled"
    BY <1>1 DEF TurnRecords
  <2>3. modelTurns[t].stage = "calling"
    BY <1>6 DEF ProviderAnswers, FetchAborted, Calling
  <2>4. Changed(t, turn)
    BY <2>1
  <2> HIDE DEF turn
  <2>5. QED
    BY <1>1, <1>2, <2>2, <2>3, <2>4, TurnMoves
<1>7. QED
  BY <1>3, <1>4, <1>5, <1>6

\* A turn starts for the provider of now: one more is pending.
LEMMA StartTurnKeeps ==
  ASSUME ModelIInv, NEW t \in ModelTurns, NEW s \in ModelSessions, StartTurn(t, s)
  PROVE ModelIInv'
<1>1. PICK requested \in Instants :
        LET deadline == TurnDeadline(s, requested) IN
        modelTurns' = [modelTurns EXCEPT ![t] =
            [stage |-> "calling", session |-> s, generation |-> provider.generation,
             deadline |-> deadline, cancelled |-> FALSE, expired |-> FALSE,
             providerExpired |-> FALSE, result |-> "none"]]
  BY DEF StartTurn
<1> DEFINE turn == [stage |-> "calling", session |-> s, generation |-> provider.generation,
             deadline |-> TurnDeadline(s, requested), cancelled |-> FALSE, expired |-> FALSE,
             providerExpired |-> FALSE, result |-> "none"]
<1>2. /\ modelSessions[s] \in SessionRecords /\ modelSessions[s].state = "open"
      /\ requested \in Nat /\ provider.generation \in Nat
  BY ModelAssumption DEF ModelIInv, ModelTyped, StartTurn, OpenOnes, Instants
<1>3. /\ turn \in TurnRecords /\ turn.stage = "calling" /\ turn.session = s
      /\ turn.generation = provider.generation
  <2>1. TurnDeadline(s, requested) \in Nat
    BY <1>2 DEF TurnDeadline, SessionRecords
  <2>2. QED
    BY <1>2, <2>1 DEF TurnRecords, TurnResults
<1>4. modelTurns[t].stage = "idle"
  BY DEF StartTurn, NoTurn
<1>5. modelTurns' = [modelTurns EXCEPT ![t] = turn]
  BY <1>1
<1> HIDE DEF turn
<1>6. /\ modelTurns'[t] = turn
      /\ \A x \in ModelTurns : x # t => modelTurns'[x] = modelTurns[x]
      /\ modelTurns' \in [ModelTurns -> {NoTurn} \cup {Over(a) : a \in TurnResults}
                                                 \cup TurnRecords]
  BY <1>3, <1>5 DEF ModelIInv, ModelTyped
<1>7. /\ modelSessions' \in [ModelSessions -> SessionRecords]
      /\ \A x \in ModelSessions : /\ modelSessions'[x].state = modelSessions[x].state
                                  /\ modelSessions'[x].aborted = modelSessions[x].aborted
  <2> DEFINE session == [modelSessions[s] EXCEPT !.busy = TRUE]
  <2>1. /\ session \in SessionRecords /\ session.state = modelSessions[s].state
        /\ session.aborted = modelSessions[s].aborted
    BY <1>2 DEF SessionRecords
  <2>2. modelSessions' = [modelSessions EXCEPT ![s] = session]
    BY DEF StartTurn
  <2> HIDE DEF session
  <2>3. QED
    BY <2>1, <2>2 DEF ModelIInv, ModelTyped
<1>8. provider' = provider
  BY DEF StartTurn
<1>9. ModelTyped'
  BY <1>6, <1>7, <1>8 DEF ModelIInv, ModelTyped
<1>10. FormerTurnsAreRevoked'
  <2>1. \A x \in ModelTurns : UnderWay(x) => modelTurns[x].session \in ModelSessions
    BY TurnShapes DEF ModelIInv, TurnRecords
  <2>2. QED
    BY <1>2, <1>3, <1>6, <1>7, <1>8, <2>1
       DEF ModelIInv, FormerTurnsAreRevoked, UnderWay, Revoked
<1>11. StatusIsOfThisProvider'
  <2>1. Pending' = Pending \cup {t} /\ t \notin Pending
    BY <1>3, <1>4, <1>6, <1>8 DEF Pending
  <2>2. Cardinality(Pending') = Cardinality(Pending) + 1
    BY <2>1, PendingIsFinite, FS_AddElement
  <2>3. StatusIsOfThisProvider' <=> /\ providerStatus'.active = Cardinality(Pending')
                                    /\ (providerStatus'.state = "requesting") = (Pending' # {})
    BY DEF StatusIsOfThisProvider, Pending
  <2>4. /\ providerStatus'.active = providerStatus.active + 1
        /\ providerStatus'.state = "requesting"
    BY DEF StartTurn
  <2>5. QED
    BY <2>1, <2>2, <2>3, <2>4, StatusCountsPending DEF ModelIInv
<1>12. QED
  BY <1>9, <1>10, <1>11 DEF ModelIInv

\* The studio counts a result once, and only for the provider of now.
LEMMA ObserveResultKeeps ==
  ASSUME ModelIInv, NEW t \in ModelTurns, ObserveResult(t)
  PROVE ModelIInv'
<1> DEFINE turn == [modelTurns[t] EXCEPT !.stage = "observed"]
<1>1. modelTurns[t].stage = "settled" /\ UnderWay(t) /\ modelTurns[t] \in TurnRecords
  BY TurnShapes DEF ObserveResult, UnderWay, ModelIInv
<1>2. /\ turn \in TurnRecords /\ turn.stage = "observed"
      /\ turn.session = modelTurns[t].session /\ turn.generation = modelTurns[t].generation
  BY <1>1 DEF TurnRecords
<1>3. modelTurns' = [modelTurns EXCEPT ![t] = turn] /\ UNCHANGED <<provider, modelSessions>>
  BY DEF ObserveResult
<1> HIDE DEF turn
<1>4. /\ modelTurns'[t] = turn
      /\ \A x \in ModelTurns : x # t => modelTurns'[x] = modelTurns[x]
      /\ modelTurns' \in [ModelTurns -> {NoTurn} \cup {Over(a) : a \in TurnResults}
                                                 \cup TurnRecords]
  BY <1>2, <1>3 DEF ModelIInv, ModelTyped
<1>5. ModelTyped'
  BY <1>3, <1>4 DEF ModelIInv, ModelTyped
<1>6. FormerTurnsAreRevoked'
  BY <1>1, <1>2, <1>3, <1>4 DEF ModelIInv, FormerTurnsAreRevoked, UnderWay, Revoked
<1>7. StatusIsOfThisProvider' <=> /\ providerStatus'.active = Cardinality(Pending')
                                  /\ (providerStatus'.state = "requesting") = (Pending' # {})
  BY DEF StatusIsOfThisProvider, Pending
<1>8. Pending' = Pending \ {t}
  BY <1>2, <1>3, <1>4 DEF Pending
<1>9. StatusIsOfThisProvider'
  <2>1. CASE modelTurns[t].generation # provider.generation
    <3>1. Pending' = Pending
      BY <1>8, <2>1 DEF Pending
    <3>2. providerStatus' = providerStatus
      BY <2>1 DEF ObserveResult
    <3>3. QED
      BY <1>7, <3>1, <3>2, StatusCountsPending DEF ModelIInv
  <2>2. CASE modelTurns[t].generation = provider.generation
    <3>1. t \in Pending
      BY <1>1, <2>2 DEF Pending
    <3>2. PICK n \in Nat : n = Cardinality(Pending')
      BY <1>8, PendingIsFinite, FS_RemoveElement, FS_CardinalityType, FS_Subset
    <3>3. Cardinality(Pending) = n + 1
      <4>1. Cardinality(Pending) \in Nat /\ Cardinality(Pending \ {t}) = Cardinality(Pending) - 1
        BY <3>1, PendingIsFinite, FS_RemoveElement, FS_CardinalityType
      <4>2. QED
        BY <1>8, <3>2, <4>1
    <3>4. providerStatus.active = n + 1 /\ providerStatus.state = "requesting"
      BY <3>1, <3>3, StatusCountsPending DEF ModelIInv
    <3>5. (n = 0) = (Pending' = {})
      <4>1. IsFiniteSet(Pending')
        BY <1>8, PendingIsFinite, FS_Subset
      <4>2. QED
        BY <3>2, <4>1, FS_EmptySet
    <3>6. /\ providerStatus'.active = n
          /\ (providerStatus'.state = "requesting") = (n > 0)
      BY <2>2, <3>4 DEF ObserveResult
    <3>7. QED
      BY <1>7, <3>2, <3>5, <3>6
  <2>3. QED
    BY <2>1, <2>2
<1>10. QED
  BY <1>5, <1>6, <1>9 DEF ModelIInv

\* What is over, or has been taken, is no longer under way.
LEMMA EndKeeps ==
  ASSUME ModelIInv, NEW t \in ModelTurns, ReturnTurn(t) \/ TakeAnswer(t)
  PROVE ModelIInv'
<1>1. modelTurns[t].stage \notin {"calling", "settled"}
  BY DEF ReturnTurn, TakeAnswer
<1>2. PICK turn \in {NoTurn} \cup {Over(a) : a \in TurnResults} :
        modelTurns' = [modelTurns EXCEPT ![t] = turn]
  <2>1. CASE ReturnTurn(t)
    <3>1. modelTurns[t] \in TurnRecords
      BY <2>1, TurnShapes DEF ReturnTurn, UnderWay, ModelIInv
    <3>2. TurnAnswer(t) \in TurnResults
      BY <3>1 DEF TurnAnswer, TurnResults, TurnRecords
    <3>3. QED
      BY <2>1, <3>2 DEF ReturnTurn
  <2>2. CASE TakeAnswer(t)
    BY <2>2 DEF TakeAnswer, Changed
  <2>3. QED
    BY <2>1, <2>2
<1>3. turn.stage \in {"idle", "over"}
  BY DEF NoTurn, Over
<1>4. /\ modelTurns'[t] = turn
      /\ \A x \in ModelTurns : x # t => modelTurns'[x] = modelTurns[x]
      /\ modelTurns' \in [ModelTurns -> {NoTurn} \cup {Over(a) : a \in TurnResults}
                                                 \cup TurnRecords]
  BY <1>2 DEF ModelIInv, ModelTyped
<1>5. UNCHANGED <<provider, providerStatus>>
  BY DEF ReturnTurn, TakeAnswer, Changed
<1>6. /\ modelSessions' \in [ModelSessions -> SessionRecords]
      /\ \A x \in ModelSessions : /\ modelSessions'[x].state = modelSessions[x].state
                                  /\ modelSessions'[x].aborted = modelSessions[x].aborted
  <2>1. CASE ReturnTurn(t)
    <3> DEFINE s == modelTurns[t].session
               session == [modelSessions[s] EXCEPT !.busy = FALSE]
    <3>1. s \in ModelSessions
      BY <2>1, TurnShapes DEF ReturnTurn, UnderWay, ModelIInv, TurnRecords
    <3>2. modelSessions[s] \in SessionRecords
      BY <3>1 DEF ModelIInv, ModelTyped
    <3>3. /\ session \in SessionRecords /\ session.state = modelSessions[s].state
          /\ session.aborted = modelSessions[s].aborted
      BY <3>2 DEF SessionRecords
    <3>4. modelSessions' = [modelSessions EXCEPT ![s] = session]
      BY <2>1 DEF ReturnTurn
    <3> HIDE DEF s, session
    <3>5. QED
      BY <3>1, <3>3, <3>4 DEF ModelIInv, ModelTyped
  <2>2. CASE TakeAnswer(t)
    BY <2>2 DEF TakeAnswer, Changed, ModelIInv, ModelTyped
  <2>3. QED
    BY <2>1, <2>2
<1>7. ModelTyped'
  BY <1>4, <1>5, <1>6 DEF ModelIInv, ModelTyped
<1>8. FormerTurnsAreRevoked'
  <2>1. \A x \in ModelTurns : UnderWay(x) => modelTurns[x].session \in ModelSessions
    BY TurnShapes DEF ModelIInv, TurnRecords
  <2>2. QED
    BY <1>3, <1>4, <1>5, <1>6, <2>1 DEF ModelIInv, FormerTurnsAreRevoked, UnderWay, Revoked
<1>9. StatusIsOfThisProvider'
  <2>1. Pending' = Pending
    BY <1>1, <1>3, <1>4, <1>5 DEF Pending
  <2>2. StatusIsOfThisProvider' <=> /\ providerStatus'.active = Cardinality(Pending')
                                    /\ (providerStatus'.state = "requesting") = (Pending' # {})
    BY DEF StatusIsOfThisProvider, Pending
  <2>3. QED
    BY <1>5, <2>1, <2>2, StatusCountsPending DEF ModelIInv
<1>10. QED
  BY <1>7, <1>8, <1>9 DEF ModelIInv

LEMMA ModelSteps == ModelIInv /\ [ModelNext]_modelVars => ModelIInv'
<1> SUFFICES ASSUME ModelIInv, [ModelNext]_modelVars PROVE ModelIInv'
  OBVIOUS
<1>1. CASE ConfigureProvider
  BY <1>1, ReplacingKeeps DEF ConfigureProvider
<1>2. CASE Disconnect
  BY <1>2, ReplacingKeeps DEF Disconnect
<1>3. CASE InstantPasses \/ UNCHANGED modelVars
  <2>1. UNCHANGED <<provider, modelSessions, modelTurns, providerStatus>>
    BY <1>3 DEF InstantPasses, modelVars
  <2>2. QED
    BY <2>1 DEF ModelIInv, ModelTyped, FormerTurnsAreRevoked, UnderWay, Revoked,
       StatusIsOfThisProvider
<1>4. ASSUME NEW s \in ModelSessions, OpenModelSession(s) \/ CloseModelSession(s)
      PROVE ModelIInv'
  BY <1>4, SessionSteps
<1>5. ASSUME NEW t \in ModelTurns,
             \/ CancelTurn(t) \/ DeadlineTimer(t) \/ ProviderTimer(t)
             \/ ProviderAnswers(t) \/ FetchAborted(t)
      PROVE ModelIInv'
  BY <1>5, TurnSteps
<1>6. QED
  BY <1>1, <1>2, <1>3, <1>4, <1>5, StartTurnKeeps, ObserveResultKeeps, EndKeeps DEF ModelNext

\* A turn of a former provider is told that it was aborted.
LEMMA FormerAnswersAreAborts ==
  ASSUME ModelIInv, [ModelNext]_modelVars, NEW t \in ModelTurns,
         modelTurns[t].stage = "observed", modelTurns'[t] = Over("ok")
  PROVE modelTurns[t].generation = provider.generation
<1>1. UnderWay(t) /\ modelTurns[t] \in TurnRecords
  BY TurnShapes DEF UnderWay, ModelIInv
<1>2. modelTurns'[t] # modelTurns[t] /\ modelTurns'[t].stage = "over"
  BY DEF Over
<1>3. CASE ReturnTurn(t)
  <2>1. modelTurns'[t] = Over(TurnAnswer(t))
    BY <1>3 DEF ReturnTurn, ModelIInv, ModelTyped
  <2>2. TurnAnswer(t) = "ok"
    BY <2>1 DEF Over
  <2>3. ~Revoked(t)
    BY <2>2 DEF TurnAnswer
  <2>4. QED
    BY <1>1, <2>3 DEF ModelIInv, FormerTurnsAreRevoked
<1>4. CASE CancelTurn(t) \/ DeadlineTimer(t)
  <2>1. modelTurns'[t] = [modelTurns[t] EXCEPT !.cancelled = TRUE]
          \/ modelTurns'[t] = [modelTurns[t] EXCEPT !.expired = TRUE]
    BY <1>4 DEF CancelTurn, DeadlineTimer, Changed, ModelIInv, ModelTyped
  <2>2. modelTurns'[t].stage = "observed"
    BY <1>1, <2>1 DEF TurnRecords
  <2>3. QED
    BY <1>2, <2>2
<1>5. ASSUME NEW x \in ModelTurns, x # t,
             \/ \E s \in ModelSessions : StartTurn(x, s)
             \/ CancelTurn(x) \/ DeadlineTimer(x) \/ ProviderTimer(x) \/ ProviderAnswers(x)
             \/ FetchAborted(x) \/ ObserveResult(x) \/ ReturnTurn(x) \/ TakeAnswer(x)
      PROVE modelTurns'[t] = modelTurns[t]
  <2>1. \E turn : modelTurns' = [modelTurns EXCEPT ![x] = turn]
    BY <1>5 DEF StartTurn, CancelTurn, DeadlineTimer, ProviderTimer, ProviderAnswers,
       FetchAborted, ObserveResult, ReturnTurn, TakeAnswer, Changed
  <2>2. QED
    BY <1>5, <2>1 DEF ModelIInv, ModelTyped
<1>6. ~(ProviderTimer(t) \/ ProviderAnswers(t) \/ FetchAborted(t) \/ ObserveResult(t)
          \/ TakeAnswer(t) \/ \E s \in ModelSessions : StartTurn(t, s))
  BY DEF ProviderTimer, ProviderAnswers, FetchAborted, Calling, ObserveResult, TakeAnswer,
     StartTurn, NoTurn
<1>7. ASSUME ConfigureProvider \/ Disconnect \/ InstantPasses \/ UNCHANGED modelVars
               \/ \E s \in ModelSessions : OpenModelSession(s) \/ CloseModelSession(s)
      PROVE modelTurns' = modelTurns
  BY <1>7 DEF ConfigureProvider, Disconnect, InstantPasses, modelVars, OpenModelSession,
     CloseModelSession
<1>8. QED
  BY <1>2, <1>3, <1>4, <1>5, <1>6, <1>7 DEF ModelNext

\* Only the provider configured now speaks: the status counts its requests and no
\* others, and no turn hands out an output of a provider that was replaced since, even
\* one that had already answered (configure, runTurn of model-agent-backend.ts; observe of
\* local-author-provider.ts).
THEOREM FormerProvidersAreSilent == ModelSpec => OnlyThisProviderSpeaks
<1> DEFINE Spoken == /\ StatusIsOfThisProvider'
                     /\ \A t \in ModelTurns :
                          modelTurns[t].stage = "observed" /\ modelTurns'[t] = Over("ok")
                            => modelTurns[t].generation = provider.generation
<1>1. ModelIInv /\ [ModelNext]_modelVars => [Spoken]_modelVars
  <2>1. SUFFICES ASSUME ModelIInv, [ModelNext]_modelVars PROVE Spoken
    OBVIOUS
  <2>2. StatusIsOfThisProvider'
    BY <2>1, ModelSteps DEF ModelIInv
  <2>3. QED
    BY <2>1, <2>2, FormerAnswersAreAborts
<1>2. OnlyThisProviderSpeaks <=> [][Spoken]_modelVars
  BY DEF OnlyThisProviderSpeaks
<1>3. QED
  BY ModelStarts, ModelSteps, <1>1, <1>2, PTL DEF ModelSpec

-----------------------------------------------------------------------------
(* The reads of references.  A call that is about to write the pin knows   *)
(* that there is none unless the job's version has moved, and every change *)
(* of the journal moves it.  A call past the pin works for the documents   *)
(* the pin names.  A call that has reserved an operation is the only one   *)
(* that holds it, the operation is pending under its request, and nobody   *)
(* has asked for it before that call does.                                 *)

JournalFacts == [kind : Notes \cup LifecycleKinds] \cup {PinOf(docs) : docs \in Docs}
Working == {"pin", "write", "reserve", "send", "race"}
Holding == {"send", "race"}
WorkingCalls == [at : Working, id : Operations, request : Requests, version : Nat,
                 online : BOOLEAN]
JobRecords == [state : States, version : Nat, calls : Nat, active : Nat]
OperationRecords == [request : Requests, status : {"pending", "completed"}]

ReadsTyped ==
  /\ job \in JobRecords
  /\ journal \in Seq(JournalFacts)
  /\ tool \in [docs : Docs, online : BOOLEAN, granted : BOOLEAN]
  /\ ops \in [Reserved -> OperationRecords]
  /\ asked \in [Operations -> Seq(Docs)]
  /\ toolCalls = [c \in ToolCalls |-> toolCalls[c]]
  /\ \A c \in ToolCalls : toolCalls[c].at \in Working => toolCalls[c] \in WorkingCalls

PinPositions == Positions(journal, "broker.pinned")

PinIsKnown ==
  \A c \in ToolCalls :
    /\ toolCalls[c].at \in {"pin", "write"} => toolCalls[c].version <= job.version
    /\ ToolAt(c, "write") /\ toolCalls[c].version = job.version => PinPositions = {}
    /\ toolCalls[c].at \in {"reserve", "send", "race"} => PinOf(tool.docs) \in PinsOf(journal)

HoldersHold ==
  /\ \A c \in ToolCalls : toolCalls[c].at \in Holding =>
       /\ tool.granted
       /\ toolCalls[c].id \in Reserved
       /\ ops[toolCalls[c].id].request = toolCalls[c].request
       /\ ops[toolCalls[c].id].status = "pending"
       /\ ToolAt(c, "send") => asked[toolCalls[c].id] = <<>>
  /\ \A c, d \in ToolCalls :
       toolCalls[c].at \in Holding /\ toolCalls[d].at \in Holding
         /\ toolCalls[c].id = toolCalls[d].id => c = d

ReadsIInv ==
  /\ ReadsTyped /\ PinIsKnown /\ HoldersHold
  /\ CompletedOps \subseteq DOMAIN recorded
  /\ ReadsAreRecordedOnce

\* Positions are counted exactly.
LEMMA PinsAreFinite ==
  ASSUME ReadsTyped
  PROVE /\ IsFiniteSet(PinPositions) /\ Count("broker.pinned") = Cardinality(PinPositions)
        /\ Count("broker.pinned") = 0 <=> PinPositions = {}
<1>1. Len(journal) \in Nat /\ DOMAIN journal = 1 .. Len(journal)
  BY DEF ReadsTyped
<1>2. IsFiniteSet(1 .. Len(journal))
  BY <1>1, FS_Interval
<1>3. IsFiniteSet(PinPositions)
  BY <1>1, <1>2, FS_Subset DEF PinPositions, Positions
<1>4. QED
  BY <1>3, FS_EmptySet DEF Count, PinPositions

LEMMA FactsAppended ==
  ASSUME NEW facts \in Seq(JournalFacts), NEW fact \in JournalFacts, NEW kind
  PROVE LET longer == Append(facts, fact) IN
        /\ longer \in Seq(JournalFacts)
        /\ \A i \in DOMAIN facts : i \in DOMAIN longer /\ longer[i] = facts[i]
        /\ fact.kind # kind => Positions(longer, kind) = Positions(facts, kind)
        /\ fact.kind = kind =>
             /\ Positions(longer, kind) = Positions(facts, kind) \cup {Len(facts) + 1}
             /\ longer[Len(facts) + 1] = fact
<1> DEFINE longer == Append(facts, fact)
<1>1. /\ longer \in Seq(JournalFacts) /\ Len(facts) \in Nat
      /\ Len(longer) = Len(facts) + 1
      /\ \A i \in 1 .. Len(facts) : longer[i] = facts[i]
      /\ longer[Len(facts) + 1] = fact
  BY AppendProperties
<1>2. DOMAIN facts = 1 .. Len(facts) /\ DOMAIN longer = 1 .. (Len(facts) + 1)
  BY <1>1
<1> HIDE DEF longer
<1>3. \A i : i \in DOMAIN longer <=> i \in DOMAIN facts \/ i = Len(facts) + 1
  BY <1>1, <1>2
<1>4. QED
  BY <1>1, <1>2, <1>3 DEF longer, Positions

\* What a step that journals no pin leaves of the pins.
PinsKept ==
  /\ journal' \in Seq(JournalFacts)
  /\ Positions(journal', "broker.pinned") = PinPositions
  /\ PinsOf(journal') = PinsOf(journal)
  /\ Count("broker.pinned")' = Count("broker.pinned")

LEMMA JournalKeepsPins ==
  ASSUME ReadsTyped,
         \/ journal' = journal
         \/ \E kind \in (Notes \cup LifecycleKinds) : journal' = Append(journal, Fact(kind))
  PROVE PinsKept
<1>1. CASE journal' = journal
  BY <1>1 DEF PinsKept, ReadsTyped, PinPositions, PinsOf, Count
<1>2. ASSUME NEW kind \in Notes \cup LifecycleKinds, journal' = Append(journal, Fact(kind))
      PROVE PinsKept
  <2>1. Fact(kind) \in JournalFacts /\ Fact(kind).kind # "broker.pinned"
    BY PinAssumption DEF Fact, JournalFacts, LifecycleKinds
  <2>2. /\ journal' \in Seq(JournalFacts)
        /\ Positions(journal', "broker.pinned") = PinPositions
        /\ \A i \in DOMAIN journal : journal'[i] = journal[i]
    BY <1>2, <2>1, FactsAppended DEF ReadsTyped, PinPositions
  <2>3. Positions(journal, "broker.pinned") \subseteq DOMAIN journal
    BY DEF Positions
  <2>4. PinsOf(journal') = PinsOf(journal)
    BY <2>2, <2>3 DEF PinsOf, PinPositions
  <2>5. QED
    BY <2>2, <2>4 DEF PinsKept, PinPositions, Count
<1>3. QED
  BY <1>1, <1>2

LEMMA ReadsStart == ReadsInit => ReadsIInv
<1> SUFFICES ASSUME ReadsInit PROVE ReadsIInv
  OBVIOUS
<1>1. /\ job = [state |-> "queued", version |-> 0, calls |-> 0, active |-> 0]
      /\ journal = <<Fact("job.created")>> /\ ops = [o \in {} |-> {}]
  BY DEF ReadsInit, JobInit
<1>2. Reserved = {} /\ CompletedOps = {}
  BY <1>1 DEF Reserved, CompletedOps
<1>3. \A c \in ToolCalls : toolCalls[c].at = "idle"
  BY DEF ReadsInit, NotCalled
<1>4. Fact("job.created") \in JournalFacts /\ Fact("job.created").kind # "broker.pinned"
  BY DEF Fact, JournalFacts, LifecycleKinds
<1>5. journal \in Seq(JournalFacts) /\ PinPositions = {}
  <2>1. PICK none \in Seq(JournalFacts) : none = <<>>
    <3>1. <<>> \in Seq(JournalFacts)
      BY EmptySeq
    <3>2. QED
      BY <3>1
  <2>2. journal = Append(none, Fact("job.created")) /\ Positions(none, "broker.pinned") = {}
    BY <1>1, <2>1 DEF Positions
  <2>3. QED
    BY <1>4, <2>2, FactsAppended DEF PinPositions
<1>6. ReadsTyped
  <2>1. job \in JobRecords
    BY <1>1 DEF States, JobRecords
  <2>2. ops \in [Reserved -> OperationRecords]
    BY <1>1, <1>2
  <2>3. asked \in [Operations -> Seq(Docs)]
    BY DEF ReadsInit
  <2>4. toolCalls = [c \in ToolCalls |-> toolCalls[c]]
    BY DEF ReadsInit
  <2>5. QED
    BY <1>3, <1>5, <2>1, <2>2, <2>3, <2>4 DEF ReadsTyped, ReadsInit, Working
<1>7. PinIsKnown /\ HoldersHold
  BY <1>3 DEF PinIsKnown, HoldersHold, ToolAt, Holding
<1>8. ReadsAreRecordedOnce
  <2>1. Count("broker.pinned") = 0
    BY <1>5, <1>6, PinsAreFinite
  <2>2. \A o \in Operations : asked[o] = <<>> /\ Len(asked[o]) = 0 /\ DOMAIN asked[o] = {}
    BY DEF ReadsInit
  <2>3. QED
    BY <1>3, <2>1, <2>2 DEF ReadsAreRecordedOnce, ToolAt
<1>9. QED
  BY <1>2, <1>6, <1>7, <1>8 DEF ReadsIInv

\* What must be true of a call that holds nothing.
StandsRight(call) ==
  /\ call.at \in Working => call \in WorkingCalls
  /\ call.at \in {"pin", "write"} => call.version <= job.version
  /\ call.at = "write" /\ call.version = job.version => PinPositions = {}
  /\ call.at = "reserve" => PinOf(tool.docs) \in PinsOf(journal)
  /\ call.at \notin Holding
  /\ call.at = "answered" =>
       /\ call.id \in CompletedOps
       /\ recorded[call.id] = call.result
       /\ ops[call.id].request = call.request

LEMMA CallMoves ==
  ASSUME ReadsIInv, NEW c \in ToolCalls, NEW call, StandsRight(call),
         toolCalls' = [toolCalls EXCEPT ![c] = call],
         UNCHANGED <<jobVars, tool, recorded, asked>>
  PROVE ReadsIInv'
<1>1. /\ toolCalls'[c] = call
      /\ \A d \in ToolCalls : d # c => toolCalls'[d] = toolCalls[d]
      /\ toolCalls' = [d \in ToolCalls |-> toolCalls'[d]]
  BY DEF ReadsIInv, ReadsTyped
<1>2. /\ job' = job /\ journal' = journal /\ ops' = ops /\ tool' = tool
      /\ recorded' = recorded /\ asked' = asked
  BY DEF jobVars
<1>3. ReadsTyped'
  BY <1>1, <1>2 DEF ReadsIInv, ReadsTyped, StandsRight, Reserved
<1>4. PinIsKnown'
  BY <1>1, <1>2 DEF ReadsIInv, PinIsKnown, StandsRight, ToolAt, PinPositions, Holding
<1>5. HoldersHold'
  BY <1>1, <1>2 DEF ReadsIInv, HoldersHold, StandsRight, ToolAt, Holding, Reserved
<1>6. (CompletedOps \subseteq DOMAIN recorded)'
  BY <1>2 DEF ReadsIInv, CompletedOps, Reserved
<1>7. ReadsAreRecordedOnce'
  BY <1>1, <1>2 DEF ReadsIInv, ReadsAreRecordedOnce, StandsRight, ToolAt, Count, CompletedOps,
     Reserved
<1>8. QED
  BY <1>3, <1>4, <1>5, <1>6, <1>7 DEF ReadsIInv

\* A call ends with an answer that is no result of a read.
LEMMA DeniedKeeps ==
  ASSUME ReadsIInv, NEW c \in ToolCalls, NEW code, Denied(c, code)
  PROVE ReadsIInv'
<1> DEFINE call == [at |-> "denied", code |-> code]
<1>1. StandsRight(call)
  BY DEF StandsRight, Working, Holding
<1>2. toolCalls' = [toolCalls EXCEPT ![c] = call] /\ UNCHANGED <<jobVars, tool, recorded, asked>>
  BY DEF Denied
<1> HIDE DEF call
<1>3. QED
  BY <1>1, <1>2, CallMoves

LEMMA CallToolKeeps ==
  ASSUME ReadsIInv, NEW c \in ToolCalls, NEW id \in Operations, NEW request \in Requests,
         CallTool(c, id, request)
  PROVE ReadsIInv'
<1> DEFINE call == [at |-> "pin", id |-> id, request |-> request, version |-> job.version,
                    online |-> FALSE]
<1>1. job.version \in Nat
  BY DEF ReadsIInv, ReadsTyped, JobRecords
<1>2. StandsRight(call)
  BY <1>1 DEF StandsRight, Working, Holding, WorkingCalls
<1>3. toolCalls' = [toolCalls EXCEPT ![c] = call] /\ UNCHANGED <<jobVars, tool, recorded, asked>>
  BY DEF CallTool
<1> HIDE DEF call
<1>4. QED
  BY <1>2, <1>3, CallMoves

LEMMA FindPinKeeps ==
  ASSUME ReadsIInv, NEW c \in ToolCalls, FindPin(c)
  PROVE ReadsIInv'
<1>1. ToolAt(c, "pin") /\ toolCalls[c] \in WorkingCalls
  BY DEF FindPin, ToolAt, Working, ReadsIInv, ReadsTyped
<1>2. PICK version \in Nat : version = toolCalls[c].version /\ version <= job.version
  BY <1>1 DEF ReadsIInv, WorkingCalls, PinIsKnown, ToolAt
<1>3. ASSUME NEW at \in {"write", "reserve"}, Goes(c, at, toolCalls[c].version),
             UNCHANGED <<jobVars, tool, recorded, asked>>,
             at = "write" => PinPositions = {},
             at = "reserve" => PinOf(tool.docs) \in PinsOf(journal)
      PROVE ReadsIInv'
  <2> DEFINE call == [toolCalls[c] EXCEPT !.at = at, !.version = version]
  <2>1. at \in Working
    BY DEF Working
  <2>2. /\ call \in WorkingCalls /\ call.at = at /\ call.version = version
    BY <1>1, <2>1 DEF WorkingCalls
  <2>3. toolCalls' = [toolCalls EXCEPT ![c] = call]
    BY <1>2, <1>3 DEF Goes
  <2> HIDE DEF call
  <2>4. StandsRight(call)
    BY <1>2, <1>3, <2>2 DEF StandsRight, Holding
  <2>5. QED
    BY <1>3, <2>3, <2>4, CallMoves
<1>4. CASE Count("broker.pinned") = 0
  <2>1. PinPositions = {}
    BY <1>4, PinsAreFinite DEF ReadsIInv
  <2>2. ~PinHolds
    BY <1>4 DEF PinHolds
  <2>3. QED
    BY <1>3, <1>4, <2>1, <2>2 DEF FindPin
<1>5. CASE Count("broker.pinned") # 0 /\ PinHolds
  BY <1>3, <1>5 DEF FindPin, PinHolds
<1>6. CASE Count("broker.pinned") # 0 /\ ~PinHolds
  BY <1>6, DeniedKeeps DEF FindPin
<1>7. QED
  BY <1>4, <1>5, <1>6

LEMMA BumpedJob ==
  ASSUME ReadsTyped
  PROVE /\ Bumped \in JobRecords /\ job.version \in Nat /\ Bumped.version = job.version + 1
        /\ Bumped.state = job.state
BY DEF ReadsTyped, JobRecords, Bumped

\* When the job moves, the calls before the pin know nothing of it, and those past it
\* still find their pin.
LEMMA VersionMoves ==
  ASSUME ReadsIInv, job'.version = job.version + 1, PinsOf(journal) \subseteq PinsOf(journal'),
         tool' = tool,
         \A d \in ToolCalls :
           \/ toolCalls'[d] = toolCalls[d]
           \/ /\ toolCalls'[d].at \notin {"pin", "write"}
              /\ toolCalls'[d].at \in {"reserve", "send", "race"} =>
                   PinOf(tool.docs) \in PinsOf(journal')
  PROVE PinIsKnown'
<1>1. job.version \in Nat
  BY DEF ReadsIInv, ReadsTyped, JobRecords
<1>2. ASSUME NEW d \in ToolCalls
      PROVE /\ toolCalls'[d].at \in {"pin", "write"} =>
                 toolCalls'[d].version <= job'.version /\ toolCalls'[d].version # job'.version
            /\ toolCalls'[d].at \in {"reserve", "send", "race"} =>
                 PinOf(tool.docs) \in PinsOf(journal')
  <2>1. CASE toolCalls'[d] = toolCalls[d]
    <3>1. toolCalls[d].at \in {"pin", "write"} =>
            toolCalls[d].version \in Nat /\ toolCalls[d].version <= job.version
      BY DEF ReadsIInv, ReadsTyped, PinIsKnown, Working, WorkingCalls
    <3>2. toolCalls[d].at \in {"reserve", "send", "race"} => PinOf(tool.docs) \in PinsOf(journal)
      BY DEF ReadsIInv, PinIsKnown
    <3>3. QED
      BY <1>1, <2>1, <3>1, <3>2
  <2>2. QED
    BY <2>1
<1>3. QED
  BY <1>2 DEF PinIsKnown, ToolAt

\* The job is moved by others.
LEMMA JobMovesKeeps ==
  ASSUME ReadsIInv, JobMoves
  PROVE ReadsIInv'
<1>1. /\ job' \in JobRecords /\ job'.version = job.version + 1
      /\ \/ journal' = journal
         \/ \E kind \in (Notes \cup LifecycleKinds) : journal' = Append(journal, Fact(kind))
  <2>1. ASSUME NEW to \in States, Transition(job.version, to)
        PROVE /\ job' \in JobRecords /\ job'.version = job.version + 1
              /\ \/ journal' = journal
                 \/ \E kind \in LifecycleKinds : journal' = Append(journal, Fact(kind))
    <3>1. WithState(to) \in JobRecords /\ WithState(to).version = job.version + 1
      BY BumpedJob DEF ReadsIInv, WithState, JobRecords
    <3>2. \/ TransitionFact(to) = <<>>
          \/ \E kind \in LifecycleKinds : TransitionFact(to) = <<Fact(kind)>>
      BY DEF TransitionFact, LifecycleKinds
    <3>3. journal' = journal \o TransitionFact(to) /\ journal \in Seq(JournalFacts)
      BY <2>1 DEF Transition, ReadsIInv, ReadsTyped
    <3>4. \A kind \in LifecycleKinds : journal \o <<Fact(kind)>> = Append(journal, Fact(kind))
      BY <3>3 DEF Fact, JournalFacts
    <3>5. journal \o <<>> = journal
      BY <3>3
    <3>6. QED
      BY <2>1, <3>1, <3>2, <3>3, <3>4, <3>5 DEF Transition
  <2>2. ASSUME NEW note \in Notes, AppendCheckpoint(job.version, Fact(note))
        PROVE /\ job' \in JobRecords /\ job'.version = job.version + 1
              /\ journal' = Append(journal, Fact(note))
    BY <2>2, BumpedJob DEF AppendCheckpoint, ReadsIInv
  <2>3. QED
    BY <2>1, <2>2 DEF JobMoves
<1>2. /\ ops' = ops /\ tool' = tool /\ recorded' = recorded /\ toolCalls' = toolCalls
      /\ asked' = asked
  BY DEF JobMoves, Transition, AppendCheckpoint, toolVars
<1>3. PinsKept
  BY <1>1, JournalKeepsPins DEF ReadsIInv
<1>4. ReadsTyped'
  BY <1>1, <1>2, <1>3 DEF ReadsIInv, ReadsTyped, PinsKept, Reserved
<1>5. PinIsKnown'
  BY <1>1, <1>2, <1>3, VersionMoves DEF PinsKept
<1>6. HoldersHold' /\ (CompletedOps \subseteq DOMAIN recorded)'
  BY <1>2 DEF ReadsIInv, HoldersHold, ToolAt, Reserved, CompletedOps
<1>7. ReadsAreRecordedOnce'
  BY <1>2, <1>3 DEF ReadsIInv, ReadsAreRecordedOnce, PinsKept, ToolAt, CompletedOps, Reserved
<1>8. QED
  BY <1>4, <1>5, <1>6, <1>7 DEF ReadsIInv

\* The first pin: nobody else has journaled one, since the version has not moved.
LEMMA WritePinKeeps ==
  ASSUME ReadsIInv, NEW c \in ToolCalls, WritePin(c)
  PROVE ReadsIInv'
<1>1. CASE \E code : Denied(c, code)
  BY <1>1, DeniedKeeps
<1>2. CASE /\ ToolAt(c, "write") /\ AppendCheckpoint(toolCalls[c].version, PinOf(tool.docs))
           /\ Goes(c, "reserve", job'.version)
           /\ UNCHANGED <<tool, recorded, asked>>
  <2>1. PICK pin \in JournalFacts : pin = PinOf(tool.docs) /\ pin.kind = "broker.pinned"
    <3>1. tool.docs \in Docs
      BY DEF ReadsIInv, ReadsTyped
    <3>2. PinOf(tool.docs) \in JournalFacts
      BY <3>1 DEF JournalFacts
    <3>3. PinOf(tool.docs).kind = "broker.pinned"
      BY DEF PinOf
    <3>4. QED
      BY <3>2, <3>3
  <2>2. /\ job' \in JobRecords /\ job'.version = job.version + 1 /\ job'.version \in Nat
        /\ journal' = Append(journal, pin) /\ ops' = ops
        /\ tool' = tool /\ recorded' = recorded /\ asked' = asked
    BY <1>2, <2>1, BumpedJob DEF AppendCheckpoint, ReadsIInv
  <2>3. PinPositions = {} /\ PinsOf(journal) = {}
    BY <1>2 DEF AppendCheckpoint, ReadsIInv, PinIsKnown, PinPositions, PinsOf
  <2>4. /\ journal' \in Seq(JournalFacts)
        /\ Positions(journal', "broker.pinned") = {Len(journal) + 1}
        /\ journal'[Len(journal) + 1] = pin
    <3>1. PICK facts \in Seq(JournalFacts) : facts = journal
      BY DEF ReadsIInv, ReadsTyped
    <3>2. Positions(facts, "broker.pinned") = {} /\ journal' = Append(facts, pin)
      BY <2>2, <2>3, <3>1 DEF PinPositions
    <3>3. /\ Append(facts, pin) \in Seq(JournalFacts)
          /\ Positions(Append(facts, pin), "broker.pinned") =
               Positions(facts, "broker.pinned") \cup {Len(facts) + 1}
          /\ Append(facts, pin)[Len(facts) + 1] = pin
      BY <2>1, FactsAppended
    <3>4. QED
      BY <3>1, <3>2, <3>3
  <2>5. PinsOf(journal') = {PinOf(tool.docs)}
    BY <2>1, <2>4 DEF PinsOf
  <2>6. Count("broker.pinned")' <= 1
    <3>1. Count("broker.pinned")' = Cardinality({Len(journal) + 1})
      BY <2>4 DEF Count
    <3>2. Cardinality({Len(journal) + 1}) = 1
      BY FS_Singleton
    <3>3. QED
      BY <3>1, <3>2
  <2> DEFINE call == [toolCalls[c] EXCEPT !.at = "reserve", !.version = job'.version]
  <2>7. toolCalls[c] \in WorkingCalls
    BY <1>2 DEF ToolAt, ReadsIInv, ReadsTyped, Working
  <2>8. call \in WorkingCalls /\ call.at = "reserve"
    BY <2>2, <2>7 DEF WorkingCalls, Working
  <2>9. toolCalls' = [toolCalls EXCEPT ![c] = call]
    BY <1>2 DEF Goes
  <2> HIDE DEF call
  <2>10. /\ toolCalls'[c] = call
         /\ \A d \in ToolCalls : d # c => toolCalls'[d] = toolCalls[d]
         /\ toolCalls' = [d \in ToolCalls |-> toolCalls'[d]]
    BY <2>9 DEF ReadsIInv, ReadsTyped
  <2>11. ReadsTyped'
    BY <2>2, <2>4, <2>8, <2>10 DEF ReadsIInv, ReadsTyped, Reserved
  <2>12. PinIsKnown'
    BY <2>2, <2>3, <2>5, <2>8, <2>10, VersionMoves
  <2>13. HoldersHold' /\ (CompletedOps \subseteq DOMAIN recorded)'
    BY <2>2, <2>8, <2>10 DEF ReadsIInv, HoldersHold, ToolAt, Reserved, CompletedOps, Holding
  <2>14. ReadsAreRecordedOnce'
    BY <2>2, <2>3, <2>6, <2>8, <2>10
       DEF ReadsIInv, ReadsAreRecordedOnce, ToolAt, CompletedOps, Reserved
  <2>15. QED
    BY <2>11, <2>12, <2>13, <2>14 DEF ReadsIInv
<1>3. QED
  BY <1>1, <1>2 DEF WritePin

\* A call holds its operation alone: nobody had reserved it, and nobody has asked for it.
LEMMA ReserveKeeps ==
  ASSUME ReadsIInv, NEW c \in ToolCalls, ToolAt(c, "reserve"), Authorized,
         Reserve(toolCalls[c].version, toolCalls[c].id, toolCalls[c].request),
         toolCalls' = [toolCalls EXCEPT ![c].at = "send", ![c].online = tool.online],
         UNCHANGED <<tool, recorded, asked>>
  PROVE ReadsIInv'
<1>1. toolCalls[c] \in WorkingCalls
  BY DEF ToolAt, ReadsIInv, ReadsTyped, Working
<1>2. PICK id \in Operations : id = toolCalls[c].id
  BY <1>1 DEF WorkingCalls
<1>3. PICK request \in Requests : request = toolCalls[c].request
  BY <1>1 DEF WorkingCalls
<1>4. /\ id \notin Reserved
      /\ ops' = [o \in Reserved \cup {id} |->
                   IF o = id THEN [request |-> request, status |-> "pending"] ELSE ops[o]]
      /\ job' = [Bumped EXCEPT !.calls = @ + 1] /\ journal' = journal
  BY <1>2, <1>3 DEF Reserve
<1>5. job' \in JobRecords /\ job'.version = job.version + 1
  BY <1>4, BumpedJob DEF ReadsIInv, JobRecords
<1>6. /\ Reserved' = Reserved \cup {id} /\ ops' \in [Reserved' -> OperationRecords]
      /\ ops'[id].request = request /\ ops'[id].status = "pending"
      /\ \A o \in Reserved : ops'[o] = ops[o]
  BY <1>4 DEF Reserved, ReadsIInv, ReadsTyped, OperationRecords
<1> DEFINE call == [toolCalls[c] EXCEPT !.at = "send", !.online = tool.online]
<1>7. call \in WorkingCalls /\ call.at = "send" /\ call.id = id /\ call.request = request
  <2>1. tool.online \in BOOLEAN
    BY DEF ReadsIInv, ReadsTyped
  <2>2. QED
    BY <1>1, <1>2, <1>3, <2>1 DEF WorkingCalls, Working
<1>8. toolCalls' = [toolCalls EXCEPT ![c] = call]
  OBVIOUS
<1> HIDE DEF call
<1>9. /\ toolCalls'[c] = call
      /\ \A d \in ToolCalls : d # c => toolCalls'[d] = toolCalls[d]
      /\ toolCalls' = [d \in ToolCalls |-> toolCalls'[d]]
  BY <1>8 DEF ReadsIInv, ReadsTyped
<1>10. ReadsTyped'
  BY <1>4, <1>5, <1>6, <1>7, <1>9 DEF ReadsIInv, ReadsTyped
<1>11. PinIsKnown'
  <2>1. PinOf(tool.docs) \in PinsOf(journal)
    BY DEF ToolAt, ReadsIInv, PinIsKnown
  <2>2. QED
    BY <1>4, <1>5, <1>7, <1>9, <2>1, VersionMoves
<1>12. asked[id] = <<>>
  <2>1. asked[id] \in Seq(Docs)
    BY DEF ReadsIInv, ReadsTyped
  <2>2. DOMAIN asked[id] = {}
    BY <1>4 DEF ReadsIInv, ReadsAreRecordedOnce
  <2>3. PICK n \in Nat : n = Len(asked[id]) /\ DOMAIN asked[id] = 1 .. n
    BY <2>1
  <2>4. 1 \notin 1 .. n
    BY <2>2, <2>3
  <2>5. n = 0
    BY <2>4
  <2>6. QED
    BY <2>1, <2>3, <2>5, EmptySeq
<1>13. HoldersHold'
  <2>1. ASSUME NEW d \in ToolCalls, toolCalls'[d].at \in Holding
        PROVE /\ tool'.granted
              /\ toolCalls'[d].id \in Reserved'
              /\ ops'[toolCalls'[d].id].request = toolCalls'[d].request
              /\ ops'[toolCalls'[d].id].status = "pending"
              /\ toolCalls'[d].at = "send" => asked'[toolCalls'[d].id] = <<>>
    <3>1. CASE d = c
      BY <1>6, <1>7, <1>9, <1>12, <3>1 DEF Authorized
    <3>2. CASE d # c
      <4>1. toolCalls'[d] = toolCalls[d]
        BY <1>9, <3>2
      <4>2. /\ tool.granted /\ toolCalls[d].id \in Reserved
            /\ ops[toolCalls[d].id].request = toolCalls[d].request
            /\ ops[toolCalls[d].id].status = "pending"
            /\ toolCalls[d].at = "send" => asked[toolCalls[d].id] = <<>>
        BY <2>1, <4>1 DEF ReadsIInv, HoldersHold, ToolAt
      <4>3. toolCalls[d].id \in Reserved' /\ ops'[toolCalls[d].id] = ops[toolCalls[d].id]
        BY <1>6, <4>2
      <4> QED BY <4>1, <4>2, <4>3
    <3>3. QED
      BY <3>1, <3>2
  <2>2. ASSUME NEW d \in ToolCalls, d # c, toolCalls'[d].at \in Holding
        PROVE toolCalls'[d] = toolCalls[d] /\ toolCalls[d].at \in Holding /\ toolCalls'[d].id # id
    <3>1. toolCalls'[d] = toolCalls[d]
      BY <1>9, <2>2
    <3>2. toolCalls[d].id \in Reserved
      BY <2>2, <3>1 DEF ReadsIInv, HoldersHold
    <3> QED BY <1>4, <2>2, <3>1, <3>2
  <2>3. ASSUME NEW d \in ToolCalls, NEW e \in ToolCalls,
               toolCalls'[d].at \in Holding, toolCalls'[e].at \in Holding,
               toolCalls'[d].id = toolCalls'[e].id
        PROVE d = e
    <3>1. CASE d # c /\ e # c
      <4>1. toolCalls[d].at \in Holding /\ toolCalls[e].at \in Holding
            /\ toolCalls[d].id = toolCalls[e].id
        BY <2>2, <2>3, <3>1
      <4> QED BY <4>1 DEF ReadsIInv, HoldersHold
    <3>2. CASE d = c \/ e = c
      <4>1. toolCalls'[c].id = id
        BY <1>7, <1>9
      <4> QED BY <2>2, <2>3, <3>2, <4>1
    <3> QED BY <3>1, <3>2
  <2>4. QED
    BY <2>1, <2>3 DEF HoldersHold, ToolAt
<1>14. CompletedOps' = CompletedOps
  BY <1>4, <1>6 DEF CompletedOps
<1>15. ReadsAreRecordedOnce'
  <2>1. Count("broker.pinned")' = Count("broker.pinned") /\ PinsOf(journal') = PinsOf(journal)
    BY <1>4 DEF Count, PinsOf
  <2>2. ASSUME NEW d \in ToolCalls, toolCalls'[d].at = "answered"
        PROVE /\ toolCalls'[d].id \in CompletedOps
              /\ recorded[toolCalls'[d].id] = toolCalls'[d].result
              /\ ops'[toolCalls'[d].id].request = toolCalls'[d].request
    <3>1. toolCalls'[d] = toolCalls[d]
      BY <1>7, <1>9, <2>2
    <3>2. /\ toolCalls[d].id \in CompletedOps
          /\ recorded[toolCalls[d].id] = toolCalls[d].result
          /\ ops[toolCalls[d].id].request = toolCalls[d].request
      BY <2>2, <3>1 DEF ReadsIInv, ReadsAreRecordedOnce, ToolAt
    <3>3. toolCalls[d].id \in Reserved
      BY <3>2 DEF CompletedOps
    <3>4. QED
      BY <1>6, <3>1, <3>2, <3>3
  <2>3. QED
    BY <1>6, <1>14, <2>1, <2>2 DEF ReadsIInv, ReadsAreRecordedOnce, ToolAt
<1>16. QED
  BY <1>10, <1>11, <1>13, <1>14, <1>15 DEF ReadsIInv

LEMMA ReserveReadKeeps ==
  ASSUME ReadsIInv, NEW c \in ToolCalls, ReserveRead(c)
  PROVE ReadsIInv'
<1>1. CASE \E code : Denied(c, code)
  BY <1>1, DeniedKeeps
<1>2. CASE /\ ToolAt(c, "reserve") /\ Authorized
           /\ Reserve(toolCalls[c].version, toolCalls[c].id, toolCalls[c].request)
           /\ toolCalls' = [toolCalls EXCEPT ![c].at = "send", ![c].online = tool.online]
           /\ UNCHANGED <<tool, recorded, asked>>
  BY <1>2, ReserveKeeps
<1>3. CASE /\ Known(toolCalls[c].id, toolCalls[c].request) /\ toolCalls[c].id \in CompletedOps
           /\ Tells(c, recorded[toolCalls[c].id], TRUE)
           /\ UNCHANGED <<jobVars, tool, recorded, asked>>
  <2> DEFINE call == [at |-> "answered", id |-> toolCalls[c].id,
                      request |-> toolCalls[c].request,
                      result |-> recorded[toolCalls[c].id], replay |-> TRUE]
  <2>1. StandsRight(call)
    BY <1>3 DEF StandsRight, Working, Holding, Known
  <2>2. toolCalls' = [toolCalls EXCEPT ![c] = call]
    BY <1>3 DEF Tells
  <2> HIDE DEF call
  <2>3. QED
    BY <1>3, <2>1, <2>2, CallMoves
<1>4. QED
  BY <1>1, <1>2, <1>3 DEF ReserveRead

\* The holder asks, once.
LEMMA AskTransportKeeps ==
  ASSUME ReadsIInv, NEW c \in ToolCalls, AskTransport(c)
  PROVE ReadsIInv'
<1>1. toolCalls[c] \in WorkingCalls /\ toolCalls[c].at = "send"
  BY DEF AskTransport, ToolAt, ReadsIInv, ReadsTyped, Working
<1>2. PICK id \in Operations : id = toolCalls[c].id
  BY <1>1 DEF WorkingCalls
<1>3. PICK docs \in Docs : docs = tool.docs
  BY DEF ReadsIInv, ReadsTyped
<1>4. /\ UNCHANGED <<jobVars, tool, recorded>>
      /\ asked' = [asked EXCEPT ![id] = Append(@, docs)]
      /\ asked[id] = <<>>
  BY <1>1, <1>2, <1>3 DEF AskTransport, ReadsIInv, HoldersHold, Holding, ToolAt
<1>5. /\ job' = job /\ journal' = journal /\ ops' = ops /\ tool' = tool
      /\ recorded' = recorded
  BY <1>4 DEF jobVars
<1>6. /\ asked' \in [Operations -> Seq(Docs)] /\ asked'[id] = <<docs>>
      /\ \A o \in Operations : o # id => asked'[o] = asked[o]
  BY <1>4 DEF ReadsIInv, ReadsTyped
<1>7. Len(<<docs>>) = 1 /\ DOMAIN <<docs>> = {1} /\ <<docs>>[1] = docs
  OBVIOUS
<1> DEFINE call == [toolCalls[c] EXCEPT !.at = "race"]
<1>8. /\ call \in WorkingCalls /\ call.at = "race" /\ call.id = id
      /\ call.request = toolCalls[c].request
  BY <1>1, <1>2 DEF WorkingCalls, Working
<1>9. toolCalls' = [toolCalls EXCEPT ![c] = call]
  BY DEF AskTransport
<1> HIDE DEF call
<1>10. /\ toolCalls'[c] = call
       /\ \A d \in ToolCalls : d # c => toolCalls'[d] = toolCalls[d]
       /\ toolCalls' = [d \in ToolCalls |-> toolCalls'[d]]
  BY <1>9 DEF ReadsIInv, ReadsTyped
<1>11. ReadsTyped'
  BY <1>5, <1>6, <1>8, <1>10 DEF ReadsIInv, ReadsTyped, Reserved
<1>12. PinIsKnown'
  BY <1>1, <1>5, <1>8, <1>10 DEF ReadsIInv, PinIsKnown, ToolAt, PinPositions
<1>13. HoldersHold'
  <2>1. ASSUME NEW d \in ToolCalls, toolCalls'[d].at \in Holding
        PROVE /\ toolCalls[d].at \in Holding /\ toolCalls'[d].id = toolCalls[d].id
              /\ toolCalls'[d].request = toolCalls[d].request
              /\ d # c => toolCalls'[d] = toolCalls[d] /\ toolCalls[d].id # id
    BY <1>1, <1>2, <1>8, <1>10, <2>1 DEF Holding, ReadsIInv, HoldersHold
  <2>2. ASSUME NEW d \in ToolCalls, toolCalls'[d].at \in Holding
        PROVE /\ tool'.granted
              /\ toolCalls'[d].id \in Reserved'
              /\ ops'[toolCalls'[d].id].request = toolCalls'[d].request
              /\ ops'[toolCalls'[d].id].status = "pending"
              /\ toolCalls'[d].at = "send" => asked'[toolCalls'[d].id] = <<>>
    <3>1. /\ tool'.granted /\ toolCalls'[d].id \in Reserved'
          /\ ops'[toolCalls'[d].id].request = toolCalls'[d].request
          /\ ops'[toolCalls'[d].id].status = "pending"
      BY <1>5, <2>1, <2>2 DEF ReadsIInv, HoldersHold, Reserved
    <3>2. ASSUME toolCalls'[d].at = "send" PROVE asked'[toolCalls'[d].id] = <<>>
      <4>1. d # c
        BY <1>8, <1>10, <3>2
      <4>2. toolCalls'[d] = toolCalls[d] /\ toolCalls[d].id # id /\ toolCalls[d] \in WorkingCalls
        BY <2>1, <2>2, <4>1 DEF ReadsIInv, ReadsTyped, Holding, Working
      <4>3. toolCalls[d].id \in Operations
        BY <4>2 DEF WorkingCalls
      <4>4. QED
        BY <1>6, <3>2, <4>2, <4>3 DEF ReadsIInv, HoldersHold, ToolAt, Holding
    <3>3. QED
      BY <3>1, <3>2
  <2>3. ASSUME NEW d \in ToolCalls, NEW e \in ToolCalls,
               toolCalls'[d].at \in Holding, toolCalls'[e].at \in Holding,
               toolCalls'[d].id = toolCalls'[e].id
        PROVE d = e
    BY <2>1, <2>3 DEF ReadsIInv, HoldersHold
  <2>4. QED
    BY <2>2, <2>3 DEF HoldersHold, ToolAt
<1>14. (CompletedOps \subseteq DOMAIN recorded)'
  BY <1>5 DEF ReadsIInv, CompletedOps, Reserved
<1>15. ReadsAreRecordedOnce'
  <2>1. /\ id \in Reserved /\ tool.granted /\ PinOf(docs) \in PinsOf(journal)
    BY <1>1, <1>2, <1>3 DEF ReadsIInv, HoldersHold, PinIsKnown, Holding
  <2>2. ASSUME NEW o \in Operations
        PROVE /\ Len(asked'[o]) <= 1
              /\ \A i \in DOMAIN asked'[o] :
                   o \in Reserved /\ tool.granted /\ PinOf(asked'[o][i]) \in PinsOf(journal)
    <3>1. CASE o = id
      <4>1. asked'[o] = <<docs>>
        BY <1>6, <3>1
      <4>2. Len(asked'[o]) = 1 /\ \A i \in DOMAIN asked'[o] : asked'[o][i] = docs
        BY <1>7, <4>1
      <4>3. QED
        BY <2>1, <3>1, <4>2
    <3>2. CASE o # id
      BY <1>6, <3>2 DEF ReadsIInv, ReadsAreRecordedOnce
    <3>3. QED
      BY <3>1, <3>2
  <2>3. \A d \in ToolCalls : toolCalls'[d].at = "answered" => toolCalls'[d] = toolCalls[d]
    BY <1>8, <1>10
  <2>4. QED
    BY <1>5, <2>2, <2>3
       DEF ReadsIInv, ReadsAreRecordedOnce, ToolAt, Count, CompletedOps, Reserved
<1>16. QED
  BY <1>11, <1>12, <1>13, <1>14, <1>15 DEF ReadsIInv

\* The holder records the result and tells it.
LEMMA RecordsKeeps ==
  ASSUME ReadsIInv, NEW c \in ToolCalls, toolCalls[c].at \in Holding, NEW result,
         Records(c, result)
  PROVE ReadsIInv'
<1>1. toolCalls[c] \in WorkingCalls
  BY DEF Holding, ReadsIInv, ReadsTyped, Working
<1>2. PICK id \in Operations : id = toolCalls[c].id
  BY <1>1 DEF WorkingCalls
<1>3. /\ id \in Reserved /\ ops[id].request = toolCalls[c].request
      /\ ops[id].status = "pending" /\ id \notin CompletedOps
  BY <1>2 DEF ReadsIInv, HoldersHold, CompletedOps
<1>4. PICK t \in Times : Complete(id, toolCalls[c].request, t)
  BY <1>2 DEF Records
<1>5. /\ ops' = [ops EXCEPT ![id].status = "completed"]
      /\ job' \in JobRecords /\ job'.version = job.version + 1
      /\ journal' = journal \/ journal' = Append(journal, Fact("budget.paused"))
  <2>1. t \in Nat
    BY GrantAssumption
  <2>2. job.active + t \in Nat /\ job.state \in States
    BY <2>1 DEF ReadsIInv, ReadsTyped, JobRecords
  <2>3. PICK spent \in Nat, state \in States :
          job' = [Bumped EXCEPT !.active = spent, !.state = state]
    <3>1. \/ job' = [Bumped EXCEPT !.active = job.active + t, !.state = "paused_budget"]
          \/ job' = [Bumped EXCEPT !.active = job.active + t, !.state = Bumped.state]
      BY <1>4 DEF Complete
    <3>2. "paused_budget" \in States /\ Bumped.state \in States
      BY <2>2, BumpedJob DEF States, ReadsIInv
    <3>3. QED
      BY <2>2, <3>1, <3>2
  <2>4. job' \in JobRecords /\ job'.version = job.version + 1
    BY <2>3, BumpedJob DEF ReadsIInv, JobRecords
  <2>5. QED
    BY <1>4, <2>4 DEF Complete
<1>6. PinsKept
  BY <1>5, JournalKeepsPins DEF ReadsIInv, LifecycleKinds
<1>7. /\ Reserved' = Reserved /\ ops' \in [Reserved -> OperationRecords]
      /\ ops'[id].request = toolCalls[c].request /\ ops'[id].status = "completed"
      /\ \A o \in Reserved : o # id => ops'[o] = ops[o]
  <2> DEFINE operation == [ops[id] EXCEPT !.status = "completed"]
  <2>1. ops \in [Reserved -> OperationRecords]
    BY DEF ReadsIInv, ReadsTyped
  <2>2. /\ operation \in OperationRecords /\ operation.request = toolCalls[c].request
        /\ operation.status = "completed"
    BY <1>3, <2>1 DEF OperationRecords
  <2>3. ops' = [ops EXCEPT ![id] = operation]
    BY <1>5
  <2> HIDE DEF operation
  <2>4. QED
    BY <1>3, <2>1, <2>2, <2>3 DEF Reserved
<1>8. /\ CompletedOps' = CompletedOps \cup {id}
  BY <1>3, <1>7 DEF CompletedOps
<1>9. /\ DOMAIN recorded' = DOMAIN recorded \cup {id} /\ recorded'[id] = result
      /\ \A o \in DOMAIN recorded : o # id => recorded'[o] = recorded[o]
  BY <1>2 DEF Records
<1>10. tool' = tool /\ asked' = asked
  BY DEF Records
<1> DEFINE call == [at |-> "answered", id |-> toolCalls[c].id, request |-> toolCalls[c].request,
                    result |-> result, replay |-> FALSE]
<1>11. toolCalls' = [toolCalls EXCEPT ![c] = call]
  BY DEF Records, Tells
<1>12. /\ call.at = "answered" /\ call.id = id /\ call.request = toolCalls[c].request
       /\ call.result = result
  BY <1>2
<1> HIDE DEF call
<1>13. /\ toolCalls'[c] = call
       /\ \A d \in ToolCalls : d # c => toolCalls'[d] = toolCalls[d]
       /\ toolCalls' = [d \in ToolCalls |-> toolCalls'[d]]
  BY <1>11 DEF ReadsIInv, ReadsTyped
<1>14. ReadsTyped'
  BY <1>5, <1>6, <1>7, <1>10, <1>12, <1>13 DEF ReadsIInv, ReadsTyped, PinsKept, Working
<1>15. PinIsKnown'
  BY <1>5, <1>6, <1>10, <1>12, <1>13, VersionMoves DEF PinsKept
<1>16. HoldersHold'
  <2>1. ASSUME NEW d \in ToolCalls, toolCalls'[d].at \in Holding
        PROVE d # c /\ toolCalls'[d] = toolCalls[d] /\ toolCalls[d].id # id
    BY <1>2, <1>12, <1>13, <2>1 DEF Holding, ReadsIInv, HoldersHold
  <2>2. QED
    BY <1>7, <1>10, <2>1 DEF ReadsIInv, HoldersHold, ToolAt
<1>17. (CompletedOps \subseteq DOMAIN recorded)'
  BY <1>8, <1>9 DEF ReadsIInv
<1>18. ReadsAreRecordedOnce'
  <2>1. ASSUME NEW d \in ToolCalls, toolCalls'[d].at = "answered"
        PROVE /\ toolCalls'[d].id \in CompletedOps'
              /\ recorded'[toolCalls'[d].id] = toolCalls'[d].result
              /\ ops'[toolCalls'[d].id].request = toolCalls'[d].request
    <3>1. CASE d = c
      BY <1>7, <1>8, <1>9, <1>12, <1>13, <3>1
    <3>2. CASE d # c
      <4>1. /\ toolCalls'[d] = toolCalls[d] /\ toolCalls[d].id \in CompletedOps
            /\ recorded[toolCalls[d].id] = toolCalls[d].result
            /\ ops[toolCalls[d].id].request = toolCalls[d].request
        BY <1>13, <2>1, <3>2 DEF ReadsIInv, ReadsAreRecordedOnce, ToolAt
      <4>2. /\ toolCalls[d].id # id /\ toolCalls[d].id \in Reserved
            /\ toolCalls[d].id \in DOMAIN recorded
        BY <1>3, <4>1 DEF CompletedOps, ReadsIInv
      <4>3. QED
        BY <1>7, <1>8, <1>9, <4>1, <4>2
    <3>3. QED
      BY <3>1, <3>2
  <2>2. QED
    BY <1>6, <1>7, <1>10, <2>1 DEF ReadsIInv, ReadsAreRecordedOnce, PinsKept, ToolAt
<1>19. QED
  BY <1>14, <1>15, <1>16, <1>17, <1>18 DEF ReadsIInv

LEMMA AroundKeeps ==
  ASSUME ReadsIInv, ConnectionChanges \/ Restart
  PROVE ReadsIInv'
<1>1. /\ job' = job /\ journal' = journal /\ ops' = ops /\ recorded' = recorded
      /\ asked' = asked
      /\ tool' \in [docs : Docs, online : BOOLEAN, granted : BOOLEAN]
      /\ tool'.granted = tool.granted
  BY DEF ConnectionChanges, Restart, jobVars, ReadsIInv, ReadsTyped
<1>2. CASE ConnectionChanges
  <2>1. toolCalls' = toolCalls /\ tool'.docs = tool.docs
    BY <1>2 DEF ConnectionChanges, ReadsIInv, ReadsTyped
  <2>2. ReadsTyped'
    BY <1>1, <2>1 DEF ReadsIInv, ReadsTyped, Reserved
  <2>3. PinIsKnown' /\ HoldersHold' /\ (CompletedOps \subseteq DOMAIN recorded)'
    BY <1>1, <2>1 DEF ReadsIInv, PinIsKnown, HoldersHold, ToolAt, PinPositions, CompletedOps,
       Reserved
  <2>4. ReadsAreRecordedOnce'
    BY <1>1, <2>1 DEF ReadsIInv, ReadsAreRecordedOnce, ToolAt, Count, CompletedOps, Reserved
  <2>5. QED
    BY <2>2, <2>3, <2>4 DEF ReadsIInv
<1>3. CASE Restart
  <2>1. /\ \A d \in ToolCalls : \/ toolCalls'[d].at = "denied"
                                \/ toolCalls'[d] = toolCalls[d] /\ toolCalls[d].at \notin Working
        /\ toolCalls' = [d \in ToolCalls |-> toolCalls'[d]]
    BY <1>3 DEF Restart, Working
  <2>2. ReadsTyped'
    BY <1>1, <2>1 DEF ReadsIInv, ReadsTyped, Reserved, Working
  <2>3. PinIsKnown' /\ HoldersHold' /\ (CompletedOps \subseteq DOMAIN recorded)'
    BY <1>1, <2>1 DEF ReadsIInv, PinIsKnown, HoldersHold, ToolAt, Holding, Working,
       CompletedOps, Reserved
  <2>4. ReadsAreRecordedOnce'
    BY <1>1, <2>1 DEF ReadsIInv, ReadsAreRecordedOnce, ToolAt, Count, CompletedOps, Reserved
  <2>5. QED
    BY <2>2, <2>3, <2>4 DEF ReadsIInv
<1>4. QED
  BY <1>2, <1>3

LEMMA ReadSteps == ReadsIInv /\ [ReadsNext]_readVars => ReadsIInv'
<1> SUFFICES ASSUME ReadsIInv, [ReadsNext]_readVars PROVE ReadsIInv'
  OBVIOUS
<1>1. CASE UNCHANGED readVars
  BY <1>1 DEF readVars, jobVars, toolVars, ReadsIInv, ReadsTyped, PinIsKnown, HoldersHold,
     ReadsAreRecordedOnce, ToolAt, Count, PinPositions, CompletedOps, Reserved
<1>2. ASSUME NEW c \in ToolCalls, NEW id \in Operations, NEW request \in Requests,
             CallTool(c, id, request)
      PROVE ReadsIInv'
  BY <1>2, CallToolKeeps
<1>3. ASSUME NEW c \in ToolCalls,
             FindPin(c) \/ WritePin(c) \/ ReserveRead(c) \/ AskTransport(c)
      PROVE ReadsIInv'
  BY <1>3, FindPinKeeps, WritePinKeeps, ReserveReadKeeps, AskTransportKeeps
<1>4. ASSUME NEW c \in ToolCalls,
             \/ Offline(c) \/ TransportAnswers(c) \/ TransportFails(c) \/ TimerFires(c)
             \/ CallerAborts(c)
      PROVE ReadsIInv'
  <2>1. toolCalls[c].at \in Holding /\ \E result : Records(c, result)
    BY <1>4 DEF Offline, TransportAnswers, TransportFails, TimerFires, CallerAborts, ToolAt,
       Holding
  <2>2. QED
    BY <2>1, RecordsKeeps
<1>5. QED
  BY <1>1, <1>2, <1>3, <1>4, JobMovesKeeps, AroundKeeps DEF ReadsNext, ReadStep

\* One read, one result: under one operation id the transport is asked at most once,
\* on a reservation of the job and by a build whose documents it is pinned to, and every
\* answer is the result recorded for that request, whatever calls, retries and restarts
\* there were (invokeBrokeredAuthorReferenceRead of author-tool-loop.ts,
\* ensureAuthorToolBrokerPin of author-tool-broker.ts, the operations of
\* author-agent-jobs.ts).
THEOREM ReadsHappenOnce == ReadsSpec => []ReadsAreRecordedOnce
<1>1. ReadsIInv => ReadsAreRecordedOnce
  BY DEF ReadsIInv
<1>2. QED
  BY ReadsStart, ReadSteps, <1>1, PTL DEF ReadsSpec

-----------------------------------------------------------------------------
(* The conversation of a job.  The three stores only grow, so what a        *)
(* request has seen of them stays true at each of its later awaits: that it *)
(* is journaled, that its text is said, what its turn became, and that this *)
(* is journaled too.  The message that answers it is written from that.     *)

AnySeq(s) == \E S : s \in Seq(S)

LEMMA AnyAppended ==
  ASSUME NEW s, NEW x, AnySeq(s)
  PROVE  /\ AnySeq(Append(s, x))
         /\ Len(s) \in Nat /\ DOMAIN s = 1..Len(s)
         /\ DOMAIN Append(s, x) = 1..(Len(s) + 1)
         /\ \A i \in 1..Len(s) : Append(s, x)[i] = s[i]
         /\ Append(s, x)[Len(s) + 1] = x
<1>1. PICK S : s \in Seq(S)
  BY DEF AnySeq
<1>2. s \in Seq(S \cup {x})
  BY <1>1, SeqMonotonic
<1>3. /\ Append(s, x) \in Seq(S \cup {x})
      /\ Len(s) \in Nat /\ DOMAIN s = 1..Len(s)
      /\ Len(Append(s, x)) = Len(s) + 1
      /\ \A i \in 1..Len(s) : Append(s, x)[i] = s[i]
      /\ Append(s, x)[Len(s) + 1] = x
  BY <1>2, AppendProperties, LenProperties
<1> QED BY <1>3, LenProperties DEF AnySeq

IsRequested(k, text) ==
  \E fact \in Range(journal) : fact.kind = "segment.requested" /\ fact.key = k /\ fact.hash.text = text
IsSaid(i, k, text) ==
  messages[i].role = "author" /\ messages[i].key = k /\ messages[i].text = text
Offers(i, proposal) == messages[i].role = "assistant" /\ messages[i].proposal = proposal

\* What is true of a message by itself.
MessageHolds(message) ==
  /\ message.role \in {"author", "assistant"}
  /\ message.role = "author" =>
       message.turn = NotAsked /\ IsRequested(message.key, message.text)
  /\ message.role = "assistant" =>
       /\ message.turn # NotAsked /\ ArtifactKept(message)
       /\ Produced(message.proposal) \in Range(journal)
       /\ \E text : IsRequested(message.key, text)

\* And of its place among the others; a proposal that is offered is offered a last time.
MessagesHold ==
  /\ AnySeq(messages)
  /\ \A i \in DOMAIN messages : MessageHolds(messages[i])
  /\ \A i, j \in DOMAIN messages :
       messages[i].role = messages[j].role /\ messages[i].key = messages[j].key => i = j
  /\ \A i \in DOMAIN messages : messages[i].role = "assistant" =>
       /\ \E j \in 1..i - 1 : IsSaid(j, messages[i].key, messages[i].turn[1])
       /\ \E last \in DOMAIN messages : Offers(last, messages[i].proposal) /\
            \A j \in DOMAIN messages : Offers(j, messages[i].proposal) => j <= last

ArtifactsHold == \A turn \in DOMAIN artifacts : \E body : artifacts[turn] = <<turn, body>>

Before == {"free", "journaling", "asking", "locking", "starting", "reading"}
Answered == {"producing", "preview", "previewing", "settling", "telling"}

\* What a request knows of the stores, by where it is.
CallHolds(x) ==
  /\ DOMAIN x = {"pc", "key", "ask", "version", "turn", "proposal", "stale"}
  /\ x.pc \in Before \cup Answered \cup {"completing", "answering"}
  /\ x.pc \notin {"free", "journaling"} => IsRequested(x.key, x.ask.text)
  /\ x.pc \notin {"free", "journaling", "asking"} =>
       \E i \in DOMAIN messages : IsSaid(i, x.key, x.ask.text)
  /\ x.pc \in Before \cup {"answering"} => x.proposal = <<>>
  /\ x.pc \notin Before => \E r : x.turn = <<x.ask.text, r>>
  /\ x.pc \in Answered => x.proposal # <<>>
  /\ x.proposal # <<>> =>
       /\ x.turn \in DOMAIN artifacts /\ artifacts[x.turn] = x.proposal
       /\ x.pc # "producing" => Produced(x.proposal) \in Range(journal)

CallsHold ==
  /\ DOMAIN calls = Callers /\ calls = [c \in Callers |-> calls[c]]
  /\ \A x \in {calls[c] : c \in Callers} : CallHolds(x)

ConversationIInv == AnySeq(journal) /\ MessagesHold /\ ArtifactsHold /\ CallsHold

-----------------------------------------------------------------------------
JournalGrows == AnySeq(journal') /\ Range(journal) \subseteq Range(journal')
ArtifactsGrow ==
  \A turn \in DOMAIN artifacts : turn \in DOMAIN artifacts' /\ artifacts'[turn] = artifacts[turn]
MessagesGrow ==
  \A i \in DOMAIN messages : i \in DOMAIN messages' /\ messages'[i] = messages[i]

LEMMA FactJournaled ==
  ASSUME AnySeq(journal), NEW fact, journal' = Append(journal, fact)
  PROVE  JournalGrows /\ Range(journal') = Range(journal) \cup {fact}
<1>1. Range(journal') = Range(journal) \cup {fact}
  BY AnyAppended DEF Range
<1> QED BY <1>1, AnyAppended DEF JournalGrows

LEMMA JobStepGrows ==
  ASSUME AnySeq(journal),
         \/ UNCHANGED jobVars
         \/ \E v, to : Transition(v, to)
         \/ \E v, fact : AppendCheckpoint(v, fact)
         \/ \E v, id, r : Reserve(v, id, r)
         \/ \E id, r, t : Complete(id, r, t)
  PROVE  JournalGrows
<1>1. CASE journal' = journal
  BY <1>1 DEF JournalGrows
<1>2. CASE \E fact : journal' = Append(journal, fact)
  BY <1>2, FactJournaled
<1>3. ASSUME NEW v, NEW to, Transition(v, to)
      PROVE  journal' = journal \/ \E fact : journal' = Append(journal, fact)
  <2>1. TransitionFact(to) = <<>> \/ \E kind : TransitionFact(to) = <<Fact(kind)>>
    BY DEF TransitionFact
  <2>2. PICK S : journal \in Seq(S)
    BY DEF AnySeq
  <2>3. journal \o <<>> = journal
    BY <2>2
  <2>4. \A x : journal \o <<x>> = Append(journal, x)
    <3> TAKE x
    <3>1. journal \in Seq(S \cup {x}) /\ <<x>> \in Seq(S \cup {x})
      <4>1. journal \in Seq(S \cup {x})
        BY <2>2, SeqMonotonic
      <4> QED BY <4>1
    <3>2. PICK n \in Nat : n = Len(journal)
      BY <2>2
    <3> DEFINE a == journal \o <<x>>
               b == Append(journal, x)
    <3>3. a \in Seq(S \cup {x}) /\ Len(a) = n + 1
          /\ \A i \in 1..(n + 1) : a[i] = IF i <= n THEN journal[i] ELSE <<x>>[i - n]
      BY <3>1, <3>2, ConcatProperties
    <3>4. b \in Seq(S \cup {x}) /\ Len(b) = n + 1 /\ b[n + 1] = x
          /\ \A i \in 1..n : b[i] = journal[i]
      BY <3>1, <3>2, AppendProperties
    <3> HIDE DEF a, b
    <3>5. \A i \in 1..(n + 1) : a[i] = b[i]
      <4> TAKE i \in 1..(n + 1)
      <4>1. CASE i \in 1..n
        BY <3>3, <3>4, <4>1
      <4>2. CASE i = n + 1
        <5>1. ~(i <= n) /\ i - n = 1 /\ <<x>>[1] = x
          BY <4>2
        <5> QED BY <3>3, <3>4, <4>2, <5>1
      <4> QED BY <4>1, <4>2
    <3>6. a = b
      BY <3>3, <3>4, <3>5, SeqEqual
    <3> QED BY <3>6 DEF a, b
  <2> QED BY <1>3, <2>1, <2>3, <2>4 DEF Transition
<1> QED BY <1>1, <1>2, <1>3 DEF AppendCheckpoint, Reserve, Complete, jobVars

LEMMA CallStays ==
  ASSUME NEW x, CallHolds(x), JournalGrows, ArtifactsGrow, MessagesGrow
  PROVE  CallHolds(x)'
<1>1. \A k, text : IsRequested(k, text) => IsRequested(k, text)'
  BY DEF IsRequested, JournalGrows
<1>2. \A i \in DOMAIN messages : \A k, text :
        IsSaid(i, k, text) => i \in DOMAIN messages' /\ IsSaid(i, k, text)'
  BY DEF IsSaid, MessagesGrow
<1>3. /\ x.pc \notin {"free", "journaling"} => IsRequested(x.key, x.ask.text)'
      /\ x.pc \notin {"free", "journaling", "asking"} =>
           \E i \in DOMAIN messages' : IsSaid(i, x.key, x.ask.text)'
  BY <1>1, <1>2 DEF CallHolds
<1>4. x.proposal # <<>> =>
       /\ x.turn \in DOMAIN artifacts' /\ artifacts'[x.turn] = x.proposal
       /\ x.pc # "producing" => Produced(x.proposal) \in Range(journal')
  BY DEF CallHolds, JournalGrows, ArtifactsGrow
<1> QED BY <1>3, <1>4 DEF CallHolds

\* A step of one request.
LEMMA RequestMoves ==
  ASSUME ConversationIInv, JournalGrows, ArtifactsGrow, MessagesGrow, MessagesHold', ArtifactsHold',
         NEW c \in Callers, NEW x, calls' = [calls EXCEPT ![c] = x], CallHolds(x)'
  PROVE  ConversationIInv'
<1>1. /\ DOMAIN calls' = Callers /\ calls' = [d \in Callers |-> calls'[d]]
      /\ \A d \in Callers : calls'[d] = IF d = c THEN x ELSE calls[d]
  BY DEF ConversationIInv, CallsHold
<1>2. \A d \in Callers : CallHolds(calls[d])
  BY DEF ConversationIInv, CallsHold
<1>3. ASSUME NEW y \in {calls[d] : d \in Callers} PROVE CallHolds(y)'
  BY <1>2, <1>3, CallStays
<1>4. ASSUME NEW y \in {calls'[d] : d \in Callers} PROVE CallHolds(y)'
  BY <1>1, <1>3, <1>4
<1> QED BY <1>1, <1>4 DEF ConversationIInv, CallsHold, JournalGrows

\* The messages, when none is added.
LEMMA MessagesStay ==
  ASSUME MessagesHold, JournalGrows, ArtifactsGrow, messages' = messages
  PROVE  MessagesHold' /\ MessagesGrow
<1>1. \A k, text : IsRequested(k, text) => IsRequested(k, text)'
  BY DEF IsRequested, JournalGrows
<1>2. ASSUME NEW message, MessageHolds(message) PROVE MessageHolds(message)'
  BY <1>1, <1>2 DEF MessageHolds, ArtifactKept, ArtifactsGrow, JournalGrows
<1>3. \A i \in DOMAIN messages : MessageHolds(messages[i])
  BY DEF MessagesHold
<1>4. \A message \in {messages[i] : i \in DOMAIN messages} : MessageHolds(message)'
  BY <1>2, <1>3
<1>5. \A i \in DOMAIN messages' : MessageHolds(messages[i])'
  BY <1>4
<1> QED BY <1>5 DEF MessagesHold, MessagesGrow, IsSaid, Offers

\* The stores keep what they have, but for what the journal gets.
LEMMA OnlyJournals ==
  ASSUME ConversationIInv, JournalGrows, UNCHANGED <<messages, artifacts>>,
         NEW c \in Callers, NEW x, calls' = [calls EXCEPT ![c] = x], CallHolds(x)'
  PROVE  ConversationIInv'
<1>1. ArtifactsGrow /\ ArtifactsHold'
  BY DEF ArtifactsGrow, ArtifactsHold, ConversationIInv
<1> QED BY <1>1, RequestMoves, MessagesStay DEF ConversationIInv

LEMMA FreeHolds == CallHolds(Free)
BY DEF CallHolds, Free, Before, Answered, NotAsked

LEMMA RepliesKeep ==
  ASSUME ConversationIInv, JournalGrows, UNCHANGED <<messages, artifacts>>,
         NEW c \in Callers, Replies(c)
  PROVE  ConversationIInv'
<1>1. CallHolds(Free)'
  BY FreeHolds, PTL DEF CallHolds
<1> QED BY <1>1, OnlyJournals DEF Replies

\* What a step of the request at hand starts from.
LEMMA CallOf ==
  ASSUME ConversationIInv, NEW c \in Callers
  PROVE  CallHolds(calls[c]) /\ AnySeq(journal)
BY DEF ConversationIInv, CallsHold

\* A request that goes on without learning anything.
LEMMA GoesOn ==
  ASSUME ConversationIInv, JournalGrows, UNCHANGED <<messages, artifacts>>,
         NEW c \in Callers, NEW x, CallHolds(x), NEW pc, NEW version,
         calls' = [calls EXCEPT ![c] = [x EXCEPT !.pc = pc, !.version = version]],
         pc \in Before \cup Answered \cup {"completing", "answering"},
         pc \notin {"free", "journaling"} => IsRequested(x.key, x.ask.text)',
         pc \notin {"free", "journaling", "asking"} => x.pc \notin {"free", "journaling", "asking"},
         pc \in Before \cup {"answering"} => x.proposal = <<>>,
         pc \notin Before => x.pc \notin Before,
         pc \in Answered => x.proposal # <<>>,
         pc # "producing" /\ x.proposal # <<>> => Produced(x.proposal) \in Range(journal')
  PROVE  ConversationIInv'
<1> DEFINE y == [x EXCEPT !.pc = pc, !.version = version]
<1>1. /\ DOMAIN y = {"pc", "key", "ask", "version", "turn", "proposal", "stale"}
      /\ y.pc = pc /\ y.key = x.key /\ y.ask = x.ask /\ y.turn = x.turn /\ y.proposal = x.proposal
  BY DEF CallHolds
<1> HIDE DEF y
<1>2. ArtifactsGrow /\ MessagesGrow
  BY DEF ArtifactsGrow, MessagesGrow
<1>3. CallHolds(x)'
  BY <1>2, CallStays
<1>4. CallHolds(y)'
  BY <1>1, <1>3 DEF CallHolds
<1> QED BY <1>4, OnlyJournals DEF y

LEMMA ReceiveKeeps ==
  ASSUME ConversationIInv, NEW c \in Callers, NEW k, NEW ask, Receive(c, k, ask)
  PROVE  ConversationIInv'
<1>0. PICK pc \in {"journaling", "asking"} :
        /\ calls' = [calls EXCEPT ![c] =
             [Free EXCEPT !.pc = pc, !.key = k, !.ask = ask, !.version = job.version]]
        /\ pc = "asking" => Requested(k) # {} /\ \A fact \in Requested(k) : fact.hash = ask
  BY DEF Receive
<1>1. PICK y : y = [Free EXCEPT !.pc = pc, !.key = k, !.ask = ask, !.version = job.version]
  OBVIOUS
<1>2. /\ DOMAIN y = {"pc", "key", "ask", "version", "turn", "proposal", "stale"}
      /\ y.pc = pc /\ y.key = k /\ y.ask = ask /\ y.proposal = <<>>
  BY <1>1 DEF Free
<1>3. UNCHANGED <<jobVars, messages, artifacts>> /\ JournalGrows
  BY JobStepGrows, CallOf DEF Receive
<1>4. pc = "asking" => IsRequested(k, ask.text)
  BY <1>0 DEF Requested, IsRequested
<1>5. CallHolds(y)
  BY <1>2, <1>4 DEF CallHolds, Before, Answered
<1>6. ArtifactsGrow /\ MessagesGrow
  BY <1>3 DEF ArtifactsGrow, MessagesGrow
<1>7. CallHolds(y)'
  BY <1>3, <1>5, <1>6, CallStays
<1> QED BY <1>0, <1>1, <1>3, <1>7, OnlyJournals

LEMMA JournalRequestKeeps ==
  ASSUME ConversationIInv, NEW c \in Callers, JournalRequest(c)
  PROVE  ConversationIInv'
<1>1. PICK x : x = calls[c]
  OBVIOUS
<1>2. CallHolds(x) /\ x.pc = "journaling" /\ AnySeq(journal)
  BY <1>1, CallOf DEF JournalRequest, CallAt
<1>3. CASE Replies(c) /\ UNCHANGED jobVars
  BY <1>2, <1>3, JobStepGrows, RepliesKeep DEF JournalRequest
<1>4. CASE /\ AppendCheckpoint(x.version, [kind |-> "segment.requested", key |-> x.key, hash |-> x.ask])
           /\ GoesWith(c, "asking", x.version + 1)
  <2> DEFINE fact == [kind |-> "segment.requested", key |-> x.key, hash |-> x.ask]
  <2>1. JournalGrows /\ Range(journal') = Range(journal) \cup {fact}
    BY <1>2, <1>4, FactJournaled DEF AppendCheckpoint
  <2>2. fact.kind = "segment.requested" /\ fact.key = x.key /\ fact.hash = x.ask
    OBVIOUS
  <2>3. IsRequested(x.key, x.ask.text)'
    BY <2>1, <2>2 DEF IsRequested
  <2>4. /\ calls' = [calls EXCEPT ![c] = [x EXCEPT !.pc = "asking", !.version = x.version + 1]]
        /\ UNCHANGED <<messages, artifacts>>
    BY <1>1, <1>4 DEF GoesWith, JournalRequest
  <2>5. x.proposal = <<>>
    BY <1>2 DEF CallHolds, Before
  <2>6. PICK pc, version : pc = "asking" /\ version = x.version + 1
    OBVIOUS
  <2>7. pc \in Before /\ pc \notin Answered
    BY <2>6 DEF Before, Answered
  <2> HIDE DEF fact
  <2> QED BY <1>2, <2>1, <2>3, <2>4, <2>5, <2>6, <2>7, GoesOn
<1> QED BY <1>1, <1>3, <1>4 DEF JournalRequest

LEMMA MessageAppended ==
  ASSUME MessagesHold, NEW message, Appendable(message), AppendMessage(message),
         UNCHANGED <<jobVars, artifacts>>, MessageHolds(message),
         message.role = "assistant" =>
           \E j \in DOMAIN messages : IsSaid(j, message.key, message.turn[1])
  PROVE  /\ MessagesHold' /\ MessagesGrow
         /\ Len(messages) + 1 \in DOMAIN messages' /\ messages'[Len(messages) + 1] = message
<1>1. PICK said, n : said = messages /\ n = Len(messages)
  OBVIOUS
<1>2. messages' = Append(said, message) /\ AnySeq(said)
  BY <1>1 DEF AppendMessage, MessagesHold
<1>3. /\ AnySeq(messages') /\ n \in Nat /\ DOMAIN said = 1..n /\ DOMAIN messages' = 1..(n + 1)
      /\ \A i \in 1..n : messages'[i] = said[i]
      /\ messages'[n + 1] = message
  BY <1>1, <1>2, AnyAppended
<1>4. MessagesGrow
  BY <1>1, <1>3 DEF MessagesGrow
<1>5. ASSUME NEW m, MessageHolds(m) PROVE MessageHolds(m)'
  BY <1>5 DEF MessageHolds, ArtifactKept, IsRequested, jobVars
<1>6. \A i \in 1..n : MessageHolds(said[i])
  BY <1>1, <1>3 DEF MessagesHold
<1>7. \A m \in {said[i] : i \in 1..n} \cup {message} : MessageHolds(m)'
  BY <1>5, <1>6
<1>8. \A i \in DOMAIN messages' : MessageHolds(messages[i])'
  BY <1>3, <1>7
<1>9. ASSUME NEW i \in 1..(n + 1), NEW j \in 1..(n + 1),
             messages'[i].role = messages'[j].role, messages'[i].key = messages'[j].key
      PROVE  i = j
  <2>1. \A h \in 1..n : ~ (said[h].role = message.role /\ said[h].key = message.key)
    BY <1>1, <1>3 DEF Appendable, Said
  <2>2. \A g, h \in 1..n : said[g].role = said[h].role /\ said[g].key = said[h].key => g = h
    BY <1>1, <1>3 DEF MessagesHold
  <2>3. \A h \in 1..(n + 1) : h \in 1..n \/ h = n + 1
    BY <1>3
  <2> QED BY <1>3, <1>9, <2>1, <2>2, <2>3
<1>10. ASSUME NEW i \in 1..(n + 1), messages'[i].role = "assistant"
       PROVE  \E j \in 1..i - 1 : IsSaid(j, messages[i].key, messages[i].turn[1])'
  <2>1. CASE i \in 1..n
    <3>1. PICK j \in 1..i - 1 : IsSaid(j, said[i].key, said[i].turn[1])
      BY <1>1, <1>3, <1>10, <2>1 DEF MessagesHold
    <3>2. j \in 1..n /\ messages'[j] = messages[j] /\ messages'[i] = said[i]
      BY <1>1, <1>3, <2>1
    <3> QED BY <3>1, <3>2 DEF IsSaid
  <2>2. CASE i = n + 1
    <3>1. PICK j \in 1..n : IsSaid(j, message.key, message.turn[1])
      BY <1>1, <1>3, <1>10, <2>2
    <3>2. j \in 1..i - 1 /\ messages'[j] = messages[j] /\ messages'[i] = message
      BY <1>1, <1>3, <2>2
    <3> QED BY <3>1, <3>2 DEF IsSaid
  <2> QED BY <1>3, <2>1, <2>2
<1>11. ASSUME NEW i \in 1..(n + 1), messages'[i].role = "assistant"
       PROVE  \E last \in 1..(n + 1) : Offers(last, messages[i].proposal)' /\
                \A j \in 1..(n + 1) : Offers(j, messages[i].proposal)' => j <= last
  <2>1. \A j \in 1..(n + 1) : j \in Int /\ j <= n + 1
    BY <1>3
  <2>2. PICK proposal : proposal = messages'[i].proposal
    OBVIOUS
  <2>3. CASE message.role = "assistant" /\ message.proposal = proposal
    <3>1. n + 1 \in 1..(n + 1) /\ Offers(n + 1, messages[i].proposal)'
      BY <1>3, <2>2, <2>3 DEF Offers
    <3> QED BY <2>1, <3>1
  <2>4. CASE ~ (message.role = "assistant" /\ message.proposal = proposal)
    <3>1. i \in 1..n /\ said[i] = messages'[i]
      BY <1>3, <1>11, <2>2, <2>4
    <3>2. PICK last \in 1..n :
            Offers(last, proposal) /\ \A j \in 1..n : Offers(j, proposal) => j <= last
      BY <1>1, <1>3, <1>11, <2>2, <3>1 DEF MessagesHold
    <3>3. \A j \in 1..(n + 1) : Offers(j, messages[i].proposal)' => j \in 1..n /\ Offers(j, proposal)
      BY <1>1, <1>3, <2>2, <2>4 DEF Offers
    <3>4. Offers(last, messages[i].proposal)' /\ last \in 1..(n + 1)
      BY <1>1, <1>3, <2>2, <3>2 DEF Offers
    <3> QED BY <3>2, <3>3, <3>4
  <2> QED BY <2>3, <2>4
<1>12. MessagesHold'
  BY <1>3, <1>8, <1>9, <1>10, <1>11 DEF MessagesHold
<1> QED BY <1>1, <1>3, <1>4, <1>12

LEMMA AppendAuthorMessageKeeps ==
  ASSUME ConversationIInv, NEW c \in Callers, AppendAuthorMessage(c)
  PROVE  ConversationIInv'
<1>1. PICK x, message : x = calls[c] /\ message = AuthorMessage(calls[c])
  OBVIOUS
<1>2. /\ CallHolds(x) /\ x.pc = "asking" /\ AnySeq(journal)
      /\ UNCHANGED <<jobVars, artifacts>> /\ AppendMessage(message)
  BY <1>1, CallOf DEF AppendAuthorMessage, CallAt
<1>3. /\ message.role = "author" /\ message.key = x.key /\ message.text = x.ask.text
      /\ message.turn = NotAsked
  BY <1>1 DEF AuthorMessage
<1>4. JournalGrows /\ ArtifactsGrow /\ ArtifactsHold'
  BY <1>2, JobStepGrows DEF ArtifactsGrow, ArtifactsHold, ConversationIInv
<1>5. MessageHolds(message)
  BY <1>2, <1>3 DEF MessageHolds, CallHolds
<1>6. CASE Appendable(message)
  <2>1. /\ MessagesHold' /\ MessagesGrow
        /\ Len(messages) + 1 \in DOMAIN messages' /\ messages'[Len(messages) + 1] = message
    BY <1>2, <1>3, <1>5, <1>6, MessageAppended DEF ConversationIInv
  <2>2. \E i \in DOMAIN messages' : IsSaid(i, x.key, x.ask.text)'
    BY <1>3, <2>1 DEF IsSaid
  <2>3. PICK y : y = [x EXCEPT !.pc = "locking"]
    OBVIOUS
  <2>4. /\ DOMAIN y = {"pc", "key", "ask", "version", "turn", "proposal", "stale"}
        /\ y.pc = "locking" /\ y.key = x.key /\ y.ask = x.ask /\ y.turn = x.turn
        /\ y.proposal = x.proposal /\ y.proposal = <<>>
    BY <1>2, <2>3 DEF CallHolds, Before
  <2>5. CallHolds(x)'
    BY <1>2, <1>4, <2>1, CallStays
  <2>6. CallHolds(y)'
    BY <1>2, <2>2, <2>4, <2>5 DEF CallHolds, Before, Answered
  <2>7. calls' = [calls EXCEPT ![c] = y]
    BY <1>1, <1>6, <2>3 DEF AppendAuthorMessage, CallGoes
  <2> QED BY <1>4, <2>1, <2>6, <2>7, RequestMoves
<1>7. CASE ~ Appendable(message) /\ Replays(message)
  <2>1. messages' = messages
    BY <1>2, <1>7 DEF AppendMessage
  <2>2. \E i \in DOMAIN messages : IsSaid(i, x.key, x.ask.text)
    BY <1>3, <1>7 DEF Replays, Range, IsSaid
  <2>3. PICK y : y = [x EXCEPT !.pc = "locking"]
    OBVIOUS
  <2>4. /\ DOMAIN y = {"pc", "key", "ask", "version", "turn", "proposal", "stale"}
        /\ y.pc = "locking" /\ y.key = x.key /\ y.ask = x.ask /\ y.turn = x.turn
        /\ y.proposal = x.proposal /\ y.proposal = <<>>
    BY <1>2, <2>3 DEF CallHolds, Before
  <2>5. CallHolds(y)
    BY <1>2, <2>2, <2>4 DEF CallHolds, Before, Answered
  <2>6. MessagesGrow
    BY <2>1 DEF MessagesGrow
  <2>7. CallHolds(y)'
    BY <1>4, <2>5, <2>6, CallStays
  <2>8. calls' = [calls EXCEPT ![c] = y]
    BY <1>1, <1>7, <2>3 DEF AppendAuthorMessage, CallGoes
  <2> QED BY <1>2, <1>4, <2>1, <2>7, <2>8, OnlyJournals
<1>8. CASE ~ Appendable(message) /\ ~ Replays(message)
  <2>1. messages' = messages /\ Replies(c)
    BY <1>1, <1>2, <1>8 DEF AppendMessage, AppendAuthorMessage
  <2> QED BY <1>2, <1>4, <2>1, RepliesKeep
<1> QED BY <1>6, <1>7, <1>8

LEMMA AppendAssistantMessageKeeps ==
  ASSUME ConversationIInv, NEW c \in Callers, AppendAssistantMessage(c)
  PROVE  ConversationIInv'
<1>1. PICK x, message : x = calls[c] /\ message = AssistantMessage(calls[c])
  OBVIOUS
<1>2. /\ CallHolds(x) /\ x.pc = "telling" /\ AnySeq(journal)
      /\ UNCHANGED <<jobVars, artifacts>> /\ AppendMessage(message) /\ Replies(c)
  BY <1>1, CallOf DEF AppendAssistantMessage, CallAt
<1>3. JournalGrows /\ ArtifactsGrow /\ ArtifactsHold'
  BY <1>2, JobStepGrows DEF ArtifactsGrow, ArtifactsHold, ConversationIInv
<1>4. CASE Appendable(message)
  <2>1. /\ x.proposal # <<>> /\ x.turn \in DOMAIN artifacts /\ artifacts[x.turn] = x.proposal
        /\ Produced(x.proposal) \in Range(journal)
    BY <1>2 DEF CallHolds, Answered
  <2>2. PICK r : x.turn = <<x.ask.text, r>>
    BY <1>2 DEF CallHolds, Before
  <2>3. PICK body : x.proposal = <<x.turn, body>>
    BY <2>1 DEF ConversationIInv, ArtifactsHold
  <2>4. x.proposal[1][2] = r
    BY <2>2, <2>3
  <2>5. /\ message.role = "assistant" /\ message.key = x.key /\ message.proposal = x.proposal
        /\ message.turn = x.turn /\ message.turn[1] = x.ask.text /\ message.turn # NotAsked
    BY <1>1, <2>2, <2>4 DEF AssistantMessage, NotAsked
  <2>6. /\ IsRequested(message.key, x.ask.text)
        /\ \E i \in DOMAIN messages : IsSaid(i, message.key, message.turn[1])
    BY <1>2, <2>5 DEF CallHolds
  <2>7. MessageHolds(message)
    BY <2>1, <2>5, <2>6 DEF MessageHolds, ArtifactKept
  <2>8. MessagesHold' /\ MessagesGrow
    BY <1>2, <1>4, <2>6, <2>7, MessageAppended DEF ConversationIInv
  <2>9. CallHolds(Free)'
    BY FreeHolds, PTL
  <2> QED BY <1>2, <1>3, <2>8, <2>9, RequestMoves DEF Replies
<1>5. CASE ~ Appendable(message)
  <2>1. messages' = messages
    BY <1>2, <1>5 DEF AppendMessage
  <2> QED BY <1>2, <1>3, <2>1, RepliesKeep
<1> QED BY <1>4, <1>5

\* The same in the terms of a step that leaves all it does not name.
LEMMA MovesTo ==
  ASSUME ConversationIInv, JournalGrows, UNCHANGED <<messages, artifacts>>,
         NEW c \in Callers, NEW pc, NEW version,
         calls' = [calls EXCEPT ![c].pc = pc, ![c].version = version],
         pc \in Before \cup Answered \cup {"completing", "answering"},
         pc \notin {"free", "journaling", "asking"},
         calls[c].pc \notin {"free", "journaling", "asking"},
         pc \in Before \cup {"answering"} => calls[c].proposal = <<>>,
         pc \notin Before => calls[c].pc \notin Before,
         pc \in Answered => calls[c].proposal # <<>>,
         pc # "producing" /\ calls[c].proposal # <<>> => Produced(calls[c].proposal) \in Range(journal')
  PROVE  ConversationIInv'
<1>1. PICK x : x = calls[c]
  OBVIOUS
<1>2. CallHolds(x) /\ IsRequested(x.key, x.ask.text)
  BY <1>1, CallOf DEF CallHolds
<1>3. calls' = [calls EXCEPT ![c] = [x EXCEPT !.pc = pc, !.version = version]]
  BY <1>1
<1>4. IsRequested(x.key, x.ask.text)'
  BY <1>2 DEF IsRequested, JournalGrows
<1> QED BY <1>1, <1>2, <1>3, <1>4, GoesOn

\* Of a request past the words of its author, whether the stored version moves or not.
LEMMA GoesAt ==
  ASSUME ConversationIInv, JournalGrows, UNCHANGED <<messages, artifacts>>,
         NEW c \in Callers, NEW pc, CallGoes(c, pc) \/ \E version : GoesWith(c, pc, version),
         pc \in Before \cup Answered \cup {"completing", "answering"},
         pc \notin {"free", "journaling", "asking"},
         calls[c].pc \notin {"free", "journaling", "asking"},
         pc \in Before \cup {"answering"} => calls[c].proposal = <<>>,
         pc \notin Before => calls[c].pc \notin Before,
         pc \in Answered => calls[c].proposal # <<>>,
         pc # "producing" /\ calls[c].proposal # <<>> => Produced(calls[c].proposal) \in Range(journal')
  PROVE  ConversationIInv'
<1>1. CASE CallGoes(c, pc)
  <2>1. PICK x : x = calls[c]
    OBVIOUS
  <2>2. DOMAIN x = {"pc", "key", "ask", "version", "turn", "proposal", "stale"}
    BY <2>1, CallOf DEF CallHolds
  <2>3. PICK y : y = [x EXCEPT !.pc = pc]
    OBVIOUS
  <2>4. /\ DOMAIN y = {"pc", "key", "ask", "version", "turn", "proposal", "stale"}
        /\ y.pc = pc /\ y.key = x.key /\ y.ask = x.ask /\ y.turn = x.turn /\ y.proposal = x.proposal
    BY <2>2, <2>3
  <2>5. CallHolds(x)'
    BY <2>1, CallOf, CallStays DEF ArtifactsGrow, MessagesGrow
  <2>6. CallHolds(y)'
    BY <2>1, <2>4, <2>5 DEF CallHolds
  <2>7. calls' = [calls EXCEPT ![c] = y]
    BY <1>1, <2>1, <2>3 DEF CallGoes
  <2> QED BY <2>6, <2>7, OnlyJournals
<1>2. CASE \E version : GoesWith(c, pc, version)
  BY <1>2, MovesTo DEF GoesWith
<1> QED BY <1>1, <1>2

LEMMA BeginActiveSegmentKeeps ==
  ASSUME ConversationIInv, NEW c \in Callers, BeginActiveSegment(c)
  PROVE  ConversationIInv'
<1>1. JournalGrows /\ UNCHANGED <<messages, artifacts>>
  BY CallOf, JobStepGrows DEF BeginActiveSegment
<1>2. CASE Replies(c)
  BY <1>1, <1>2, RepliesKeep
<1>3. ASSUME NEW pc \in {"reading", "starting"}, \E version : GoesWith(c, pc, version)
      PROVE  ConversationIInv'
  <2>1. calls[c].pc = "locking" /\ calls[c].proposal = <<>>
    BY CallOf DEF CallHolds, BeginActiveSegment, CallAt, Before
  <2>2. pc \in Before /\ pc \notin Answered
    BY DEF Before, Answered
  <2> QED BY <1>1, <1>3, <2>1, <2>2, GoesAt
<1> QED BY <1>2, <1>3 DEF BeginActiveSegment

LEMMA StartSegmentKeeps ==
  ASSUME ConversationIInv, NEW c \in Callers, StartSegment(c)
  PROVE  ConversationIInv'
<1>1. JournalGrows /\ UNCHANGED <<messages, artifacts>>
  BY CallOf, JobStepGrows DEF StartSegment
<1>2. CASE Replies(c)
  BY <1>1, <1>2, RepliesKeep
<1>3. CASE \E version : GoesWith(c, "reading", version)
  <2>1. calls[c].pc = "starting" /\ calls[c].proposal = <<>>
    BY CallOf DEF CallHolds, StartSegment, CallAt, Before
  <2>2. PICK pc : pc = "reading"
    OBVIOUS
  <2>3. pc \in Before /\ pc \notin Answered
    BY <2>2 DEF Before, Answered
  <2> QED BY <1>1, <1>3, <2>1, <2>2, <2>3, GoesAt
<1> QED BY <1>2, <1>3 DEF StartSegment, EndSegment

\* x is the request with its turn; what is reserved does not matter to it.
LEMMA ReserveOperationKeeps ==
  ASSUME ConversationIInv, NEW c \in Callers, NEW x, NEW next, ReserveOperation(c, x, next),
         UNCHANGED <<messages, artifacts>>, CallHolds([x EXCEPT !.pc = next]),
         DOMAIN x = {"pc", "key", "ask", "version", "turn", "proposal", "stale"}
  PROVE  ConversationIInv'
<1>1. JournalGrows
  BY CallOf, JobStepGrows DEF ReserveOperation
<1>2. CASE Replies(c)
  BY <1>1, <1>2, RepliesKeep
<1>3. CASE \E version :
             calls' = [calls EXCEPT ![c] = [x EXCEPT !.pc = next, !.version = version]]
  <2>1. PICK version :
          calls' = [calls EXCEPT ![c] = [x EXCEPT !.pc = next, !.version = version]]
    BY <1>3
  <2>2. PICK y, z : y = [x EXCEPT !.pc = next, !.version = version]
                    /\ z = [x EXCEPT !.pc = next]
    OBVIOUS
  <2>3. /\ DOMAIN y = DOMAIN z /\ y.pc = z.pc /\ y.key = z.key /\ y.ask = z.ask
        /\ y.turn = z.turn /\ y.proposal = z.proposal
    BY <2>2
  <2>4. CallHolds(z)'
    BY <1>1, <2>2, CallStays DEF ArtifactsGrow, MessagesGrow
  <2>5. CallHolds(y)'
    BY <2>3, <2>4 DEF CallHolds
  <2> QED BY <1>1, <2>1, <2>2, <2>5, OnlyJournals
<1> QED BY <1>2, <1>3 DEF ReserveOperation, EndSegment

LEMMA ReadDraftKeeps ==
  ASSUME ConversationIInv, NEW c \in Callers, ReadDraft(c)
  PROVE  ConversationIInv'
<1>1. PICK x, y : x = calls[c] /\ y = [calls[c] EXCEPT !.turn = <<calls[c].ask.text, revision>>]
  OBVIOUS
<1>2. CallHolds(x) /\ x.pc = "reading" /\ x.proposal = <<>> /\ ReserveOperation(c, y, "completing")
  BY <1>1, CallOf DEF CallHolds, ReadDraft, CallAt, Before
<1>3. PICK z : z = [y EXCEPT !.pc = "completing"]
  OBVIOUS
<1>4. /\ DOMAIN y = {"pc", "key", "ask", "version", "turn", "proposal", "stale"}
      /\ DOMAIN z = DOMAIN y /\ z.pc = "completing" /\ z.key = x.key /\ z.ask = x.ask
      /\ z.turn = <<x.ask.text, revision>> /\ z.proposal = <<>>
  BY <1>1, <1>2, <1>3 DEF CallHolds
<1>5. CallHolds(z)
  BY <1>2, <1>4 DEF CallHolds, Before, Answered
<1> QED BY <1>2, <1>3, <1>4, <1>5, ReserveOperationKeeps DEF ReadDraft

LEMMA PreviewKeeps ==
  ASSUME ConversationIInv, NEW c \in Callers, Preview(c)
  PROVE  ConversationIInv'
<1>1. PICK x : x = calls[c]
  OBVIOUS
<1>2. CallHolds(x) /\ x.pc = "preview" /\ ReserveOperation(c, x, "previewing")
  BY <1>1, CallOf DEF Preview, CallAt
<1>3. PICK z : z = [x EXCEPT !.pc = "previewing"]
  OBVIOUS
<1>4. /\ DOMAIN x = {"pc", "key", "ask", "version", "turn", "proposal", "stale"}
      /\ DOMAIN z = DOMAIN x /\ z.pc = "previewing" /\ z.key = x.key /\ z.ask = x.ask
      /\ z.turn = x.turn /\ z.proposal = x.proposal
  BY <1>2, <1>3 DEF CallHolds
<1>5. CallHolds(z)
  BY <1>2, <1>4 DEF CallHolds, Before, Answered
<1> QED BY <1>2, <1>3, <1>4, <1>5, ReserveOperationKeeps DEF Preview

\* What a request has seen of the draft is no part of what the stores hold.
LEMMA PreviewProposalKeeps ==
  ASSUME ConversationIInv, NEW c \in Callers, PreviewProposal(c)
  PROVE  ConversationIInv'
<1>1. PICK x, y : /\ x = calls[c]
                  /\ y = [calls[c] EXCEPT !.pc = "completing", !.stale = calls[c].turn[2] # revision]
  OBVIOUS
<1>2. CallHolds(x) /\ x.pc = "previewing" /\ UNCHANGED <<messages, artifacts>>
  BY <1>1, CallOf DEF PreviewProposal, CallAt
<1>3. /\ DOMAIN y = {"pc", "key", "ask", "version", "turn", "proposal", "stale"}
      /\ y.pc = "completing" /\ y.key = x.key /\ y.ask = x.ask
      /\ y.turn = x.turn /\ y.proposal = x.proposal
  BY <1>1, <1>2 DEF CallHolds
<1>4. JournalGrows
  BY CallOf, JobStepGrows DEF PreviewProposal
<1>5. CallHolds(x)'
  BY <1>2, <1>4, CallStays DEF ArtifactsGrow, MessagesGrow
<1>6. CallHolds(y)'
  BY <1>2, <1>3, <1>5 DEF CallHolds, Before, Answered
<1>7. calls' = [calls EXCEPT ![c] = y]
  BY <1>1 DEF PreviewProposal
<1> QED BY <1>2, <1>4, <1>6, <1>7, OnlyJournals

LEMMA CompleteOperationKeeps ==
  ASSUME ConversationIInv, NEW c \in Callers, CompleteOperation(c)
  PROVE  ConversationIInv'
<1>1. JournalGrows /\ UNCHANGED <<messages, artifacts>>
  BY CallOf, JobStepGrows DEF CompleteOperation
<1>2. CASE Replies(c)
  BY <1>1, <1>2, RepliesKeep
<1>3. CASE \/ CallGoes(c, AfterOperation(c)) \/ \E version : GoesWith(c, AfterOperation(c), version)
  <2>1. PICK pc : pc = AfterOperation(c)
    OBVIOUS
  <2>2. /\ calls[c].pc = "completing"
        /\ calls[c].proposal # <<>> => Produced(calls[c].proposal) \in Range(journal)
    BY CallOf DEF CallHolds, CompleteOperation, CallAt
  <2>3. CASE calls[c].proposal = <<>>
    <3>1. pc = "answering" /\ pc \notin Before \cup Answered
      BY <2>1, <2>3 DEF AfterOperation, Before, Answered
    <3> QED BY <1>1, <1>3, <2>1, <2>2, <2>3, <3>1, GoesAt DEF Before
  <2>4. CASE calls[c].proposal # <<>>
    <3>1. pc = "settling" /\ pc \in Answered /\ pc \notin Before \cup {"answering"}
      BY <2>1, <2>4 DEF AfterOperation, Before, Answered
    <3>2. Produced(calls[c].proposal) \in Range(journal')
      BY <1>1, <2>2, <2>4 DEF JournalGrows
    <3> QED BY <1>1, <1>3, <2>1, <2>2, <2>4, <3>1, <3>2, GoesAt DEF Before
  <2> QED BY <2>3, <2>4
<1> QED BY <1>2, <1>3 DEF CompleteOperation, EndSegment

LEMMA FailSegmentKeeps ==
  ASSUME ConversationIInv, NEW c \in Callers, FailSegment(c), UNCHANGED <<messages, artifacts>>
  PROVE  ConversationIInv'
<1>1. JournalGrows
  BY CallOf, JobStepGrows DEF FailSegment
<1> QED BY <1>1, RepliesKeep DEF FailSegment, EndSegment

LEMMA AnswerKeeps ==
  ASSUME ConversationIInv, NEW c \in Callers, Answer(c)
  PROVE  ConversationIInv'
<1>1. PICK x, turn : x = calls[c] /\ turn = calls[c].turn
  OBVIOUS
<1>2. CallHolds(x) /\ x.pc = "answering" /\ x.turn = turn
  BY <1>1, CallOf DEF Answer, CallAt
<1>3. ASSUME NEW proposal, proposal # <<>>, ArtifactsGrow, ArtifactsHold',
             turn \in DOMAIN artifacts', artifacts'[turn] = proposal,
             UNCHANGED <<jobVars, messages>>,
             calls' = [calls EXCEPT ![c].pc = "producing", ![c].proposal = proposal]
      PROVE  ConversationIInv'
  <2>1. PICK y : y = [x EXCEPT !.pc = "producing", !.proposal = proposal]
    OBVIOUS
  <2>2. /\ DOMAIN y = {"pc", "key", "ask", "version", "turn", "proposal", "stale"}
        /\ y.pc = "producing" /\ y.key = x.key /\ y.ask = x.ask /\ y.turn = turn
        /\ y.proposal = proposal
    BY <1>2, <2>1 DEF CallHolds
  <2>3. JournalGrows /\ MessagesHold' /\ MessagesGrow
    BY <1>3, CallOf, JobStepGrows, MessagesStay DEF ConversationIInv
  <2>4. CallHolds(x)'
    BY <1>2, <1>3, <2>3, CallStays
  <2>5. CallHolds(y)'
    BY <1>2, <1>3, <2>2, <2>4 DEF CallHolds, Before, Answered
  <2>6. calls' = [calls EXCEPT ![c] = y]
    BY <1>1, <1>3, <2>1
  <2> QED BY <1>3, <2>3, <2>5, <2>6, RequestMoves
<1>4. CASE turn \in DOMAIN artifacts /\ UNCHANGED <<artifacts, jobVars>>
           /\ calls' = [calls EXCEPT ![c].pc = "producing", ![c].proposal = artifacts[turn]]
  <2>1. PICK proposal : proposal = artifacts[turn] /\ proposal # <<>>
    BY <1>4 DEF ConversationIInv, ArtifactsHold
  <2>2. ArtifactsGrow /\ ArtifactsHold'
    BY <1>4 DEF ArtifactsGrow, ConversationIInv, ArtifactsHold
  <2> QED BY <1>3, <1>4, <2>1, <2>2 DEF Answer
<1>5. ASSUME NEW body, turn \notin DOMAIN artifacts, UNCHANGED jobVars,
             artifacts' = [t \in DOMAIN artifacts \cup {turn} |->
                             IF t = turn THEN <<turn, body>> ELSE artifacts[t]],
             calls' = [calls EXCEPT ![c].pc = "producing", ![c].proposal = <<turn, body>>]
      PROVE  ConversationIInv'
  <2>0. <<turn, body>> # <<>>
    OBVIOUS
  <2>1. PICK proposal : proposal = <<turn, body>>
    OBVIOUS
  <2>2. ArtifactsGrow /\ artifacts'[turn] = proposal /\ turn \in DOMAIN artifacts'
    BY <1>5, <2>1 DEF ArtifactsGrow
  <2>3. ArtifactsHold'
    BY <1>5 DEF ConversationIInv, ArtifactsHold
  <2>4. /\ calls' = [calls EXCEPT ![c].pc = "producing", ![c].proposal = proposal]
        /\ proposal # <<>> /\ UNCHANGED <<jobVars, messages>>
    BY <1>5, <2>0, <2>1 DEF Answer
  <2> QED BY <1>3, <2>2, <2>3, <2>4
<1>6. CASE FailSegment(c) /\ UNCHANGED artifacts
  BY <1>6, FailSegmentKeeps DEF Answer
<1> QED BY <1>1, <1>4, <1>5, <1>6 DEF Answer

LEMMA ProduceProposalKeeps ==
  ASSUME ConversationIInv, NEW c \in Callers, ProduceProposal(c)
  PROVE  ConversationIInv'
<1>1. JournalGrows /\ UNCHANGED <<messages, artifacts>>
  BY CallOf, JobStepGrows DEF ProduceProposal
<1>2. CASE Replies(c)
  BY <1>1, <1>2, RepliesKeep
<1>3. CASE /\ Produced(calls[c].proposal) \in Range(journal')
           /\ CallGoes(c, "preview") \/ \E version : GoesWith(c, "preview", version)
  <2>1. calls[c].pc = "producing" /\ calls[c].proposal # <<>>
    BY CallOf DEF CallHolds, ProduceProposal, CallAt, Answered
  <2>2. PICK pc : pc = "preview"
    OBVIOUS
  <2>3. pc \in Answered /\ pc \notin Before \cup {"answering"} /\ calls[c].pc \notin Before
    BY <2>1, <2>2 DEF Before, Answered
  <2> QED BY <1>1, <1>3, <2>1, <2>2, <2>3, GoesAt
<1>4. ASSUME AppendCheckpoint(calls[c].version, Produced(calls[c].proposal))
      PROVE  Produced(calls[c].proposal) \in Range(journal')
  BY <1>4, CallOf, FactJournaled DEF AppendCheckpoint
<1> QED BY <1>2, <1>3, <1>4 DEF ProduceProposal, EndSegment, jobVars

LEMMA SettleSegmentKeeps ==
  ASSUME ConversationIInv, NEW c \in Callers, SettleSegment(c)
  PROVE  ConversationIInv'
<1>1. CASE FailSegment(c)
  BY <1>1, FailSegmentKeeps DEF SettleSegment
<1>2. CASE Replies(c) /\ UNCHANGED jobVars
  BY <1>2, CallOf, JobStepGrows, RepliesKeep DEF SettleSegment
<1>3. CASE Transition(calls[c].version, "waiting_user") /\ CallGoes(c, "telling")
  <2>1. JournalGrows /\ UNCHANGED <<messages, artifacts>>
    BY <1>3, CallOf, JobStepGrows DEF SettleSegment
  <2>2. /\ calls[c].pc = "settling" /\ calls[c].proposal # <<>>
        /\ Produced(calls[c].proposal) \in Range(journal')
    BY <2>1, CallOf DEF CallHolds, SettleSegment, CallAt, Answered, JournalGrows
  <2>3. PICK pc : pc = "telling"
    OBVIOUS
  <2>4. pc \in Answered /\ pc \notin Before \cup {"answering"} /\ calls[c].pc \notin Before
    BY <2>2, <2>3 DEF Before, Answered
  <2> QED BY <1>3, <2>1, <2>2, <2>3, <2>4, GoesAt
<1> QED BY <1>1, <1>2, <1>3 DEF SettleSegment, EndSegment

\* What happens around the requests.
LEMMA AroundConversationKeeps ==
  ASSUME ConversationIInv, Cancel \/ DraftMoves \/ Crash \/ UNCHANGED conversationVars
  PROVE  ConversationIInv'
<1>1. JournalGrows /\ UNCHANGED <<messages, artifacts>>
  <2>1. Cancel => \E v, to : Transition(v, to)
    BY DEF Cancel
  <2>2. DraftMoves \/ Crash \/ UNCHANGED conversationVars => UNCHANGED jobVars
    BY DEF DraftMoves, Crash, conversationVars, jobVars
  <2>3. UNCHANGED <<messages, artifacts>>
    BY DEF Cancel, DraftMoves, Crash, conversationVars
  <2> QED BY <2>1, <2>2, <2>3, JobStepGrows DEF ConversationIInv
<1>2. ArtifactsGrow /\ MessagesGrow /\ ArtifactsHold' /\ MessagesHold'
  BY <1>1, MessagesStay DEF ArtifactsGrow, ArtifactsHold, ConversationIInv
<1>3. CallsHold'
  <2>1. CASE calls' = [c \in Callers |-> Free]
    <3>1. CallHolds(Free)'
      BY FreeHolds, PTL
    <3>2. \A x \in {calls'[c] : c \in Callers} : x = Free
      BY <2>1
    <3>3. \A x \in {calls'[c] : c \in Callers} : CallHolds(x)'
      BY <3>1, <3>2
    <3> QED BY <2>1, <3>3 DEF CallsHold
  <2>2. CASE calls' = calls
    <3>1. ASSUME NEW x \in {calls[c] : c \in Callers} PROVE CallHolds(x)'
      BY <1>1, <1>2, <3>1, CallStays DEF ConversationIInv, CallsHold
    <3> QED BY <2>2, <3>1 DEF ConversationIInv, CallsHold
  <2> QED BY <2>1, <2>2 DEF Cancel, DraftMoves, Crash, conversationVars
<1> QED BY <1>1, <1>2, <1>3 DEF ConversationIInv, JournalGrows

LEMMA ConversationStarts == ConversationInit => ConversationIInv
<1> SUFFICES ASSUME ConversationInit PROVE ConversationIInv
  OBVIOUS
<1>1. AnySeq(journal) /\ AnySeq(messages)
  <2>1. journal \in Seq({Fact("job.created")}) /\ messages \in Seq({})
    BY DEF ConversationInit, JobInit
  <2> QED BY <2>1 DEF AnySeq
<1>2. messages = <<>> /\ DOMAIN messages = {} /\ DOMAIN artifacts = {}
  BY DEF ConversationInit
<1>3. \A x \in {calls[c] : c \in Callers} : CallHolds(x)
  BY FreeHolds DEF ConversationInit
<1> QED BY <1>1, <1>2, <1>3
     DEF ConversationInit, ConversationIInv, MessagesHold, ArtifactsHold, CallsHold

LEMMA ConversationSteps == ConversationIInv /\ [ConversationNext]_conversationVars => ConversationIInv'
<1> SUFFICES ASSUME ConversationIInv, [ConversationNext]_conversationVars PROVE ConversationIInv'
  OBVIOUS
<1>1. ASSUME NEW c \in Callers, NEW k \in SegmentKeys, NEW ask \in Instructions, Receive(c, k, ask)
      PROVE  ConversationIInv'
  BY <1>1, ReceiveKeeps
<1>2. ASSUME NEW c \in Callers,
             \/ JournalRequest(c) \/ AppendAuthorMessage(c)
             \/ BeginActiveSegment(c) \/ StartSegment(c) \/ ReadDraft(c)
      PROVE  ConversationIInv'
  BY <1>2, JournalRequestKeeps, AppendAuthorMessageKeeps, BeginActiveSegmentKeeps,
     StartSegmentKeeps, ReadDraftKeeps
<1>3. ASSUME NEW c \in Callers,
             \/ CompleteOperation(c) \/ Answer(c) \/ ProduceProposal(c) \/ Preview(c)
             \/ PreviewProposal(c) \/ SettleSegment(c) \/ AppendAssistantMessage(c)
      PROVE  ConversationIInv'
  BY <1>3, CompleteOperationKeeps, AnswerKeeps, ProduceProposalKeeps, PreviewKeeps,
     PreviewProposalKeeps, SettleSegmentKeeps, AppendAssistantMessageKeeps
<1> QED BY <1>1, <1>2, <1>3, AroundConversationKeeps DEF ConversationNext

LEMMA ConversationIsWhole == ConversationIInv => ConversationHolds
<1> SUFFICES ASSUME ConversationIInv PROVE ConversationHolds
  OBVIOUS
<1>1. ASSUME NEW i \in DOMAIN messages
      PROVE  \E fact \in Requested(messages[i].key) :
               messages[i].role = "author" => fact.hash.text = messages[i].text
  <2>1. MessageHolds(messages[i])
    BY DEF ConversationIInv, MessagesHold
  <2>2. PICK text : IsRequested(messages[i].key, text) /\
                    (messages[i].role = "author" => text = messages[i].text)
    BY <2>1 DEF MessageHolds
  <2> QED BY <2>2 DEF IsRequested, Requested
<1>2. ASSUME NEW i \in DOMAIN messages, messages[i].role = "assistant"
      PROVE  /\ \E j \in 1..i - 1 : /\ messages[j].role = "author" /\ messages[j].key = messages[i].key
                                    /\ messages[j].text = messages[i].turn[1]
             /\ ProposalFound(messages[i].proposal) /\ Produced(messages[i].proposal) \in Range(journal)
  <2>1. \E j \in 1..i - 1 : IsSaid(j, messages[i].key, messages[i].turn[1])
    BY <1>2 DEF ConversationIInv, MessagesHold
  <2>2. Produced(messages[i].proposal) \in Range(journal)
    BY <1>2 DEF ConversationIInv, MessagesHold, MessageHolds
  <2>3. ProposalFound(messages[i].proposal)
    <3> DEFINE offers == {j \in DOMAIN messages :
                            /\ messages[j].role = "assistant"
                            /\ messages[j].proposal = messages[i].proposal}
    <3>1. DOMAIN messages \subseteq Nat
      BY LenProperties DEF ConversationIInv, MessagesHold, AnySeq
    <3>2. \E last \in offers : \A j \in offers : last >= j
      BY <1>2, <3>1 DEF ConversationIInv, MessagesHold, Offers
    <3>3. Max(offers) \in offers
      BY <3>2 DEF Max
    <3>4. \A j \in offers : ArtifactKept(messages[j])
      BY DEF ConversationIInv, MessagesHold, MessageHolds
    <3> QED BY <3>2, <3>3, <3>4 DEF ProposalFound
  <2> QED BY <2>1, <2>2, <2>3 DEF IsSaid
<1>3. ConversationReadable
  BY DEF ConversationReadable, ConversationIInv, MessagesHold, MessageHolds
<1>4. \A i, j \in DOMAIN messages :
        messages[i].role = messages[j].role /\ messages[i].key = messages[j].key => i = j
  BY DEF ConversationIInv, MessagesHold
<1> QED BY <1>1, <1>2, <1>3, <1>4 DEF ConversationHolds

\* What reading a job shows of its conversation is whole, whoever asks, retries, cancels,
\* edits or crashes between the writes to its three stores: an id names one message, every
\* message comes from a journaled request, and an answer follows the words it answers and
\* offers a proposal that is journaled, kept, and found when it is to be applied
\* (author-job-http.ts over author-conversation.ts and author-agent-artifacts.ts).
THEOREM ConversationsAreWhole == ConversationSpec => []ConversationHolds
BY ConversationStarts, ConversationSteps, ConversationIsWhole, PTL DEF ConversationSpec
=============================================================================
