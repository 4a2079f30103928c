---------------------------- MODULE CodexAccount ----------------------------
(***************************************************************************)
(* The subscription account of one author connection and the author        *)
(* backend that works under it.  The account controller logs in, reads     *)
(* the identity and the rate limits, logs out and rotates the credential;  *)
(* every change of who is logged in starts a new generation of the lease.  *)
(* The backend opens threads and runs turns, and trusts a session only in  *)
(* the generation its opening saw.  Both talk to an app server, external,  *)
(* over requests that other calls may overtake.                            *)
(*                                                                         *)
(* A generation stands for the time between two changes of the lease:      *)
(* startedIn and admittedIn are auxiliary and record the generation in     *)
(* which the server started a thread, and in which the backend admitted a  *)
(* request about one.                                                      *)
(***************************************************************************)
EXTENDS Naturals, Sequences, FiniteSets

CONSTANTS
  Accounts,        \* accounts the app server may be logged in to
  LoginIds,        \* ids of logins
  AccountCalls,    \* calls of the controller that may be under way at once
  AuthorCalls,     \* calls of the backend that may be under way at once
  MaxGeneration,   \* bound on the lease's generation
  MaxRevision,     \* bound on the credential revision
  MaxThreads       \* bound on the threads started

NoAccount == "no account"
NoLogin == "no login"
NoReading == <<"no reading">>
Idle == [op |-> "idle"]

ASSUME NoAccount \notin Accounts /\ NoLogin \notin LoginIds

VARIABLES
  lease,           \* generation and account of the lease
  credential,      \* credential revision
  identity,        \* account last read, or NoAccount
  pendingLogin,    \* login the controller waits for, or NoLogin
  quota,           \* readings cached, and the key of the active one
  accountCalls,    \* what each call of the controller waits for
  initialized,     \* the one initialize request of the backend
  threads,         \* threads of the app server, in the order of their start
  sessions,        \* sessions of the backend, in the order of their opening
  authorCalls      \* what each call of the backend waits for

accountVars == <<lease, credential, identity, pendingLogin, quota, accountCalls>>
authorVars == <<initialized, threads, sessions, authorCalls>>
codexVars == <<accountVars, authorVars>>

(***************************************************************************)
(* The account controller.                                                 *)
(***************************************************************************)
EmptyQuota == [readings |-> {}, active |-> NoReading]
CacheKey(account, revision) == <<account, revision>>

Invalidated(l) == [generation |-> l.generation + 1, account |-> NoAccount]
Activated(l, a) == [generation |-> l.generation + 1, account |-> a]

CodexInit ==
  /\ lease = [generation |-> 0, account |-> NoAccount]
  /\ credential = 0 /\ identity = NoAccount /\ pendingLogin = NoLogin
  /\ quota = EmptyQuota
  /\ accountCalls = [c \in AccountCalls |-> Idle]
  /\ initialized = "no" /\ threads = <<>> /\ sessions = <<>>
  /\ authorCalls = [b \in AuthorCalls |-> Idle]

InvalidateLocalState ==
  /\ lease.generation < MaxGeneration
  /\ lease' = Invalidated(lease)
  /\ identity' = NoAccount
  /\ quota' = EmptyQuota

Waits(c, call) == accountCalls' = [accountCalls EXCEPT ![c] = call]
AccountDone(c) == Waits(c, Idle)
LocalStateKept == UNCHANGED <<lease, identity, quota>>

StartLogin(c) ==
  /\ accountCalls[c] = Idle
  /\ Waits(c, [op |-> "login"])
  /\ LocalStateKept /\ UNCHANGED <<credential, pendingLogin, authorVars>>

LoginStarted(c) ==
  /\ accountCalls[c].op = "login"
  /\ \E id \in LoginIds : pendingLogin' = id
  /\ AccountDone(c)
  /\ LocalStateKept /\ UNCHANGED <<credential, authorVars>>

CompleteLogin(c) ==
  /\ accountCalls[c] = Idle
  /\ pendingLogin # NoLogin
  /\ Waits(c, [op |-> "complete"])
  /\ LocalStateKept /\ UNCHANGED <<credential, pendingLogin, authorVars>>

LoginCompleted(c) ==
  /\ accountCalls[c].op = "complete"
  /\ pendingLogin' = NoLogin
  /\ Waits(c, [op |-> "identity"])
  /\ LocalStateKept /\ UNCHANGED <<credential, authorVars>>

LoginRefused(c) ==
  /\ accountCalls[c].op = "complete"
  /\ pendingLogin' = NoLogin
  /\ InvalidateLocalState
  /\ AccountDone(c)
  /\ UNCHANGED <<credential, authorVars>>

CancelLogin(c) ==
  /\ accountCalls[c] = Idle
  /\ pendingLogin # NoLogin
  /\ Waits(c, [op |-> "cancel"])
  /\ LocalStateKept /\ UNCHANGED <<credential, pendingLogin, authorVars>>

LoginCancelled(c) ==
  /\ accountCalls[c].op = "cancel"
  /\ pendingLogin' = NoLogin
  /\ AccountDone(c)
  /\ LocalStateKept /\ UNCHANGED <<credential, authorVars>>

ReadIdentity(c) ==
  /\ accountCalls[c] = Idle
  /\ Waits(c, [op |-> "identity"])
  /\ LocalStateKept /\ UNCHANGED <<credential, pendingLogin, authorVars>>

IdentityRead(c) ==
  /\ accountCalls[c].op = "identity"
  /\ lease.generation < MaxGeneration
  /\ \E a \in Accounts : identity' = a /\ lease' = Activated(lease, a)
  /\ quota' = EmptyQuota
  /\ AccountDone(c)
  /\ UNCHANGED <<credential, pendingLogin, authorVars>>

\* The transport reports an error, or there is no account, an API key, another mode or
\* a malformed account.
IdentityRefused(c) ==
  /\ accountCalls[c].op = "identity"
  /\ InvalidateLocalState
  /\ AccountDone(c)
  /\ UNCHANGED <<credential, pendingLogin, authorVars>>

ReadRateLimits(c) ==
  /\ accountCalls[c] = Idle
  /\ lease.account # NoAccount /\ identity # NoAccount
  /\ Waits(c, [op |-> "limits", account |-> lease.account])
  /\ LocalStateKept /\ UNCHANGED <<credential, pendingLogin, authorVars>>

\* The answer names its account, or is taken for the account that asked.
LimitsRead(c) ==
  /\ accountCalls[c].op = "limits"
  /\ \E named \in BOOLEAN :
       LET key == CacheKey(<<named, accountCalls[c].account>>, credential)
       IN quota' = [readings |-> quota.readings \cup {key}, active |-> key]
  /\ AccountDone(c)
  /\ UNCHANGED <<lease, identity, credential, pendingLogin, authorVars>>

CachedRateLimits ==
  IF quota.active \in quota.readings THEN quota.active ELSE NoReading

Logout(c) ==
  /\ accountCalls[c] = Idle
  /\ Waits(c, [op |-> "logout"])
  /\ LocalStateKept /\ UNCHANGED <<credential, pendingLogin, authorVars>>

LoggedOut(c) ==
  /\ accountCalls[c].op = "logout"
  /\ pendingLogin' = NoLogin
  /\ InvalidateLocalState
  /\ AccountDone(c)
  /\ UNCHANGED <<credential, authorVars>>

\* A request the app server refuses, an answer that fits no request, or a transport
\* that throws leaves the controller as it is.  Of the account reading only the last is
\* meant: what it is told, IdentityRefused acts on.
AccountRequestFails(c) ==
  /\ accountCalls[c].op # "idle"
  /\ AccountDone(c)
  /\ LocalStateKept /\ UNCHANGED <<credential, pendingLogin, authorVars>>

RotateCredentialRevision ==
  /\ credential < MaxRevision
  /\ credential' = credential + 1
  /\ pendingLogin' = NoLogin
  /\ InvalidateLocalState
  /\ UNCHANGED <<accountCalls, authorVars>>

Close ==
  /\ pendingLogin' = NoLogin
  /\ InvalidateLocalState
  /\ UNCHANGED <<credential, accountCalls, authorVars>>

AccountStep ==
  \/ \E c \in AccountCalls :
       \/ StartLogin(c) \/ LoginStarted(c) \/ CompleteLogin(c) \/ LoginCompleted(c)
       \/ LoginRefused(c) \/ CancelLogin(c) \/ LoginCancelled(c)
       \/ ReadIdentity(c) \/ IdentityRead(c) \/ IdentityRefused(c)
       \/ ReadRateLimits(c) \/ LimitsRead(c) \/ Logout(c) \/ LoggedOut(c)
       \/ AccountRequestFails(c)
  \/ RotateCredentialRevision \/ Close

(***************************************************************************)
(* The author backend.                                                     *)
(***************************************************************************)
Asks(b, call) == authorCalls' = [authorCalls EXCEPT ![b] = call]
AuthorDone(b) == Asks(b, Idle)

OpenSession(b) ==
  /\ authorCalls[b] = Idle
  /\ lease.account # NoAccount
  /\ Asks(b, [op |-> "initialize", seen |-> lease])
  /\ initialized' = IF initialized = "no" THEN "asked" ELSE initialized
  /\ UNCHANGED <<accountVars, threads, sessions>>

\* The answer to the one initialize request stands for every later opening.
InitializeAnswers ==
  /\ initialized = "asked"
  /\ initialized' \in {"yes", "failed"}
  /\ UNCHANGED <<accountVars, threads, sessions, authorCalls>>

OpeningFails(b) ==
  /\ authorCalls[b].op = "initialize" /\ initialized = "failed"
  /\ AuthorDone(b)
  /\ UNCHANGED <<accountVars, initialized, threads, sessions>>

StartAuthorThread(b) ==
  /\ authorCalls[b].op = "initialize" /\ initialized = "yes"
  /\ Asks(b, [authorCalls[b] EXCEPT !.op = "start"])
  /\ UNCHANGED <<accountVars, initialized, threads, sessions>>

ThreadStarts(b) ==
  /\ authorCalls[b].op = "start"
  /\ Len(threads) < MaxThreads
  /\ threads' = Append(threads, [startedIn |-> lease.generation, held |-> TRUE])
  /\ Asks(b, [op |-> "started", seen |-> authorCalls[b].seen, thread |-> Len(threads) + 1])
  /\ UNCHANGED <<accountVars, initialized, sessions>>

\* A bug: the lease is read when the thread is there, after the requests.
SessionOpensLate(b) ==
  LET call == authorCalls[b] IN
  /\ call.op = "started"
  /\ sessions' = Append(sessions, [thread |-> call.thread, generation |-> lease.generation,
                                   account |-> lease.account, turn |-> FALSE, open |-> TRUE])
  /\ AuthorDone(b)
  /\ UNCHANGED <<accountVars, initialized, threads>>

SessionOpens(b) ==
  LET call == authorCalls[b] IN
  /\ call.op = "started"
  /\ sessions' = Append(sessions, [thread |-> call.thread, generation |-> call.seen.generation,
                                   account |-> call.seen.account, turn |-> FALSE, open |-> TRUE])
  /\ AuthorDone(b)
  /\ UNCHANGED <<accountVars, initialized, threads>>

Owned(s) ==
  /\ sessions[s].open
  /\ lease.account # NoAccount
  /\ lease.generation = sessions[s].generation
  /\ lease.account = sessions[s].account

Admitted(op, s) == [op |-> op, session |-> s, closes |-> FALSE, admittedIn |-> lease.generation]

RunTurn(b) ==
  /\ authorCalls[b] = Idle
  /\ \E s \in 1 .. Len(sessions) : Owned(s) /\ Asks(b, Admitted("turn", s))
  /\ UNCHANGED <<accountVars, initialized, threads, sessions>>

TurnAnswers(b) ==
  /\ authorCalls[b].op = "turn"
  /\ sessions' = [sessions EXCEPT ![authorCalls[b].session].turn = FALSE]
  /\ AuthorDone(b)
  /\ UNCHANGED <<accountVars, initialized, threads>>

\* A malformed answer, or one after native activity, is interrupted.
TurnRefused(b) ==
  /\ authorCalls[b].op = "turn"
  /\ \E known \in BOOLEAN :
       sessions' = [sessions EXCEPT ![authorCalls[b].session].turn = known]
  /\ Asks(b, [authorCalls[b] EXCEPT !.op = "interrupt"])
  /\ UNCHANGED <<accountVars, initialized, threads>>

CloseSession(b) ==
  /\ authorCalls[b] = Idle
  /\ \E s \in 1 .. Len(sessions) :
       /\ Owned(s)
       /\ Asks(b, [Admitted(IF sessions[s].turn THEN "interrupt" ELSE "release", s)
                     EXCEPT !.closes = TRUE])
  /\ UNCHANGED <<accountVars, initialized, threads, sessions>>

Interrupted(b) ==
  /\ authorCalls[b].op = "interrupt"
  /\ sessions' = [sessions EXCEPT ![authorCalls[b].session].turn = FALSE]
  /\ IF authorCalls[b].closes THEN Asks(b, [authorCalls[b] EXCEPT !.op = "release"])
                              ELSE AuthorDone(b)
  /\ UNCHANGED <<accountVars, initialized, threads>>

Released(b) ==
  LET s == authorCalls[b].session IN
  /\ authorCalls[b].op = "release"
  /\ threads' = [threads EXCEPT ![sessions[s].thread].held = FALSE]
  /\ sessions' = [sessions EXCEPT ![s].open = FALSE]
  /\ AuthorDone(b)
  /\ UNCHANGED <<accountVars, initialized>>

AuthorRequestFails(b) ==
  /\ authorCalls[b].op \in {"start", "turn", "release"}
  /\ AuthorDone(b)
  /\ UNCHANGED <<accountVars, initialized, threads, sessions>>

AuthorStep ==
  \/ InitializeAnswers
  \/ \E b \in AuthorCalls :
       \/ OpenSession(b) \/ OpeningFails(b) \/ StartAuthorThread(b) \/ ThreadStarts(b)
       \/ SessionOpens(b) \/ RunTurn(b) \/ TurnAnswers(b) \/ TurnRefused(b)
       \/ CloseSession(b) \/ Interrupted(b) \/ Released(b) \/ AuthorRequestFails(b)

CodexNext == AccountStep \/ AuthorStep
CodexSpec == CodexInit /\ [][CodexNext]_codexVars

(***************************************************************************)
(* Properties.                                                             *)
(***************************************************************************)
\* A request about a thread is admitted only in the generation of the lease
\* in which the app server started that thread: whoever logs in while an
\* opening is under way never works on the thread of the account before.
ThreadsServeTheirLogin ==
  \A b \in AuthorCalls :
    authorCalls[b].op \in {"turn", "interrupt", "release"} =>
      threads[sessions[authorCalls[b].session].thread].startedIn = authorCalls[b].admittedIn

=============================================================================
