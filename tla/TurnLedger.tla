------------------------------ MODULE TurnLedger ------------------------------
(***************************************************************************)
(* What the runtime promises of a session, without clocks, leases, tokens  *)
(* or revisions (decisions 1-9 of docs/decisions/0011): each idempotency   *)
(* key is decided at most once, by whoever owns the session at that        *)
(* moment, and the ledger is the order of the keys decided with a turn.    *)
(***************************************************************************)
EXTENDS Sequences

CONSTANTS
  Sessions, Keys,
  NoKey            \* a session nobody owns

VARIABLES
  owner,     \* the key under way in each session
  decision,  \* what each key came to
  ledger     \* the keys decided with a turn, in order

ledgerVars == <<owner, decision, ledger>>

Init ==
  /\ owner = [s \in Sessions |-> NoKey]
  /\ decision = [s \in Sessions |-> [k \in Keys |-> "open"]]
  /\ ledger = [s \in Sessions |-> <<>>]

\* A key gets a session nobody has (taking over its own expired lease is a stutter).
Grant(s, k) ==
  /\ decision[s][k] = "open"
  /\ owner[s] = NoKey
  /\ owner' = [owner EXCEPT ![s] = k]
  /\ UNCHANGED <<decision, ledger>>

DecideTurn(s, k) ==
  /\ owner[s] = k
  /\ owner' = [owner EXCEPT ![s] = NoKey]
  /\ decision' = [decision EXCEPT ![s][k] = "turn"]
  /\ ledger' = [ledger EXCEPT ![s] = Append(@, k)]

DecideWithoutTurn(s, k) ==
  /\ owner[s] = k
  /\ owner' = [owner EXCEPT ![s] = NoKey]
  /\ decision' = [decision EXCEPT ![s][k] = "without_turn"]
  /\ UNCHANGED ledger

Next == \E s \in Sessions, k \in Keys :
          Grant(s, k) \/ DecideTurn(s, k) \/ DecideWithoutTurn(s, k)

Spec == Init /\ [][Next]_ledgerVars
===============================================================================
