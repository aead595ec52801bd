-------------------------- MODULE SessionLifecycle --------------------------
(***************************************************************************)
(* What auth-service promises about sessions, without accounts, tokens or  *)
(* awaits: a session is opened once, gives out access tokens while it is   *)
(* open, and once closed never does again.                                 *)
(***************************************************************************)
EXTENDS Naturals

CONSTANT Session

VARIABLES
  state,    \* state[s]: "none", "open" or "closed"
  granted   \* granted[s]: access tokens given out by refreshing s

sessionVars == <<state, granted>>

SessionInit ==
  /\ state = [s \in Session |-> "none"]
  /\ granted = [s \in Session |-> 0]

Open(s) ==
  /\ state[s] = "none"
  /\ state' = [state EXCEPT ![s] = "open"]
  /\ UNCHANGED granted

Refresh(s) ==
  /\ state[s] = "open"
  /\ granted' = [granted EXCEPT ![s] = @ + 1]
  /\ UNCHANGED state

Close(s) ==
  /\ state[s] = "open"
  /\ state' = [state EXCEPT ![s] = "closed"]
  /\ UNCHANGED granted

SessionNext == \E s \in Session : Open(s) \/ Refresh(s) \/ Close(s)

SessionSpec == SessionInit /\ [][SessionNext]_sessionVars

=============================================================================
