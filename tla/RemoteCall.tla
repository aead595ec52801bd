----------------------------- MODULE RemoteCall -----------------------------
(***************************************************************************)
(* What the gateway promises a client: a request gets one answer, and the  *)
(* answer "ok" only if a service has done what this very request asked,    *)
(* after it was asked.  Any other answer may be given at any time.         *)
(***************************************************************************)
CONSTANTS
  Client,   \* connections, each with one request at a time
  Answers   \* what a client may be told

VARIABLES
  open,     \* the connection waits for an answer
  done,     \* its request was carried out
  told      \* the last answer

vars == <<open, done, told>>

Init ==
  /\ open = [c \in Client |-> FALSE]
  /\ done = [c \in Client |-> FALSE]
  /\ told \in [Client -> Answers]

Ask(c) ==
  /\ ~open[c]
  /\ open' = [open EXCEPT ![c] = TRUE]
  /\ UNCHANGED <<done, told>>

\* Answered by the gateway alone, before anyone was asked.
TurnAway(c) ==
  /\ ~open[c]
  /\ \E a \in Answers \ {"ok"} : told' = [told EXCEPT ![c] = a]
  /\ UNCHANGED <<open, done>>

Perform(c) ==
  /\ open[c]
  /\ done' = [done EXCEPT ![c] = TRUE]
  /\ UNCHANGED <<open, told>>

Answer(c, a) ==
  /\ open[c]
  /\ a = "ok" => done[c]
  /\ open' = [open EXCEPT ![c] = FALSE]
  /\ done' = [done EXCEPT ![c] = FALSE]
  /\ told' = [told EXCEPT ![c] = a]

\* The gateway dies: every open connection is closed without an answer.
Lose ==
  /\ open' = [c \in Client |-> FALSE]
  /\ done' = [c \in Client |-> FALSE]
  /\ told' = [c \in Client |-> IF open[c] THEN "gone" ELSE told[c]]

Next ==
  \/ \E c \in Client :
       \/ Ask(c) \/ TurnAway(c) \/ Perform(c)
       \/ \E a \in Answers : Answer(c, a)
  \/ Lose

Spec == Init /\ [][Next]_vars
=============================================================================
