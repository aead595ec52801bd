--------------------------- MODULE ConfigSidecar ---------------------------
(***************************************************************************)
(* The configuration sidecar: a loop per key of watchmap.json copies the   *)
(* key's value in Consul to a file and makes the service of that key load  *)
(* it.  A loop remembers the hash of what it installed in a shell          *)
(* variable, so a restart of the container forgets it; a reload that fails *)
(* is not tried again; and a Consul that does not answer, or does not have *)
(* the key, gives an empty file.                                           *)
(*                                                                         *)
(* Nothing keeps the loops running: they are started in the subshell of a  *)
(* pipeline, so `wait` at the end of the script finds no job, the script   *)
(* is over at once and the container stops with its loops, wherever they   *)
(* are.  Hence no fairness, and no promise that anything is ever copied.   *)
(***************************************************************************)
EXTENDS Integers

CONSTANTS
  Key,          \* keys watched, each named for its service
  MaxVersions,  \* bound: contents of a file that differ
  MaxStores,    \* bound: writes to Consul
  MaxOutages,   \* bound: times Consul is unreachable
  MaxFailures,  \* bound: reloads that fail
  MaxRestarts   \* bound: restarts of the sidecar's container

ASSUME SidecarAssumption ==
  /\ Key \subseteq {"nginx", "kafka", "zookeeper", "vault"}
  /\ {MaxVersions, MaxStores, MaxOutages, MaxFailures, MaxRestarts} \subseteq Nat

VARIABLES
  consul,     \* the value of each key
  stores,     \* how often one was written
  reachable,  \* Consul answers
  pc,         \* what each loop does next
  hash,       \* CURRENT_HASH
  new,        \* $OUTPUT.new
  file,       \* $OUTPUT
  loaded,     \* the file each service has loaded
  missed,     \* the last reload of the service failed
  behind,     \* kafka has not restarted since zookeeper did
  outages, failures, restarts

vars == <<consul, stores, reachable, pc, hash, new, file, loaded, missed, behind,
          outages, failures, restarts>>

Missing == -1  \* Consul answers 404, without a body
Null    == -2  \* the key holds the empty string, which Consul shows as null
NoHash  == -1  \* CURRENT_HASH="", which is the hash of nothing
Empty   == 0   \* an empty file

Value   == 1 .. MaxVersions
Content == {Empty} \cup Value

Dependents(k) == IF k = "zookeeper" THEN {"kafka"} \cap Key ELSE {}

SidecarTypeOK ==
  /\ consul \in [Key -> {Missing, Null} \cup Value]
  /\ stores \in 0 .. MaxStores
  /\ reachable \in BOOLEAN
  /\ pc \in [Key -> {"fetch", "compare", "reload", "dependent", "sleep"}]
  /\ hash \in [Key -> {NoHash} \cup Content]
  /\ {new, file, loaded} \subseteq [Key -> Content]
  /\ missed \in [Key -> BOOLEAN]
  /\ behind \in BOOLEAN
  /\ outages \in 0 .. MaxOutages /\ failures \in 0 .. MaxFailures
  /\ restarts \in 0 .. MaxRestarts

Init ==
  /\ consul = [k \in Key |-> Missing] /\ stores = 0
  /\ reachable = TRUE
  /\ pc = [k \in Key |-> "fetch"]
  /\ hash = [k \in Key |-> NoHash]
  /\ new = [k \in Key |-> Empty] /\ file = new /\ loaded = new
  /\ missed = [k \in Key |-> FALSE]
  /\ behind = FALSE
  /\ outages = 0 /\ failures = 0 /\ restarts = 0

-----------------------------------------------------------------------------
(* The loop of one key.                                                    *)

Goto(k, label) == pc' = [pc EXCEPT ![k] = label]

(* Mutant: "null" is not tested either. *)
FetchAnything(k) ==
  /\ pc[k] = "fetch"
  /\ Goto(k, "compare")
  /\ new' = [new EXCEPT ![k] = IF reachable /\ consul[k] # Missing THEN consul[k] ELSE Empty]
  /\ UNCHANGED <<consul, stores, reachable, hash, file, loaded, missed, behind,
                 outages, failures, restarts>>

\* "null" is tested; an empty answer, of a missing key or of nobody, is not.
Fetch(k) ==
  /\ pc[k] = "fetch"
  /\ IF reachable /\ consul[k] = Null
     THEN Goto(k, "sleep") /\ UNCHANGED new
     ELSE /\ Goto(k, "compare")
          /\ new' = [new EXCEPT ![k] = IF reachable /\ consul[k] # Missing THEN consul[k] ELSE Empty]
  /\ UNCHANGED <<consul, stores, reachable, hash, file, loaded, missed, behind,
                 outages, failures, restarts>>

Install(k) ==
  /\ pc[k] = "compare"
  /\ IF new[k] # hash[k]
     THEN /\ file' = [file EXCEPT ![k] = new[k]]
          /\ hash' = [hash EXCEPT ![k] = new[k]]
          /\ Goto(k, "reload")
     ELSE Goto(k, "sleep") /\ UNCHANGED <<file, hash>>
  /\ UNCHANGED <<consul, stores, reachable, new, loaded, missed, behind,
                 outages, failures, restarts>>

\* docker kill -s HUP, or docker restart.
Loads(svc) ==
  /\ loaded' = [loaded EXCEPT ![svc] = file[svc]]
  /\ missed' = [missed EXCEPT ![svc] = FALSE]
  /\ behind' = CASE svc = "zookeeper" -> "kafka" \in Key
                 [] svc = "kafka" -> FALSE
                 [] OTHER -> behind
  /\ UNCHANGED failures

Fails(svc) ==
  /\ failures < MaxFailures
  /\ failures' = failures + 1
  /\ missed' = [missed EXCEPT ![svc] = TRUE]
  /\ UNCHANGED <<loaded, behind>>

Reload(k) ==
  /\ pc[k] = "reload"
  /\ Loads(k) \/ Fails(k)
  /\ Goto(k, "dependent")
  /\ UNCHANGED <<consul, stores, reachable, hash, new, file, outages, restarts>>

DependentReload(k) ==
  /\ pc[k] = "dependent"
  /\ IF Dependents(k) = {}
     THEN UNCHANGED <<loaded, missed, behind, failures>>
     ELSE \E svc \in Dependents(k) : Loads(svc) \/ Fails(svc)
  /\ Goto(k, "sleep")
  /\ UNCHANGED <<consul, stores, reachable, hash, new, file, outages, restarts>>

Wake(k) ==
  /\ pc[k] = "sleep"
  /\ Goto(k, "fetch")
  /\ UNCHANGED <<consul, stores, reachable, hash, new, file, loaded, missed, behind,
                 outages, failures, restarts>>

Loop(k) == Fetch(k) \/ Install(k) \/ Reload(k) \/ DependentReload(k) \/ Wake(k)

-----------------------------------------------------------------------------
(* What happens around it.                                                 *)

Store(k) ==
  /\ stores < MaxStores
  /\ stores' = stores + 1
  /\ \E v \in {Null} \cup Value : consul' = [consul EXCEPT ![k] = v]
  /\ UNCHANGED <<reachable, pc, hash, new, file, loaded, missed, behind,
                 outages, failures, restarts>>

Outage ==
  /\ reachable /\ outages < MaxOutages
  /\ reachable' = FALSE
  /\ outages' = outages + 1
  /\ UNCHANGED <<consul, stores, pc, hash, new, file, loaded, missed, behind, failures, restarts>>

OutageEnds ==
  /\ ~reachable
  /\ reachable' = TRUE
  /\ UNCHANGED <<consul, stores, pc, hash, new, file, loaded, missed, behind,
                 outages, failures, restarts>>

(* Mutant: the hash is kept on the volume. *)
RestartKeepsHash ==
  /\ restarts < MaxRestarts
  /\ restarts' = restarts + 1
  /\ pc' = [k \in Key |-> "fetch"]
  /\ UNCHANGED <<consul, stores, reachable, hash, new, file, loaded, missed, behind,
                 outages, failures>>

\* The container stops anywhere in its loops; somebody starts it again.
Restart ==
  /\ restarts < MaxRestarts
  /\ restarts' = restarts + 1
  /\ pc' = [k \in Key |-> "fetch"]
  /\ hash' = [k \in Key |-> NoHash]
  /\ UNCHANGED <<consul, stores, reachable, new, file, loaded, missed, behind, outages, failures>>

Next ==
  \/ \E k \in Key : Loop(k) \/ Store(k)
  \/ Outage \/ OutageEnds \/ Restart

Spec == Init /\ [][Next]_vars

-----------------------------------------------------------------------------
(* Properties.                                                             *)

(***************************************************************************)
(* A service runs with the installed file, except between mv and the       *)
(* reload, after a reload that failed, and until a restarted sidecar has   *)
(* looked at the key again.                                                *)
(***************************************************************************)
InstalledIsLoaded ==
  \A k \in Key :
    pc[k] # "reload" /\ hash[k] # NoHash /\ ~missed[k] => loaded[k] = file[k]

(***************************************************************************)
(* kafka is restarted after zookeeper is (dependent_reload): a loop of     *)
(* zookeeper's key that has nothing left to do has not forgotten it, not   *)
(* even when the container stopped between the two restarts, unless the    *)
(* restart of kafka failed.                                                *)
(***************************************************************************)
KafkaRestartsWithZookeeper ==
  /\ {"kafka", "zookeeper"} \subseteq Key
  /\ pc["zookeeper"] \in {"fetch", "compare", "sleep"}
  /\ hash["zookeeper"] # NoHash
  /\ ~missed["kafka"]
  => ~behind
=============================================================================
