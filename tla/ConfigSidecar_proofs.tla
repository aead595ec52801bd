------------------------- MODULE ConfigSidecar_proofs -------------------------
(***************************************************************************)
(* The sidecar never believes that it has installed what no service has    *)
(* been told of, nor forgets to restart kafka after zookeeper, for any     *)
(* number of keys, contents, outages and restarts.                         *)
(*                                                                         *)
(* InstalledIsLoaded speaks of the shell variable, the file and the        *)
(* service.  It is inductive together with the types; what a loop knows    *)
(* (HashIsFile) says in addition that the hash is that of the file, so the *)
(* loop compares with what is installed and not with something older.      *)
(* KafkaRestartsWithZookeeper is inductive with the types.                 *)
(***************************************************************************)
EXTENDS ConfigSidecar, TLAPS

HashIsFile == \A k \in Key : hash[k] # NoHash => hash[k] = file[k]

SidecarInv == SidecarTypeOK /\ InstalledIsLoaded /\ HashIsFile

-----------------------------------------------------------------------------

(* Initially no loop has a hash. *)
LEMMA SidecarInitInv == Init => SidecarInv
<1> SUFFICES ASSUME Init PROVE SidecarInv
  OBVIOUS
<1> USE SidecarAssumption DEF Init
<1>0. {new, file, loaded} \subseteq [Key -> Content] /\ hash \in [Key -> {NoHash} \cup Content]
  BY DEF NoHash, Content, Empty
<1>1. SidecarTypeOK
  <2>1. reachable \in BOOLEAN /\ behind \in BOOLEAN /\ missed \in [Key -> BOOLEAN]
    OBVIOUS
  <2>2. /\ consul \in [Key -> {Missing, Null} \cup Value]
        /\ pc \in [Key -> {"fetch", "compare", "reload", "dependent", "sleep"}]
    OBVIOUS
  <2>3. /\ stores \in 0 .. MaxStores /\ outages \in 0 .. MaxOutages
        /\ failures \in 0 .. MaxFailures /\ restarts \in 0 .. MaxRestarts
    OBVIOUS
  <2> QED BY <1>0, <2>1, <2>2, <2>3 DEF SidecarTypeOK
<1>2. InstalledIsLoaded /\ HashIsFile
  BY DEF InstalledIsLoaded, HashIsFile
<1> QED BY <1>1, <1>2 DEF SidecarInv

(* A dependent service is a service that is watched itself. *)
LEMMA DependentsWatched == \A k \in Key : Dependents(k) \subseteq Key
  BY DEF Dependents

(* A reload, of whatever service, leaves it with the installed file or     *)
(* marked as missed.                                                       *)
LEMMA ReloadTypes ==
  ASSUME SidecarTypeOK, NEW svc \in Key, Loads(svc) \/ Fails(svc), UNCHANGED file
  PROVE  /\ loaded' \in [Key -> Content] /\ missed' \in [Key -> BOOLEAN]
         /\ behind' \in BOOLEAN /\ failures' \in 0 .. MaxFailures
         /\ loaded'[svc] = file[svc] \/ missed'[svc]
         /\ \A k \in Key \ {svc} : loaded'[k] = loaded[k] /\ missed'[k] = missed[k]
<1> USE DEF SidecarTypeOK
<1>1. CASE Loads(svc)
  <2>1. loaded' = [loaded EXCEPT ![svc] = file[svc]] /\ missed' = [missed EXCEPT ![svc] = FALSE]
    BY <1>1 DEF Loads
  <2>2. failures' = failures /\ behind' \in BOOLEAN
    <3>1. failures' = failures
      BY <1>1 DEF Loads
    <3>2. behind' = behind \/ behind' = TRUE \/ behind' = FALSE
      <4>1. CASE "kafka" \in Key
        BY <1>1, <4>1 DEF Loads
      <4>2. CASE "kafka" \notin Key
        BY <1>1, <4>2 DEF Loads
      <4> QED BY <4>1, <4>2
    <3>3. behind \in BOOLEAN
      BY DEF SidecarTypeOK
    <3>4. behind' \in BOOLEAN
      BY <3>2, <3>3, Zenon
    <3> QED BY <3>1, <3>4
  <2>3. file[svc] \in Content
    OBVIOUS
  <2> QED BY <2>1, <2>2, <2>3
<1>2. CASE Fails(svc)
  <2>1. missed' = [missed EXCEPT ![svc] = TRUE] /\ UNCHANGED <<loaded, behind>>
    BY <1>2 DEF Fails
  <2>2. failures' \in 0 .. MaxFailures
    BY <1>2, SidecarAssumption DEF Fails
  <2> QED BY <2>1, <2>2
<1> QED BY <1>1, <1>2

-----------------------------------------------------------------------------
(* One step of a loop.                                                     *)

(* A loop that reads the key changes only what it has read. *)
LEMMA FetchKeeps ==
  ASSUME SidecarInv, NEW k \in Key, Fetch(k)
  PROVE  SidecarInv'
<1> USE SidecarAssumption DEF SidecarInv
<1>1. pc' \in [Key -> {"fetch", "compare", "reload", "dependent", "sleep"}]
  BY DEF SidecarTypeOK, Fetch, Goto
<1>2. new' \in [Key -> Content]
  BY DEF SidecarTypeOK, Fetch, Content, Missing, Null, Empty
<1>3. UNCHANGED <<consul, stores, reachable, hash, file, loaded, missed, behind,
                  outages, failures, restarts>>
  BY DEF Fetch
<1>4. \A j \in Key : pc'[j] # "reload" => pc[j] # "reload"
  BY DEF SidecarTypeOK, Fetch, Goto
<1>5. SidecarTypeOK'
  BY <1>1, <1>2, <1>3 DEF SidecarTypeOK
<1>6. InstalledIsLoaded' /\ HashIsFile'
  BY <1>3, <1>4 DEF InstalledIsLoaded, HashIsFile
<1> QED BY <1>5, <1>6

(* A loop that installs a file goes on to the reload. *)
LEMMA InstallKeeps ==
  ASSUME SidecarInv, NEW k \in Key, Install(k)
  PROVE  SidecarInv'
<1> USE SidecarAssumption DEF SidecarInv
<1>1. UNCHANGED <<consul, stores, reachable, new, loaded, missed, behind,
                  outages, failures, restarts>>
  BY DEF Install
<1>2. CASE new[k] # hash[k]
  <2>1. /\ file' = [file EXCEPT ![k] = new[k]] /\ hash' = [hash EXCEPT ![k] = new[k]]
        /\ pc' = [pc EXCEPT ![k] = "reload"]
    BY <1>2 DEF Install, Goto
  <2>2. SidecarTypeOK'
    BY <1>1, <2>1 DEF SidecarTypeOK
  <2>3. InstalledIsLoaded' /\ HashIsFile'
    BY <1>1, <2>1 DEF SidecarTypeOK, InstalledIsLoaded, HashIsFile
  <2> QED BY <2>2, <2>3
<1>3. CASE new[k] = hash[k]
  <2>1. UNCHANGED <<file, hash>> /\ pc' = [pc EXCEPT ![k] = "sleep"] /\ pc[k] = "compare"
    BY <1>3 DEF Install, Goto
  <2>2. SidecarTypeOK'
    BY <1>1, <2>1 DEF SidecarTypeOK
  <2>3. InstalledIsLoaded' /\ HashIsFile'
    BY <1>1, <2>1 DEF SidecarTypeOK, InstalledIsLoaded, HashIsFile
  <2> QED BY <2>2, <2>3
<1> QED BY <1>2, <1>3

(* The reload of a service, and that of the dependent one. *)
LEMMA ReloadKeeps ==
  ASSUME SidecarInv, NEW k \in Key, Reload(k) \/ DependentReload(k)
  PROVE  SidecarInv'
<1> USE DEF SidecarInv
<1>1. UNCHANGED <<consul, stores, reachable, hash, new, file, outages, restarts>>
  BY DEF Reload, DependentReload
<1>2. CASE Reload(k)
  <2>1. Loads(k) \/ Fails(k)
    BY <1>2 DEF Reload
  <2>2. pc' = [pc EXCEPT ![k] = "dependent"]
    BY <1>2 DEF Reload, Goto
  <2>3. SidecarTypeOK'
    BY <1>1, <2>1, <2>2, ReloadTypes DEF SidecarTypeOK
  <2>4. InstalledIsLoaded' /\ HashIsFile'
    BY <1>1, <2>1, <2>2, ReloadTypes DEF SidecarTypeOK, InstalledIsLoaded, HashIsFile
  <2> QED BY <2>3, <2>4
<1>3. CASE DependentReload(k)
  <2>1. pc[k] = "dependent" /\ pc' = [pc EXCEPT ![k] = "sleep"]
    BY <1>3 DEF DependentReload, Goto
  <2>2. CASE UNCHANGED <<loaded, missed, behind, failures>>
    <3>1. SidecarTypeOK'
      BY <1>1, <2>1, <2>2 DEF SidecarTypeOK
    <3>2. InstalledIsLoaded' /\ HashIsFile'
      BY <1>1, <2>1, <2>2 DEF SidecarTypeOK, InstalledIsLoaded, HashIsFile
    <3> QED BY <3>1, <3>2
  <2>3. CASE \E svc \in Dependents(k) : Loads(svc) \/ Fails(svc)
    <3>1. PICK svc \in Key : Loads(svc) \/ Fails(svc)
      BY <2>3, DependentsWatched
    <3>2. SidecarTypeOK'
      BY <1>1, <2>1, <3>1, ReloadTypes DEF SidecarTypeOK
    <3>3. InstalledIsLoaded' /\ HashIsFile'
      BY <1>1, <2>1, <3>1, ReloadTypes DEF SidecarTypeOK, InstalledIsLoaded, HashIsFile
    <3> QED BY <3>2, <3>3
  <2> QED BY <1>3, <2>2, <2>3 DEF DependentReload
<1> QED BY <1>2, <1>3

-----------------------------------------------------------------------------
(* What happens around the loops, and the result.                          *)

(* Consul, its outages and the restart of the container. *)
LEMMA AroundKeeps ==
  ASSUME SidecarInv,
         (\E k \in Key : Wake(k) \/ Store(k)) \/ Outage \/ OutageEnds \/ Restart
  PROVE  SidecarInv'
<1> USE SidecarAssumption DEF SidecarInv
<1>1. CASE \E k \in Key : Wake(k)
  <2>1. PICK k \in Key : Wake(k)
    BY <1>1
  <2>2. SidecarTypeOK'
    BY <2>1 DEF Wake, Goto, SidecarTypeOK
  <2>3. InstalledIsLoaded' /\ HashIsFile'
    BY <2>1 DEF Wake, Goto, SidecarTypeOK, InstalledIsLoaded, HashIsFile
  <2> QED BY <2>2, <2>3
<1>2. CASE \E k \in Key : Store(k)
  <2>1. PICK k \in Key, v \in {Null} \cup Value : consul' = [consul EXCEPT ![k] = v]
    BY <1>2 DEF Store
  <2>2. stores' \in 0 .. MaxStores
    BY <1>2 DEF Store, SidecarTypeOK
  <2>3. UNCHANGED <<reachable, pc, hash, new, file, loaded, missed, behind,
                    outages, failures, restarts>>
    BY <1>2 DEF Store
  <2> QED BY <2>1, <2>2, <2>3 DEF SidecarTypeOK, InstalledIsLoaded, HashIsFile
<1>3. CASE Outage \/ OutageEnds
  <2>1. SidecarTypeOK'
    <3>0. reachable' \in BOOLEAN
      BY <1>3, Zenon DEF Outage, OutageEnds
    <3>1. outages' \in 0 .. MaxOutages
      BY <1>3 DEF Outage, OutageEnds, SidecarTypeOK
    <3>2. UNCHANGED <<consul, stores, pc, hash, new, file, loaded, missed, behind,
                      failures, restarts>>
      BY <1>3 DEF Outage, OutageEnds
    <3> QED BY <3>0, <3>1, <3>2, Zenon DEF SidecarTypeOK
  <2>2. InstalledIsLoaded' /\ HashIsFile'
    BY <1>3 DEF Outage, OutageEnds, InstalledIsLoaded, HashIsFile
  <2> QED BY <2>1, <2>2
<1>4. CASE Restart
  <2>1. SidecarTypeOK'
    BY <1>4 DEF Restart, SidecarTypeOK
  <2>2. InstalledIsLoaded' /\ HashIsFile'
    BY <1>4 DEF Restart, InstalledIsLoaded, HashIsFile
  <2> QED BY <2>1, <2>2
<1> QED BY <1>1, <1>2, <1>3, <1>4

(* Every step of the sidecar and of its surroundings keeps the invariant. *)
LEMMA SidecarStep == SidecarInv /\ [Next]_vars => SidecarInv'
<1>1. CASE UNCHANGED vars
  BY <1>1 DEF vars, SidecarInv, SidecarTypeOK, InstalledIsLoaded, HashIsFile
<1>2. CASE Next
  <2>1. SidecarInv /\ Next =>
          \/ \E k \in Key : Fetch(k) \/ Install(k) \/ Reload(k) \/ DependentReload(k)
          \/ (\E k \in Key : Wake(k) \/ Store(k)) \/ Outage \/ OutageEnds \/ Restart
    BY DEF Next, Loop
  <2> QED BY <1>2, <2>1, FetchKeeps, InstallKeeps, ReloadKeeps, AroundKeeps
<1> QED BY <1>1, <1>2

(* Every variable of the sidecar keeps its type. *)
THEOREM SidecarTypes == Spec => []SidecarTypeOK
<1>1. SidecarInv => SidecarTypeOK
  BY DEF SidecarInv
<1> QED BY <1>1, SidecarInitInv, SidecarStep, PTL DEF Spec

(* A service runs with the installed file, except between mv and the       *)
(* reload, after a reload that failed and until a restarted loop has       *)
(* looked at the key (entrypoint.sh).                                      *)
THEOREM NothingInstalledUntold == Spec => []InstalledIsLoaded
<1>1. SidecarInv => InstalledIsLoaded
  BY DEF SidecarInv
<1> QED BY <1>1, SidecarInitInv, SidecarStep, PTL DEF Spec

-----------------------------------------------------------------------------
(* kafka and zookeeper.                                                    *)

(* A restart of kafka, asked for by whichever loop, succeeds or is missed; *)
(* one of another service but zookeeper says nothing about kafka.          *)
LEMMA KafkaReload ==
  ASSUME SidecarTypeOK, NEW svc \in Key, Loads(svc) \/ Fails(svc)
  PROVE  /\ svc = "kafka" => missed'["kafka"] \/ behind' = FALSE
         /\ svc \notin {"kafka", "zookeeper"} => behind' = behind
         /\ svc # "kafka" /\ "kafka" \in Key => missed'["kafka"] = missed["kafka"]
<1>1. svc = "kafka" => missed'["kafka"] \/ behind' = FALSE
  BY DEF Loads, Fails, SidecarTypeOK
<1>2. svc \notin {"kafka", "zookeeper"} => behind' = behind
  BY DEF Loads, Fails
<1>3. svc # "kafka" /\ "kafka" \in Key => missed'["kafka"] = missed["kafka"]
  BY DEF Loads, Fails, SidecarTypeOK
<1> QED BY <1>1, <1>2, <1>3

(* A loop that reloads a service: zookeeper's is not done before kafka has *)
(* been restarted, and the others leave kafka as it was or restart it.     *)
LEMMA KafkaAfterReload ==
  ASSUME SidecarTypeOK, KafkaRestartsWithZookeeper,
         NEW k \in Key, Reload(k) \/ DependentReload(k)
  PROVE  KafkaRestartsWithZookeeper'
<1> SUFFICES ASSUME {"kafka", "zookeeper"} \subseteq Key,
                    pc'["zookeeper"] \in {"fetch", "compare", "sleep"},
                    hash'["zookeeper"] # NoHash, ~missed'["kafka"]
             PROVE  ~behind'
  BY DEF KafkaRestartsWithZookeeper
<1>0. hash' = hash
  BY DEF Reload, DependentReload
<1>1. CASE k = "zookeeper"
  <2>1. DependentReload(k)
    BY <1>1 DEF Reload, Goto, SidecarTypeOK
  <2>2. Dependents(k) = {"kafka"}
    BY <1>1 DEF Dependents
  <2>3. Loads("kafka") \/ Fails("kafka")
    BY <2>1, <2>2 DEF DependentReload
  <2> QED BY <2>3, KafkaReload
<1>2. CASE k # "zookeeper"
  <2>1. pc'["zookeeper"] = pc["zookeeper"]
    BY <1>2 DEF Reload, DependentReload, Goto, SidecarTypeOK
  <2>2. ~missed["kafka"] => ~behind
    BY <1>0, <2>1 DEF KafkaRestartsWithZookeeper
  <2>3. CASE Reload(k)
    <3>1. Loads(k) \/ Fails(k)
      BY <2>3 DEF Reload
    <3>2. CASE k = "kafka"
      BY <3>1, <3>2, KafkaReload
    <3>3. CASE k # "kafka"
      BY <1>2, <2>2, <3>1, <3>3, KafkaReload
    <3> QED BY <3>2, <3>3
  <2>4. CASE DependentReload(k)
    <3>1. Dependents(k) = {}
      BY <1>2 DEF Dependents
    <3>2. UNCHANGED <<missed, behind>>
      BY <2>4, <3>1 DEF DependentReload
    <3> QED BY <2>2, <3>2
  <2> QED BY <2>3, <2>4
<1> QED BY <1>1, <1>2

(* Every other step leaves zookeeper's loop at work, or done as before.    *)
LEMMA KafkaStep == SidecarInv /\ KafkaRestartsWithZookeeper /\ [Next]_vars
                     => KafkaRestartsWithZookeeper'
<1> SUFFICES ASSUME SidecarInv, KafkaRestartsWithZookeeper, [Next]_vars
             PROVE  KafkaRestartsWithZookeeper'
  OBVIOUS
<1> USE DEF SidecarInv
<1>1. CASE UNCHANGED vars
  BY <1>1 DEF vars, KafkaRestartsWithZookeeper
<1>2. ASSUME NEW k \in Key, Fetch(k) \/ Install(k) \/ Wake(k) \/ Store(k)
      PROVE  KafkaRestartsWithZookeeper'
  <2>1. UNCHANGED <<missed, behind>>
    BY <1>2 DEF Fetch, Install, Wake, Store
  <2>2. CASE Fetch(k) \/ Wake(k) \/ Store(k)
    <3>1. hash' = hash
      BY <2>2 DEF Fetch, Wake, Store
    <3>2. "zookeeper" \in Key /\ pc'["zookeeper"] \in {"fetch", "compare", "sleep"}
            => pc["zookeeper"] \in {"fetch", "compare", "sleep"}
      BY <2>2 DEF Fetch, Wake, Store, Goto, SidecarTypeOK
    <3> QED BY <2>1, <3>1, <3>2 DEF KafkaRestartsWithZookeeper
  <2>3. CASE Install(k)
    <3>1. "zookeeper" \in Key /\ pc'["zookeeper"] \in {"fetch", "compare", "sleep"}
            => /\ pc["zookeeper"] \in {"fetch", "compare", "sleep"}
               /\ hash'["zookeeper"] = hash["zookeeper"]
      BY <2>3 DEF Install, Goto, SidecarTypeOK
    <3> QED BY <2>1, <3>1 DEF KafkaRestartsWithZookeeper
  <2> QED BY <1>2, <2>2, <2>3
<1>3. ASSUME NEW k \in Key, Reload(k) \/ DependentReload(k)
      PROVE  KafkaRestartsWithZookeeper'
  BY <1>3, KafkaAfterReload
<1>4. CASE Outage \/ OutageEnds
  BY <1>4 DEF Outage, OutageEnds, KafkaRestartsWithZookeeper
<1>5. CASE Restart
  BY <1>5 DEF Restart, KafkaRestartsWithZookeeper
<1> QED BY <1>1, <1>2, <1>3, <1>4, <1>5 DEF Next, Loop

(* kafka is restarted after zookeeper is: a loop of zookeeper's key that   *)
(* is done has not forgotten kafka, wherever the container stopped before  *)
(* (entrypoint.sh, dependent_reload).                                      *)
THEOREM KafkaNeverForgotten == Spec => []KafkaRestartsWithZookeeper
<1>1. Init => KafkaRestartsWithZookeeper
  BY DEF Init, KafkaRestartsWithZookeeper
<1> QED BY <1>1, SidecarInitInv, SidecarStep, KafkaStep, PTL DEF Spec
=============================================================================
