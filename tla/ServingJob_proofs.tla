-------------------------- MODULE ServingJob_proofs --------------------------
(***************************************************************************)
(* Proofs about ServingJob, for every set of jobs, nodes and models.       *)
(***************************************************************************)
EXTENDS ServingJob, TLAPS

(***************************************************************************)
(* The invariant.                                                          *)
(***************************************************************************)
(* A queued job has no server, and only the way out of bash stops one.     *)
PlaceInv ==
  \A j \in Jobs : /\ pc[j] = "queued" => server[j] = "none"
                  /\ Running(j) => server[j] # "stopping"

(* The server a health check spoke to serves the configured model on the   *)
(* job's node, and has the port until it is gone.                          *)
CheckedServer(j) ==
  LET c == checked[j]
  IN  /\ node[c] = node[j] /\ served[c] = model[j]
      /\ server[c] = "gone" \/ port[node[c]] = c
CheckedInv ==
  \A j \in Jobs :
    /\ pc[j] \in {"queued", "launched", "waiting", "live"} => answered[j] = {}
    /\ pc[j] = "driving" \/ answered[j] # {} => checked[j] \in Jobs
    /\ checked[j] \in Jobs => CheckedServer(j)

(* A job that runs alone has nobody for company, and the sidecar is at the *)
(* stage its own server has brought it to.                                 *)
AloneInv ==
  \A j \in Jobs \ shared :
    Running(j) =>
      /\ \A o \in Jobs \ {j} : ~Running(o) /\ ~Alive(o)
      /\ server[j] = "capturing" => sidecar = Emptied
      /\ server[j] \in {"loading", "serving"} => sidecar = j
      /\ pc[j] = "driving" => sidecar = j /\ server[j] \in {"serving", "gone"}

Inv == /\ TypeOK /\ PlaceInv
       /\ CheckedInv /\ OtherModelOnlyAfterTheCheckedOne
       /\ AloneInv /\ AloneIsTrue

(***************************************************************************)
(* It holds at first.                                                      *)
(***************************************************************************)
LEMMA InitInv == Init => Inv
<1> SUFFICES ASSUME Init PROVE Inv
  OBVIOUS
<1> USE NoJobAssumption
<1>1. TypeOK
  BY DEF Init, TypeOK, Missing
<1>2. PlaceInv /\ CheckedInv /\ OtherModelOnlyAfterTheCheckedOne
  BY DEF Init, PlaceInv, CheckedInv, OtherModelOnlyAfterTheCheckedOne, Running
<1>3. AloneInv /\ AloneIsTrue
  BY DEF Init, AloneInv, AloneIsTrue, Running
<1>4. QED
  BY <1>1, <1>2, <1>3 DEF Inv

(***************************************************************************)
(* The steps of a server keep it.                                          *)
(***************************************************************************)
LEMMA ResolveTierKeeps == ASSUME Inv, NEW s \in Jobs, ResolveTier(s) PROVE Inv'
<1> USE DEF ResolveTier, jobVars, OpenedToWrite
<1>1. TypeOK'
  BY DEF Inv, TypeOK
<1>2. PlaceInv'
  BY DEF Inv, TypeOK, PlaceInv, Running
<1>3. CheckedInv'
  BY DEF Inv, TypeOK, CheckedInv, CheckedServer
<1>4. OtherModelOnlyAfterTheCheckedOne'
  BY DEF Inv, TypeOK, OtherModelOnlyAfterTheCheckedOne
<1>5. AloneInv'
  BY DEF Inv, TypeOK, AloneInv, Running, Alive
<1>6. AloneIsTrue'
  BY DEF Inv, AloneIsTrue
<1>7. QED
  BY <1>1, <1>2, <1>3, <1>4, <1>5, <1>6 DEF Inv

LEMMA WriteServeEnvKeeps == ASSUME Inv, NEW s \in Jobs, WriteServeEnv(s) PROVE Inv'
<1> USE DEF WriteServeEnv, jobVars, TextAfterWrite
<1>1. TypeOK'
  BY DEF Inv, TypeOK
<1>2. PlaceInv'
  BY DEF Inv, TypeOK, PlaceInv, Running
<1>3. CheckedInv'
  BY DEF Inv, TypeOK, CheckedInv, CheckedServer
<1>4. OtherModelOnlyAfterTheCheckedOne'
  BY DEF Inv, TypeOK, OtherModelOnlyAfterTheCheckedOne
<1>5. AloneInv'
  BY DEF Inv, TypeOK, AloneInv, Running, Alive
<1>6. AloneIsTrue'
  BY DEF Inv, AloneIsTrue
<1>7. QED
  BY <1>1, <1>2, <1>3, <1>4, <1>5, <1>6 DEF Inv

LEMMA BindKeeps == ASSUME Inv, NEW s \in Jobs, Bind(s) PROVE Inv'
<1> USE NoJobAssumption DEF Bind, jobVars, PortFree
<1>1. TypeOK'
  BY DEF Inv, TypeOK
<1>2. PlaceInv'
  BY DEF Inv, TypeOK, PlaceInv, Running
<1>3. CheckedInv'
  BY DEF Inv, TypeOK, CheckedInv, CheckedServer
<1>4. OtherModelOnlyAfterTheCheckedOne'
  BY DEF Inv, TypeOK, OtherModelOnlyAfterTheCheckedOne, CheckedInv
<1>5. AloneInv'
  BY DEF Inv, TypeOK, AloneInv, Running, Alive
<1>6. AloneIsTrue'
  BY DEF Inv, AloneIsTrue
<1>7. QED
  BY <1>1, <1>2, <1>3, <1>4, <1>5, <1>6 DEF Inv

LEMMA ServerGoesKeeps ==
  ASSUME Inv, NEW s \in Jobs, ServerDies(s) \/ ServerStops(s)
  PROVE  Inv'
<1>1. /\ UNCHANGED <<node, model, served, pc, trap, sidecar, checked, answered, recorded,
                     lost, shared>>
      /\ server' = [server EXCEPT ![s] = "gone"]
      /\ port' = [port EXCEPT ![node[s]] = IF @ = s THEN NoJob ELSE @]
      /\ server[s] \notin {"none", "gone"}
  BY DEF ServerDies, ServerStops, jobVars, LeavePort
<1> USE NoJobAssumption
<1>2. TypeOK'
  <2>1. port' \in [Nodes -> Jobs \cup {NoJob}] /\ server' \in [Jobs ->
          {"none", "resolving", "capturing", "loading", "serving", "stopping", "gone"}]
    BY <1>1 DEF Inv, TypeOK
  <2>2. ASSUME NEW n \in Nodes, port'[n] # NoJob
        PROVE  node'[port'[n]] = n /\ server'[port'[n]] \in {"serving", "stopping"}
    BY <1>1, <2>2 DEF Inv, TypeOK
  <2>3. ASSUME NEW o \in Jobs, server'[o] = "serving" PROVE port'[node'[o]] = o
    BY <1>1, <2>3 DEF Inv, TypeOK
  <2>4. QED
    BY <1>1, <2>1, <2>2, <2>3 DEF Inv, TypeOK
<1>3. PlaceInv'
  BY <1>1 DEF Inv, TypeOK, PlaceInv, Running
<1>4. CheckedInv'
  BY <1>1 DEF Inv, TypeOK, CheckedInv, CheckedServer
<1>5. OtherModelOnlyAfterTheCheckedOne'
  BY <1>1 DEF Inv, TypeOK, OtherModelOnlyAfterTheCheckedOne, CheckedInv
<1>6. AloneInv'
  BY <1>1 DEF Inv, TypeOK, AloneInv, Running, Alive
<1>7. AloneIsTrue'
  BY <1>1 DEF Inv, AloneIsTrue
<1>8. QED
  BY <1>2, <1>3, <1>4, <1>5, <1>6, <1>7 DEF Inv

(***************************************************************************)
(* The steps of a job keep it.                                             *)
(***************************************************************************)
(* A step that moves only the job's own place, without coming to drive.    *)
LEMMA MoveKeeps ==
  ASSUME Inv, NEW j \in Jobs,
         NEW place \in {"waiting", "live", "leaving"},
         \/ place = "leaving" /\ Running(j)
         \/ pc[j] \in {"launched", "waiting"},
         pc' = [pc EXCEPT ![j] = place],
         trap' = trap \/ trap' = trap \cup {j},
         UNCHANGED <<jobVars, server, port, sidecar, checked, answered, recorded,
                     lost, shared>>
  PROVE  Inv'
<1> USE DEF jobVars
<1>1. TypeOK'
  BY DEF Inv, TypeOK
<1>2. PlaceInv'
  BY DEF Inv, TypeOK, PlaceInv, Running
<1>3. CheckedInv'
  BY DEF Inv, TypeOK, CheckedInv, CheckedServer
<1>4. OtherModelOnlyAfterTheCheckedOne'
  BY DEF Inv, OtherModelOnlyAfterTheCheckedOne
<1>5. AloneInv'
  BY DEF Inv, TypeOK, AloneInv, Running, Alive
<1>6. AloneIsTrue'
  BY DEF Inv, AloneIsTrue
<1>7. QED
  BY <1>1, <1>2, <1>3, <1>4, <1>5, <1>6 DEF Inv

LEMMA LeaveShellKeeps ==
  ASSUME Inv, NEW j \in Jobs, LeaveShell(j),
         UNCHANGED <<jobVars, trap, port, sidecar, checked, answered, recorded,
                     lost, shared>>
  PROVE  Inv'
<1> USE DEF LeaveShell, jobVars, Alive
<1>1. TypeOK'
  <2>1. server' \in [Jobs ->
          {"none", "resolving", "capturing", "loading", "serving", "stopping", "gone"}]
    BY DEF Inv, TypeOK
  <2>2. \A s \in Jobs : server[s] \in {"serving", "stopping"} =>
          server'[s] \in {server[s], "stopping"}
    BY DEF Inv, TypeOK
  <2>3. \A s \in Jobs : server'[s] = "serving" => server[s] = "serving"
    BY DEF Inv, TypeOK
  <2>4. QED
    BY <2>1, <2>2, <2>3, NoJobAssumption DEF Inv, TypeOK
<1>2. PlaceInv'
  BY DEF Inv, TypeOK, PlaceInv, Running
<1>3. CheckedInv'
  BY DEF Inv, TypeOK, CheckedInv, CheckedServer
<1>4. OtherModelOnlyAfterTheCheckedOne'
  <2>1. \A c \in Jobs : server[c] = "gone" => server'[c] = "gone"
    BY DEF Inv, TypeOK
  <2>2. \A i \in Jobs : answered[i] # {} => checked[i] \in Jobs
    BY DEF Inv, CheckedInv
  <2>3. QED
    BY <2>1, <2>2 DEF Inv, OtherModelOnlyAfterTheCheckedOne
<1>5. AloneInv'
  BY DEF Inv, TypeOK, AloneInv, Running
<1>6. AloneIsTrue'
  BY DEF Inv, AloneIsTrue
<1>7. QED
  BY <1>1, <1>2, <1>3, <1>4, <1>5, <1>6 DEF Inv

LEMMA PreflightFailsKeeps == ASSUME Inv, NEW j \in Jobs, PreflightFails(j) PROVE Inv'
<1> USE DEF PreflightFails, jobVars
<1>1. TypeOK'
  BY DEF Inv, TypeOK
<1>2. PlaceInv' /\ CheckedInv'
  BY DEF Inv, TypeOK, PlaceInv, CheckedInv, CheckedServer, Running
<1>3. OtherModelOnlyAfterTheCheckedOne' /\ AloneIsTrue'
  BY DEF Inv, OtherModelOnlyAfterTheCheckedOne, AloneIsTrue
<1>4. AloneInv'
  BY DEF Inv, TypeOK, AloneInv, Running, Alive
<1>5. QED
  BY <1>1, <1>2, <1>3, <1>4 DEF Inv

LEMMA LaunchKeeps == ASSUME Inv, NEW j \in Jobs, Launch(j) PROVE Inv'
<1> USE NoJobAssumption DEF Launch, jobVars
<1>1. server[j] = "none"
  BY DEF Inv, PlaceInv
<1>2. TypeOK'
  BY <1>1 DEF Inv, TypeOK, Company
<1>3. PlaceInv'
  BY <1>1 DEF Inv, TypeOK, PlaceInv, Running
<1>4. CheckedInv'
  BY <1>1 DEF Inv, TypeOK, CheckedInv, CheckedServer
<1>5. OtherModelOnlyAfterTheCheckedOne'
  BY <1>1 DEF Inv, TypeOK, OtherModelOnlyAfterTheCheckedOne, CheckedInv
<1>6. shared \subseteq shared'
  BY DEF Inv
<1>7. AloneInv'
  <2> SUFFICES ASSUME NEW i \in Jobs \ shared', Running(i)'
               PROVE  /\ \A o \in Jobs \ {i} : ~Running(o)' /\ ~Alive(o)'
                      /\ server'[i] = "capturing" => sidecar' = Emptied
                      /\ server'[i] \in {"loading", "serving"} => sidecar' = i
                      /\ pc'[i] = "driving" =>
                           sidecar' = i /\ server'[i] \in {"serving", "gone"}
    BY DEF AloneInv
  <2>1. i = j
    <3>1. SUFFICES ASSUME i # j PROVE FALSE
      OBVIOUS
    <3>2. Running(i)
      BY <3>1 DEF Inv, TypeOK, Running
    <3>3. i \in Company(j)
      BY <3>1, <3>2 DEF Company
    <3>4. QED
      BY <3>3
  <2>2. Company(j) = {}
    BY <2>1
  <2>3. \A o \in Jobs \ {i} : ~Running(o)' /\ ~Alive(o)'
    BY <2>1, <2>2 DEF Inv, TypeOK, Company, Running, Alive
  <2>4. pc'[i] = "launched" /\ server'[i] = "resolving"
    BY <2>1 DEF Inv, TypeOK
  <2>5. QED
    BY <2>3, <2>4
<1>8. AloneIsTrue'
  BY <1>6 DEF Inv, AloneIsTrue
<1>9. QED
  BY <1>2, <1>3, <1>4, <1>5, <1>7, <1>8 DEF Inv

(* Whatever listens on the node of a job that runs alone is its own server.*)
LEMMA OwnPort ==
  ASSUME Inv, NEW j \in Jobs \ shared, Running(j), port[node[j]] # NoJob
  PROVE  port[node[j]] = j /\ server[j] = "serving" /\ sidecar = j
<1>1. /\ port[node[j]] \in Jobs
      /\ server[port[node[j]]] \in {"serving", "stopping"}
  BY DEF Inv, TypeOK
<1>2. port[node[j]] = j
  BY <1>1 DEF Inv, AloneInv, Alive
<1>3. server[j] = "serving"
  BY <1>1, <1>2 DEF Inv, PlaceInv
<1>4. QED
  BY <1>2, <1>3 DEF Inv, AloneInv

LEMMA HealthCheckKeeps == ASSUME Inv, NEW j \in Jobs, HealthCheck(j) PROVE Inv'
<1> USE NoJobAssumption DEF HealthCheck, Healthy, jobVars
<1>1. port[node[j]] \in Jobs /\ node[port[node[j]]] = node[j]
  BY DEF Inv, TypeOK
<1>2. TypeOK'
  BY <1>1 DEF Inv, TypeOK
<1>3. PlaceInv'
  BY DEF Inv, TypeOK, PlaceInv, Running
<1>4. CheckedInv'
  BY <1>1 DEF Inv, TypeOK, CheckedInv, CheckedServer
<1>5. OtherModelOnlyAfterTheCheckedOne'
  BY DEF Inv, TypeOK, CheckedInv, OtherModelOnlyAfterTheCheckedOne
<1>6. AloneInv'
  <2>1. j \notin shared => sidecar = j /\ server[j] = "serving"
    BY OwnPort DEF Running
  <2>2. QED
    BY <2>1 DEF Inv, TypeOK, AloneInv, Running, Alive
<1>7. AloneIsTrue'
  BY DEF Inv, AloneIsTrue
<1>8. QED
  BY <1>2, <1>3, <1>4, <1>5, <1>6, <1>7 DEF Inv

LEMMA EpisodeKeeps == ASSUME Inv, NEW j \in Jobs, Episode(j) PROVE Inv'
<1> USE NoJobAssumption DEF Episode, jobVars
<1>1. port[node[j]] \in Jobs
  BY DEF Inv, TypeOK
<1>2. TypeOK'
  BY <1>1 DEF Inv, TypeOK
<1>3. PlaceInv' /\ AloneInv'
  BY DEF Inv, PlaceInv, AloneInv, Running, Alive
<1>4. CheckedInv'
  BY DEF Inv, TypeOK, CheckedInv, CheckedServer
<1>5. served[port[node[j]]] # model[j] => server[checked[j]] = "gone"
  BY DEF Inv, CheckedInv, CheckedServer
<1>6. OtherModelOnlyAfterTheCheckedOne'
  BY <1>5 DEF Inv, TypeOK, OtherModelOnlyAfterTheCheckedOne
<1>7. j \notin shared => port[node[j]] = j
  BY OwnPort DEF Running
<1>8. AloneIsTrue'
  BY <1>7 DEF Inv, TypeOK, AloneIsTrue
<1>9. QED
  BY <1>2, <1>3, <1>4, <1>6, <1>8 DEF Inv

LEMMA RecordManifestKeeps == ASSUME Inv, NEW j \in Jobs, RecordManifest(j) PROVE Inv'
<1> USE NoJobAssumption DEF RecordManifest, jobVars
<1>1. j \notin shared => sidecar = j
  BY DEF Inv, AloneInv, Running
<1>2. TypeOK'
  BY DEF Inv, TypeOK
<1>3. PlaceInv' /\ CheckedInv'
  BY DEF Inv, TypeOK, PlaceInv, CheckedInv, CheckedServer, Running
<1>4. OtherModelOnlyAfterTheCheckedOne'
  BY DEF Inv, OtherModelOnlyAfterTheCheckedOne
<1>5. AloneInv'
  BY DEF Inv, TypeOK, AloneInv, Running, Alive
<1>6. AloneIsTrue'
  BY <1>1 DEF Inv, TypeOK, AloneIsTrue
<1>7. QED
  BY <1>2, <1>3, <1>4, <1>5, <1>6 DEF Inv

(***************************************************************************)
(* Every step keeps it.                                                    *)
(***************************************************************************)
LEMMA ShellKeeps == ASSUME Inv, NEW j \in Jobs, Shell(j) PROVE Inv'
<1>1. CASE SetTrap(j)
  BY <1>1, MoveKeeps DEF SetTrap
<1>2. CASE EndpointLive(j)
  BY <1>2, MoveKeeps DEF EndpointLive
<1>3. CASE PollFails(j)
  BY <1>3, MoveKeeps DEF PollFails, Running
<1>4. CASE HealthCheck(j)
  BY <1>4, HealthCheckKeeps
<1>5. CASE HealthCheckFails(j)
  BY <1>5, MoveKeeps DEF HealthCheckFails, Running
<1>6. CASE DriverFails(j)
  BY <1>6, MoveKeeps DEF DriverFails, Running
<1>7. CASE RecordManifest(j)
  BY <1>7, RecordManifestKeeps
<1>8. CASE Leave(j)
  BY <1>8, LeaveShellKeeps DEF Leave
<1>9. QED
  BY <1>1, <1>2, <1>3, <1>4, <1>5, <1>6, <1>7, <1>8 DEF Shell

LEMMA NextInv == Inv /\ [Next]_vars => Inv'
<1> SUFFICES ASSUME Inv, [Next]_vars PROVE Inv'
  OBVIOUS
<1>1. ASSUME NEW j \in Jobs, Server(j) PROVE Inv'
  BY <1>1, ResolveTierKeeps, WriteServeEnvKeeps, BindKeeps, ServerGoesKeeps DEF Server
<1>2. ASSUME NEW j \in Jobs, Shell(j) PROVE Inv'
  BY <1>2, ShellKeeps
<1>3. ASSUME NEW j \in Jobs, Episode(j) PROVE Inv'
  BY <1>3, EpisodeKeeps
<1>4. ASSUME NEW j \in Jobs, PreflightFails(j) PROVE Inv'
  BY <1>4, PreflightFailsKeeps
<1>5. ASSUME NEW j \in Jobs, Launch(j) PROVE Inv'
  BY <1>5, LaunchKeeps
<1>6. ASSUME NEW j \in Jobs, Terminate(j) PROVE Inv'
  BY <1>6, LeaveShellKeeps DEF Terminate
<1>7. CASE UNCHANGED vars
  BY <1>7 DEF vars, jobVars, Inv, TypeOK, PlaceInv, CheckedInv, CheckedServer, AloneInv,
              AloneIsTrue, OtherModelOnlyAfterTheCheckedOne, Running, Alive
<1>8. QED
  BY <1>1, <1>2, <1>3, <1>4, <1>5, <1>6, <1>7 DEF Next

(* The strengthening, an invariant whatever the scheduler, the servers and *)
(* the drivers do.                                                         *)
THEOREM Invariant == Spec => []Inv
BY InitInv, NextInv, PTL DEF Spec

(* Every variable keeps its type, and a port has one owner that is up.     *)
THEOREM TypeCorrect == Spec => []TypeOK
<1>1. Inv => TypeOK
  BY DEF Inv
<1>2. QED
  BY <1>1, Invariant, PTL

(* A job that never ran beside another, nor beside a server left behind,   *)
(* was answered by its own server, and its manifest describes that server. *)
THEOREM AloneIsTrueAlways == Spec => []AloneIsTrue
<1>1. Inv => AloneIsTrue
  BY DEF Inv
<1>2. QED
  BY <1>1, Invariant, PTL

(* With any number of jobs on one port, another model answers an episode   *)
(* only once the server that passed the health check is gone.              *)
THEOREM OtherModelOnlyAfter == Spec => []OtherModelOnlyAfterTheCheckedOne
<1>1. Inv => OtherModelOnlyAfterTheCheckedOne
  BY DEF Inv
<1>2. QED
  BY <1>1, Invariant, PTL
=============================================================================
