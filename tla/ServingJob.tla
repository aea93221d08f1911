----------------------------- MODULE ServingJob -----------------------------
(***************************************************************************)
(* Serve-and-drive jobs on the cluster (scripts/myriad/pilot.sh with       *)
(* serve.sh and _common.sh, the client's health check, and the sidecar     *)
(* that ends up in the run manifest).                                      *)
(*                                                                         *)
(* One job is a bash that starts a server, waits for its port, runs the    *)
(* driver against it and stops the server on the way out:                  *)
(*                                                                         *)
(*   queued --> launched --> waiting --> live --> driving --> leaving      *)
(*                                                     --> ended           *)
(* and its server, a process of its own:                                   *)
(*                                                                         *)
(*   none --> resolving --> capturing --> loading --> serving --> gone     *)
(*                 (killed on any of these: stopping --> gone)             *)
(*                                                                         *)
(* Jobs share two things nobody locks: the port of their node, and one     *)
(* default path for the sidecar. A server is named by its job; what it     *)
(* serves may differ from the tier's config (a MODEL override).  vLLM and  *)
(* the scheduler are external: a server may die at any time, exits when    *)
(* its port is taken, holds its port while it stops, and answers any call. *)
(***************************************************************************)
EXTENDS Naturals, FiniteSets

CONSTANTS
  Jobs,       \* submitted jobs, and their servers
  Nodes,      \* compute nodes
  Models,     \* checkpoints a tier names
  NoJob       \* no job

ASSUME NoJobAssumption == NoJob \notin Jobs

VARIABLES
  node,       \* job -> the node the scheduler gave it
  model,      \* job -> the model its driver is configured with
  served,     \* job -> the model its server loads
  pc,         \* job -> where pilot.sh is
  trap,       \* the jobs whose EXIT trap is set
  server,     \* job -> where its server is
  port,       \* node -> the server that listens there
  sidecar,    \* what runs/serve_env.json holds: a whole text, or which not
  checked,    \* job -> the server its health check spoke to
  answered,   \* job -> the servers that answered its episodes
  recorded,   \* job -> the server its manifest describes
  (* Bookkeeping.                                                          *)
  lost,       \* jobs that ran their episodes and could not write a manifest
  shared      \* jobs that ran while another job, or its server, was there

jobVars == <<node, model, served>>
vars == <<node, model, served, pc, trap, server, port, sidecar, checked,
          answered, recorded, lost, shared>>

Missing == "missing"
Emptied == "emptied"
Mixed == "mixed"
Running(j) == pc[j] \notin {"queued", "ended"}
Alive(j) == server[j] \notin {"none", "gone"}
Company(j) == {o \in Jobs \ {j} : Running(o) \/ Alive(o)}
-----------------------------------------------------------------------------
(* The server side: serve.sh, then the vllm it execs.                      *)

OpenedToAppend == sidecar
(* cat > empties the sidecar before the text for it is put together.       *)
OpenedToWrite == Emptied

(* The tier's config gives the model, and the sidecar is opened.           *)
ResolveTier(s) ==
  /\ server[s] = "resolving"
  /\ server' = [server EXCEPT ![s] = "capturing"]
  /\ sidecar' = OpenedToWrite
  /\ UNCHANGED <<jobVars, pc, trap, port, checked, answered, recorded, lost, shared>>

(* Over another writer's text, the tail of a longer one stays behind.      *)
TextAfterWrite(s) == {s} \cup IF sidecar = Emptied THEN {} ELSE {Mixed}

WriteServeEnv(s) ==
  /\ server[s] = "capturing"
  /\ server' = [server EXCEPT ![s] = "loading"]
  /\ sidecar' \in TextAfterWrite(s)
  /\ UNCHANGED <<jobVars, pc, trap, port, checked, answered, recorded, lost, shared>>

PortShared(s) == TRUE
PortFree(s) == port[node[s]] = NoJob

Bind(s) ==
  /\ server[s] = "loading"
  /\ PortFree(s)
  /\ server' = [server EXCEPT ![s] = "serving"]
  /\ port' = [port EXCEPT ![node[s]] = s]
  /\ UNCHANGED <<jobVars, pc, trap, sidecar, checked, answered, recorded, lost, shared>>

LeavePort(s) ==
  port' = [port EXCEPT ![node[s]] = IF @ = s THEN NoJob ELSE @]

(* Out of memory, a bad revision, a port in use, or no config for the tier.*)
ServerDies(s) ==
  /\ server[s] \in {"resolving", "capturing", "loading", "serving"}
  /\ server' = [server EXCEPT ![s] = "gone"]
  /\ LeavePort(s)
  /\ UNCHANGED <<jobVars, pc, trap, sidecar, checked, answered, recorded, lost, shared>>

ServerStops(s) ==
  /\ server[s] = "stopping"
  /\ server' = [server EXCEPT ![s] = "gone"]
  /\ LeavePort(s)
  /\ UNCHANGED <<jobVars, pc, trap, sidecar, checked, answered, recorded, lost, shared>>
-----------------------------------------------------------------------------
(* The job: pilot.sh.                                                      *)

StoppedAfterSuccess(j) == j \in trap /\ recorded[j] # NoJob
(* The EXIT trap kills the server's pid, once it is set.                   *)
Trapped(j) == j \in trap

(* bash exits, by itself or on a signal, and the trap runs if it is set.   *)
LeaveShell(j) ==
  /\ pc' = [pc EXCEPT ![j] = "ended"]
  /\ server' = [server EXCEPT ![j] = IF Trapped(j) /\ Alive(j) THEN "stopping" ELSE @]

(* No config for the tier, no image, no venv, no encoder: set -e ends the  *)
(* job before a server is started.                                         *)
PreflightFails(j) ==
  /\ pc[j] = "queued"
  /\ pc' = [pc EXCEPT ![j] = "ended"]
  /\ UNCHANGED <<jobVars, trap, server, port, sidecar, checked, answered, recorded,
                 lost, shared>>

(* bash serve.sh &                                                         *)
Launch(j) ==
  /\ pc[j] = "queued"
  /\ pc' = [pc EXCEPT ![j] = "launched"]
  /\ server' = [server EXCEPT ![j] = "resolving"]
  /\ shared' = IF Company(j) = {} THEN shared ELSE shared \cup {j} \cup Company(j)
  /\ UNCHANGED <<jobVars, trap, port, sidecar, checked, answered, recorded, lost>>

SetTrap(j) ==
  /\ pc[j] = "launched"
  /\ pc' = [pc EXCEPT ![j] = "waiting"]
  /\ trap' = trap \cup {j}
  /\ UNCHANGED <<jobVars, server, port, sidecar, checked, answered, recorded, lost, shared>>

(* curl succeeds for whatever listens on the port, before the job looks at *)
(* its own server.                                                         *)
EndpointLive(j) ==
  /\ pc[j] = "waiting"
  /\ port[node[j]] # NoJob
  /\ pc' = [pc EXCEPT ![j] = "live"]
  /\ UNCHANGED <<jobVars, trap, server, port, sidecar, checked, answered, recorded,
                 lost, shared>>

StillWaits(j) == FALSE
(* The server's pid is gone, or SECONDS has reached the deadline, which    *)
(* may be at any poll.                                                     *)
GivesUp(j) == port[node[j]] = NoJob

PollFails(j) ==
  /\ pc[j] = "waiting"
  /\ GivesUp(j)
  /\ pc' = [pc EXCEPT ![j] = "leaving"]
  /\ UNCHANGED <<jobVars, trap, server, port, sidecar, checked, answered, recorded,
                 lost, shared>>

AnyModel(j) == port[node[j]] # NoJob
(* The ids the endpoint serves hold the configured one.                    *)
Healthy(j) == /\ port[node[j]] # NoJob
              /\ served[port[node[j]]] = model[j]

HealthCheck(j) ==
  /\ pc[j] = "live"
  /\ Healthy(j)
  /\ checked' = [checked EXCEPT ![j] = port[node[j]]]
  /\ pc' = [pc EXCEPT ![j] = "driving"]
  /\ UNCHANGED <<jobVars, trap, server, port, sidecar, answered, recorded, lost, shared>>

(* The id is not there, or its answer is empty or an error: ServingError.  *)
HealthCheckFails(j) ==
  /\ pc[j] = "live"
  /\ pc' = [pc EXCEPT ![j] = "leaving"]
  /\ UNCHANGED <<jobVars, trap, server, port, sidecar, checked, answered, recorded,
                 lost, shared>>

Episode(j) ==
  /\ pc[j] = "driving"
  /\ port[node[j]] # NoJob
  /\ answered' = [answered EXCEPT ![j] = @ \cup {port[node[j]]}]
  /\ UNCHANGED <<jobVars, pc, trap, server, port, sidecar, checked, recorded, lost, shared>>

(* A call fails, or the driver for a reason of its own.                    *)
DriverFails(j) ==
  /\ pc[j] = "driving"
  /\ pc' = [pc EXCEPT ![j] = "leaving"]
  /\ UNCHANGED <<jobVars, trap, server, port, sidecar, checked, answered, recorded,
                 lost, shared>>

(* The episodes are stored; the manifest reads the sidecar only now, and   *)
(* raises when it is missing or not JSON.                                  *)
RecordManifest(j) ==
  /\ pc[j] = "driving"
  /\ pc' = [pc EXCEPT ![j] = "leaving"]
  /\ IF sidecar \in Jobs
     THEN /\ recorded' = [recorded EXCEPT ![j] = sidecar]
          /\ UNCHANGED lost
     ELSE /\ lost' = lost \cup {j}
          /\ UNCHANGED recorded
  /\ UNCHANGED <<jobVars, trap, server, port, sidecar, checked, answered, shared>>

Leave(j) ==
  /\ pc[j] = "leaving"
  /\ LeaveShell(j)
  /\ UNCHANGED <<jobVars, trap, port, sidecar, checked, answered, recorded, lost, shared>>

(* The scheduler's SIGTERM, at the wallclock limit or by qdel.             *)
Terminate(j) ==
  /\ pc[j] \in {"launched", "waiting", "live", "driving"}
  /\ LeaveShell(j)
  /\ UNCHANGED <<jobVars, trap, port, sidecar, checked, answered, recorded, lost, shared>>
-----------------------------------------------------------------------------
Init ==
  /\ node \in [Jobs -> Nodes]
  /\ model \in [Jobs -> Models] /\ served \in [Jobs -> Models]
  /\ pc = [j \in Jobs |-> "queued"]
  /\ trap = {}
  /\ server = [j \in Jobs |-> "none"]
  /\ port = [n \in Nodes |-> NoJob]
  /\ sidecar = Missing
  /\ checked = [j \in Jobs |-> NoJob]
  /\ answered = [j \in Jobs |-> {}]
  /\ recorded = [j \in Jobs |-> NoJob]
  /\ lost = {} /\ shared = {}

Server(s) == ResolveTier(s) \/ WriteServeEnv(s) \/ Bind(s) \/ ServerDies(s) \/ ServerStops(s)

(* What bash and the driver do by themselves; a poll, a check and a run    *)
(* each end.                                                               *)
Shell(j) ==
  \/ SetTrap(j) \/ EndpointLive(j) \/ PollFails(j)
  \/ HealthCheck(j) \/ HealthCheckFails(j)
  \/ DriverFails(j) \/ RecordManifest(j) \/ Leave(j)

Next == \E j \in Jobs : \/ Server(j) \/ Shell(j) \/ Episode(j)
                        \/ PreflightFails(j) \/ Launch(j) \/ Terminate(j)

Spec == Init /\ [][Next]_vars
FairSpec == Spec /\ \A j \in Jobs : WF_vars(Shell(j)) /\ WF_vars(ServerStops(j))
-----------------------------------------------------------------------------
(***************************************************************************)
(* Properties.                                                             *)
(***************************************************************************)
(* Every variable has its type, and a port belongs to one server that is   *)
(* up: the server that listens is the only one of its node that serves.    *)
TypeOK ==
  /\ node \in [Jobs -> Nodes]
  /\ model \in [Jobs -> Models] /\ served \in [Jobs -> Models]
  /\ pc \in [Jobs -> {"queued", "launched", "waiting", "live", "driving", "leaving", "ended"}]
  /\ server \in [Jobs -> {"none", "resolving", "capturing", "loading", "serving",
                          "stopping", "gone"}]
  /\ port \in [Nodes -> Jobs \cup {NoJob}]
  /\ sidecar \in Jobs \cup {Missing, Emptied, Mixed}
  /\ checked \in [Jobs -> Jobs \cup {NoJob}]
  /\ recorded \in [Jobs -> Jobs \cup {NoJob}]
  /\ answered \in [Jobs -> SUBSET Jobs]
  /\ trap \subseteq Jobs /\ lost \subseteq Jobs /\ shared \subseteq Jobs
  /\ \A n \in Nodes : port[n] # NoJob =>
       node[port[n]] = n /\ server[port[n]] \in {"serving", "stopping"}
  /\ \A s \in Jobs : server[s] = "serving" => port[node[s]] = s

(* A job that never ran beside another one, nor beside a server that was   *)
(* left behind, was answered by its own server only, and its manifest      *)
(* describes that server ("the manifest picks up the server-side stack",   *)
(* pilot.sh 86); its episodes are not lost to a sidecar that cannot be     *)
(* read.                                                                   *)
AloneIsTrue ==
  \A j \in Jobs \ shared : /\ answered[j] \subseteq {j}
                           /\ recorded[j] \in {j, NoJob}
                           /\ j \notin lost

(* A leftover job that serves another tier fails at the health check       *)
(* (pilot.sh 149): the configured model answers every episode, on a node   *)
(* shared with any other job, for as long as the server that was checked   *)
(* is up. After that the port may be another server's.                     *)
OtherModelOnlyAfterTheCheckedOne ==
  \A j \in Jobs : \A s \in answered[j] :
    served[s] # model[j] => server[checked[j]] = "gone"

(* No orphaned server outlives the job (_common.sh 215): on every exit     *)
(* path after the trap is set, the server goes.                            *)
ServerFollowsJob ==
  \A j \in Jobs : (pc[j] = "ended" /\ j \in trap) ~> ~Alive(j)

(* A job that started ends, whether or not its server ever comes up.       *)
JobsEnd == \A j \in Jobs : Running(j) ~> pc[j] = "ended"
=============================================================================
