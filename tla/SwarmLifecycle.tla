--------------------------- MODULE SwarmLifecycle ---------------------------
(***************************************************************************)
(* The control plane of swarms (swarm.controller.ts, swarm_aws_service.ts, *)
(* repo/swarm_repo, repo/swarm_machine_repo): swarms are created once per  *)
(* idempotency key, machines are launched as ECS tasks and stopped again,  *)
(* one by one or with their swarm.                                         *)
(*                                                                         *)
(* There are no transactions. A request awaits one statement, or one call  *)
(* of AWS or of the machine's coordinator, after the other; each may fail, *)
(* and one that is reported to have failed may have been carried out. A    *)
(* machine is known by the request that launches it.                       *)
(***************************************************************************)
EXTENDS Naturals, FiniteSets

CONSTANTS
  Owners,       \* accounts
  ClientIds,    \* swarm ids that clients choose
  Keys,         \* idempotency keys
  MaxRequests,  \* how many requests there may be
  Loads,        \* what they may ask for, all together
  Nobody, NoKey, Generated, NoCall

Requests == 1..MaxRequests
NoRequest == 0

(* A swarm id is chosen by the client or generated for the request.        *)
SwarmIds == ClientIds \cup Requests
NoSwarm == [state |-> "none", owner |-> Nobody, key |-> NoKey, asked |-> Generated]

CallRecords ==
  [op: {"create", "launch", "stop", "stop-machine"}, owner: Owners,
   key: Keys \cup {NoKey}, swarm: ClientIds \cup {Generated}]

ASSUME LifecycleAssumption ==
  /\ MaxRequests \in Nat
  /\ NoCall \notin CallRecords /\ NoKey \notin Keys
  /\ Nobody \notin Owners
  /\ Generated \notin SwarmIds /\ ClientIds \cap Requests = {}
  /\ Loads \subseteq [Requests -> CallRecords \cup {NoCall}]

VARIABLES
  swarm,    \* the row of each swarm
  machine,  \* the row of each machine
  task,     \* its ECS task
  call,     \* what each request asks for
  pc,       \* what it does next
  left,     \* machines a stop has yet to stop
  at,       \* the machine it is stopping
  listed,   \* machines it has read the rows of
  saw,      \* those whose rows held the ARN of their task
  answer,   \* what the caller is told
  named     \* the swarm the caller is told

vars == <<swarm, machine, task, call, pc, left, at, listed, saw, answer, named>>
told == <<answer, named>>

Absent == [state |-> "none", arn |-> FALSE]

Goto(q, label) == pc' = [pc EXCEPT ![q] = label]

Settle(q, outcome) ==
  /\ Goto(q, "done") /\ answer' = [answer EXCEPT ![q] = outcome]
  /\ UNCHANGED named

Name(q, outcome, s) ==
  /\ Goto(q, "done") /\ answer' = [answer EXCEPT ![q] = outcome]
  /\ named' = [named EXCEPT ![q] = s]

Owned(q) == {s \in {call[q].swarm} \ {Generated} : swarm[s].owner = call[q].owner}

Launched(s) == {m \in Requests : machine[m].state # "none" /\ call[m].swarm = s}
-----------------------------------------------------------------------------
Init ==
  /\ swarm = [s \in SwarmIds |-> NoSwarm]
  /\ machine = [m \in Requests |-> Absent]
  /\ task = [m \in Requests |-> "none"]
  /\ call \in Loads
  /\ pc = [q \in Requests |-> "idle"]
  /\ left = [q \in Requests |-> {}]
  /\ at = [q \in Requests |-> NoRequest]
  /\ listed = [q \in Requests |-> {}]
  /\ saw = [q \in Requests |-> {}]
  /\ answer = [q \in Requests |-> "none"]
  /\ named = [q \in Requests |-> NoRequest]

Request(q) ==
  /\ pc[q] = "idle" /\ call[q] # NoCall
  /\ Goto(q, IF call[q].op # "create" THEN call[q].op
             ELSE IF call[q].key # NoKey THEN "find" ELSE "insert")
  /\ UNCHANGED <<swarm, machine, task, call, left, at, listed, saw, told>>
-----------------------------------------------------------------------------
(* create(): look for the key, insert unless the id or the key is taken,   *)
(* look for the key again.                                                 *)
SameKey(q) ==
  {s \in SwarmIds : call[q].key # NoKey /\ swarm[s].key = call[q].key /\ swarm[s].owner = call[q].owner}

Replay(q, s) ==
  IF swarm[s].asked = call[q].swarm THEN Name(q, "replayed", s) ELSE Settle(q, "IDEMPOTENCY_CONFLICT")

FindKey(q) ==
  /\ pc[q] = "find"
  /\ \/ \E s \in SameKey(q) : Replay(q, s)
     \/ SameKey(q) = {} /\ Goto(q, "insert") /\ UNCHANGED told
     \/ Settle(q, "unavailable")
  /\ UNCHANGED <<swarm, machine, task, call, left, at, listed, saw>>

(* Slip: the index on the key is missing.                                  *)
TakenId(q, s) == swarm[s] # NoSwarm

Taken(q, s) == swarm[s] # NoSwarm \/ SameKey(q) # {}

CreateSwarm(q) ==
  LET s == IF call[q].swarm = Generated THEN q ELSE call[q].swarm
      insert == swarm' = [swarm EXCEPT ![s] =
        [state |-> "active", owner |-> call[q].owner, key |-> call[q].key, asked |-> call[q].swarm]] IN
  /\ pc[q] = "insert"
  /\ \/ ~Taken(q, s) /\ insert /\ (Name(q, "created", s) \/ Settle(q, "unavailable"))
     \/ Taken(q, s) /\ UNCHANGED swarm /\ Goto(q, "find-again") /\ UNCHANGED told
     \/ UNCHANGED swarm /\ Settle(q, "unavailable")
  /\ UNCHANGED <<machine, task, call, left, at, listed, saw>>

FindKeyAgain(q) ==
  /\ pc[q] = "find-again"
  /\ \/ \E s \in SameKey(q) : Replay(q, s)
     \/ SameKey(q) = {} /\ Settle(q, "SWARM_ID_TAKEN")
     \/ call[q].key # NoKey /\ Settle(q, "unavailable")
  /\ UNCHANGED <<swarm, machine, task, call, left, at, listed, saw>>
-----------------------------------------------------------------------------
(* launchMachine(): the swarm is read; the configuration, the row, the     *)
(* task and its ARN follow.                                                *)
FindSwarm(q) ==
  /\ pc[q] = "launch"
  /\ \/ \E s \in Owned(q) : \/ swarm[s].state = "active" /\ Goto(q, "config") /\ UNCHANGED told
                            \/ swarm[s].state # "active" /\ Settle(q, "SWARM_NOT_ACTIVE")
     \/ Owned(q) = {} /\ Settle(q, "SWARM_NOT_FOUND")
     \/ Settle(q, "unavailable")
  /\ UNCHANGED <<swarm, machine, task, call, left, at, listed, saw>>

LaunchConfig(q) ==
  /\ pc[q] = "config"
  /\ \/ Goto(q, "row") /\ UNCHANGED told
     \/ Settle(q, "MACHINE_LAUNCH_FAILED")
  /\ UNCHANGED <<swarm, machine, task, call, left, at, listed, saw>>

Row(q, m, row) == machine' = [machine EXCEPT ![m] = row]

CreateMachine(q) ==
  LET insert == Row(q, q, [Absent EXCEPT !.state = "launching"]) IN
  /\ pc[q] = "row"
  /\ \/ insert /\ Goto(q, "run") /\ UNCHANGED told
     \/ (insert \/ UNCHANGED machine) /\ Settle(q, "unavailable")
  /\ UNCHANGED <<swarm, task, call, left, at, listed, saw>>

RunTask(q) ==
  LET run == task' = [task EXCEPT ![q] = "running"] IN
  /\ pc[q] = "run"
  /\ \/ run /\ Goto(q, "record")
     \/ (run \/ UNCHANGED task) /\ Goto(q, "failed")
  /\ UNCHANGED <<swarm, machine, call, left, at, listed, saw, told>>

MarkRunning(q) ==
  LET update == Row(q, q, [state |-> "running", arn |-> TRUE]) IN
  /\ pc[q] = "record"
  /\ \/ update /\ Settle(q, "launched")
     \/ (update \/ UNCHANGED machine) /\ Goto(q, "failed") /\ UNCHANGED told
  /\ UNCHANGED <<swarm, task, call, left, at, listed, saw>>

MarkFailed(q) ==
  LET update == Row(q, q, [machine[q] EXCEPT !.state = "failed"]) IN
  /\ pc[q] = "failed"
  /\ \/ update /\ Settle(q, "MACHINE_LAUNCH_FAILED")
     \/ (update \/ UNCHANGED machine) /\ Settle(q, "unavailable")
  /\ UNCHANGED <<swarm, task, call, left, at, listed, saw>>
-----------------------------------------------------------------------------
(* stop(): the swarm is marked, its machines are listed and stopped one    *)
(* after the other; stopMachine() reads the one machine.                   *)
StopSwarm(q) ==
  /\ pc[q] = "stop"
  /\ \/ \E s \in Owned(q) :
          LET update == swarm' = [swarm EXCEPT ![s].state = IF @ = "active" THEN "stopping" ELSE @] IN
          \/ update /\ Goto(q, "list") /\ UNCHANGED told
          \/ (update \/ UNCHANGED swarm) /\ Settle(q, "unavailable")
     \/ Owned(q) = {} /\ Settle(q, "SWARM_NOT_FOUND") /\ UNCHANGED swarm
  /\ UNCHANGED <<machine, task, call, left, at, listed, saw>>

Read(q, ms) ==
  /\ left' = [left EXCEPT ![q] = ms] /\ listed' = [listed EXCEPT ![q] = ms]
  /\ saw' = [saw EXCEPT ![q] = {m \in ms : machine[m].arn}]

ListNonStopped(q) ==
  /\ pc[q] = "list"
  /\ \/ /\ Read(q, {m \in Launched(call[q].swarm) : machine[m].state # "stopped"})
        /\ Goto(q, "next") /\ UNCHANGED told
     \/ UNCHANGED <<left, listed, saw>> /\ Settle(q, "unavailable")
  /\ UNCHANGED <<swarm, machine, task, call, at>>

FindMachine(q) ==
  /\ pc[q] = "stop-machine"
  /\ \/ \E s \in Owned(q) : \E m \in Launched(s) :
          \/ machine[m].state # "stopped" /\ Read(q, {m}) /\ Goto(q, "next") /\ UNCHANGED told
          \/ machine[m].state = "stopped" /\ UNCHANGED <<left, listed, saw>> /\ Settle(q, "stopped")
     \/ UNCHANGED <<left, listed, saw>> /\ (Settle(q, "MACHINE_NOT_FOUND") \/ Settle(q, "unavailable"))
  /\ UNCHANGED <<swarm, machine, task, call, at>>

(* stopOne(): the machine's row, its head, its task, its row again.        *)
Stopping(row) ==
  IF row.state \in {"stopping", "stopped"} THEN row ELSE [row EXCEPT !.state = "stopping"]

StopOne(q) ==
  /\ pc[q] = "next"
  /\ \E m \in left[q] :
       /\ left' = [left EXCEPT ![q] = @ \ {m}]
       /\ at' = [at EXCEPT ![q] = m]
       /\ \/ Row(q, m, Stopping(machine[m])) /\ Goto(q, "head") /\ UNCHANGED told
          \/ (Row(q, m, Stopping(machine[m])) \/ UNCHANGED machine) /\ Settle(q, "STOP_FAILED")
  /\ UNCHANGED <<swarm, task, call, listed, saw>>

(* The head is asked to stop; whether it hears of it is not looked at.     *)
TellHead(q) ==
  /\ pc[q] = "head"
  /\ \/ Goto(q, IF at[q] \in saw[q] THEN "task" ELSE "stopped-row") /\ UNCHANGED told
     \/ Settle(q, "STOP_FAILED")
  /\ UNCHANGED <<swarm, machine, task, call, left, at, listed, saw>>

(* Slip: a failure of AWS is passed over.                                  *)
StopTaskOrNot(q) ==
  /\ pc[q] = "task"
  /\ task' = [task EXCEPT ![at[q]] = "stopped"] \/ UNCHANGED task
  /\ Goto(q, "stopped-row") /\ UNCHANGED told
  /\ UNCHANGED <<swarm, machine, call, left, at, listed, saw>>

StopTask(q) ==
  LET stop == task' = [task EXCEPT ![at[q]] = "stopped"] IN
  /\ pc[q] = "task"
  /\ \/ stop /\ Goto(q, "stopped-row") /\ UNCHANGED told
     \/ (stop \/ UNCHANGED task) /\ Settle(q, "STOP_FAILED")
  /\ UNCHANGED <<swarm, machine, call, left, at, listed, saw>>

MarkStopped(q) ==
  LET update == Row(q, at[q], [machine[at[q]] EXCEPT !.state = "stopped"]) IN
  /\ pc[q] = "stopped-row"
  /\ \/ update /\ Goto(q, "next") /\ UNCHANGED told
     \/ (update \/ UNCHANGED machine) /\ Settle(q, "STOP_FAILED")
  /\ UNCHANGED <<swarm, task, call, left, at, listed, saw>>

(* The last machine is stopped.                                            *)
AllStopped(q) ==
  LET s == call[q].swarm
      update == swarm' = [swarm EXCEPT ![s].state = "stopped"] IN
  /\ pc[q] = "next" /\ left[q] = {}
  /\ \/ call[q].op = "stop" /\ update /\ (Settle(q, "stopped") \/ Settle(q, "unavailable"))
     \/ call[q].op = "stop" /\ UNCHANGED swarm /\ Settle(q, "unavailable")
     \/ call[q].op = "stop-machine" /\ UNCHANGED swarm /\ Settle(q, "stopped")
  /\ UNCHANGED <<machine, task, call, left, at, listed, saw>>

(* A task ends by itself, or because its head was told to stop.            *)
TaskEnds(m) ==
  /\ task[m] = "running"
  /\ task' = [task EXCEPT ![m] = "stopped"]
  /\ UNCHANGED <<swarm, machine, call, pc, left, at, listed, saw, told>>
-----------------------------------------------------------------------------
Create(q) == FindKey(q) \/ CreateSwarm(q) \/ FindKeyAgain(q)

LaunchMachine(q) ==
  FindSwarm(q) \/ LaunchConfig(q) \/ CreateMachine(q) \/ RunTask(q) \/ MarkRunning(q) \/ MarkFailed(q)

Stop(q) ==
  \/ StopSwarm(q) \/ ListNonStopped(q) \/ FindMachine(q)
  \/ StopOne(q) \/ TellHead(q) \/ StopTask(q) \/ MarkStopped(q) \/ AllStopped(q)

Next == \E q \in Requests : Request(q) \/ Create(q) \/ LaunchMachine(q) \/ Stop(q) \/ TaskEnds(q)

Spec == Init /\ [][Next]_vars
-----------------------------------------------------------------------------
Labels ==
  {"idle", "find", "insert", "find-again", "launch", "config", "row", "run", "record", "failed",
   "stop", "list", "stop-machine", "next", "head", "task", "stopped-row", "done"}
Outcomes ==
  {"none", "created", "replayed", "IDEMPOTENCY_CONFLICT", "SWARM_ID_TAKEN", "SWARM_NOT_ACTIVE",
   "SWARM_NOT_FOUND", "launched", "MACHINE_LAUNCH_FAILED", "MACHINE_NOT_FOUND", "stopped",
   "STOP_FAILED", "unavailable"}

TypeOK ==
  /\ swarm \in [SwarmIds -> [state: {"none", "active", "stopping", "stopped"}, owner: Owners \cup {Nobody},
                             key: Keys \cup {NoKey}, asked: ClientIds \cup {Generated}]]
  /\ machine \in [Requests -> [state: {"none", "launching", "running", "stopping", "stopped", "failed"},
                               arn: BOOLEAN]]
  /\ task \in [Requests -> {"none", "running", "stopped"}]
  /\ call \in Loads
  /\ pc \in [Requests -> Labels] /\ answer \in [Requests -> Outcomes]
  /\ {left, listed, saw} \subseteq [Requests -> SUBSET Requests]
  /\ at \in [Requests -> Requests \cup {NoRequest}]
  /\ named \in [Requests -> SwarmIds \cup {NoRequest}]

(* Two creates of one owner with one idempotency key, whatever else their  *)
(* bodies say.                                                             *)
SharesKey(p, q) ==
  /\ NoCall \notin {call[p], call[q]}
  /\ call[p].op = "create" /\ call[q].op = "create"
  /\ call[p].owner = call[q].owner
  /\ call[p].key = call[q].key /\ call[p].key # NoKey

Succeeded(q) == answer[q] \in {"created", "replayed"}

(* Creates that share an owner and an idempotency key are told of one      *)
(* swarm, which one of them at most has created; and if two ask for the    *)
(* same and one of them succeeds, the other is not told that it conflicts, *)
(* although each may run between the look-up and the insertion of another  *)
(* (create()).                                                             *)
CreateIsIdempotent ==
  \A p, q \in Requests : p # q /\ SharesKey(p, q) =>
    /\ Succeeded(p) /\ Succeeded(q) => named[p] = named[q]
    /\ ~(answer[p] = "created" /\ answer[q] = "created")
    /\ call[p] = call[q] /\ Succeeded(p) => Succeeded(q) \/ answer[q] \in {"none", "unavailable"}

(* A task that runs on although its machine's row says "stopped" was       *)
(* missed by a stop that read the row when the task was not recorded in it *)
(* (yet, or because the launch had failed). Stops that overlap, fail       *)
(* half-way and are repeated lose no other task (stopOne(),                *)
(* launchMachine()).                                                       *)
NoOrphans ==
  \A m \in Requests :
    machine[m].state = "stopped" /\ task[m] = "running" =>
      \E q \in Requests : m \in listed[q] \ saw[q]
=============================================================================
