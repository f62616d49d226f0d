------------------------ MODULE SwarmLifecycle_proofs ------------------------
(* Theorems about SwarmLifecycle, for every value of its constants.        *)
EXTENDS SwarmLifecycle, TLAPS

(* A request is at a step of what it asks for, and is answered by the last.*)
Located ==
  \A q \in Requests :
    /\ pc[q] # "idle" => call[q] # NoCall
    /\ pc[q] \in {"find", "insert", "find-again"} => call[q].op = "create"
    /\ pc[q] \in {"launch", "config", "row", "run", "record", "failed"} => call[q].op = "launch"
    /\ pc[q] \in {"stop", "list"} => call[q].op = "stop"
    /\ pc[q] = "stop-machine" => call[q].op = "stop-machine"
    /\ pc[q] \in {"next", "head", "task", "stopped-row"} => call[q].op \in {"stop", "stop-machine"}
    /\ answer[q] # "none" => pc[q] = "done"
    /\ pc[q] = "done" /\ call[q].op = "create" =>
         answer[q] \in {"created", "replayed", "IDEMPOTENCY_CONFLICT", "SWARM_ID_TAKEN", "unavailable"}
    /\ answer[q] \in {"created", "replayed", "IDEMPOTENCY_CONFLICT", "SWARM_ID_TAKEN"} =>
         call[q].op = "create"

(* A swarm has an owner, an id that was asked for or generated, and a key  *)
(* that its owner has used for no other.                                   *)
Held(s) == swarm[s].owner # Nobody

SwarmInv ==
  /\ \A s \in SwarmIds : swarm[s] # NoSwarm => Held(s)
  /\ \A s \in SwarmIds : Held(s) =>
       s = swarm[s].asked \/ (swarm[s].asked = Generated /\ s \in Requests /\ pc[s] = "done")
  /\ \A s, t \in SwarmIds :
       /\ Held(s) /\ Held(t) /\ swarm[s].key # NoKey
       /\ swarm[s].key = swarm[t].key /\ swarm[s].owner = swarm[t].owner
       => s = t
  /\ \A q \in Requests : pc[q] \in {"list", "next", "head", "task", "stopped-row"} /\ call[q].op = "stop" =>
       call[q].swarm \in SwarmIds /\ Held(call[q].swarm)

Shape == TypeOK /\ Located /\ SwarmInv
-----------------------------------------------------------------------------
(* What a create with a key was told, or will be, is true of the rows.     *)
KeyOf(q, s) == s \in SwarmIds /\ Held(s) /\ swarm[s].key = call[q].key /\ swarm[s].owner = call[q].owner

TakenByOther(q) ==
  LET s == call[q].swarm IN s \in ClientIds /\ Held(s) /\ ~KeyOf(q, s)

CreateInv ==
  \A q \in Requests : call[q] # NoCall /\ call[q].op = "create" /\ call[q].key # NoKey =>
    /\ answer[q] \in {"created", "replayed"} => KeyOf(q, named[q]) /\ swarm[named[q]].asked = call[q].swarm
    /\ answer[q] = "IDEMPOTENCY_CONFLICT" =>
         \E s \in SwarmIds : KeyOf(q, s) /\ swarm[s].asked # call[q].swarm
    /\ answer[q] = "SWARM_ID_TAKEN" => TakenByOther(q)
    /\ pc[q] = "find-again" => TakenByOther(q) \/ \E s \in SwarmIds : KeyOf(q, s)

CreatedOnce ==
  \A p, q \in Requests :
    p # q /\ SharesKey(p, q) /\ answer[p] = "created" => answer[q] # "created"

(* A machine is launched by its request; its row names its task once the   *)
(* request has recorded it.                                                *)
MachineInv ==
  \A m \in Requests :
    /\ machine[m].state # "none" => pc[m] \in {"run", "record", "failed", "done"}
    /\ machine[m].arn => pc[m] \in {"failed", "done"}

(* What a stop has read, and what it has done to the machine it is at.     *)
StopInv ==
  \A q \in Requests :
    /\ pc[q] \in {"idle", "stop", "list", "stop-machine"} => listed[q] = {}
    /\ left[q] \subseteq listed[q]
    /\ \A m \in listed[q] : machine[m].state # "none"
    /\ \A m \in saw[q] : m \in listed[q] /\ machine[m].arn
    /\ pc[q] \in {"head", "task", "stopped-row"} => at[q] \in listed[q]
    /\ pc[q] = "task" => at[q] \in saw[q]
    /\ pc[q] = "stopped-row" /\ at[q] \in saw[q] => task[at[q]] = "stopped"

Missed(m) == \E q \in Requests : m \in listed[q] \ saw[q]

StoppedInv ==
  \A m \in Requests :
    machine[m].state = "stopped" => Missed(m) \/ (machine[m].arn /\ task[m] = "stopped")

IInv == Shape /\ CreateInv /\ CreatedOnce /\ MachineInv /\ StopInv /\ StoppedInv
-----------------------------------------------------------------------------
LEMMA Constants ==
  /\ Requests \subseteq SwarmIds /\ ClientIds \subseteq SwarmIds /\ NoRequest \notin Requests
  /\ ClientIds \cap Requests = {} /\ Generated \notin SwarmIds /\ Nobody \notin Owners /\ NoKey \notin Keys
BY LifecycleAssumption DEF LifecycleAssumption, SwarmIds, Requests, NoRequest

(* What a request asks for.                                                *)
LEMMA CallType ==
  ASSUME TypeOK, NEW q \in Requests, call[q] # NoCall
  PROVE  /\ call[q].op \in {"create", "launch", "stop", "stop-machine"}
         /\ call[q].owner \in Owners /\ call[q].key \in Keys \cup {NoKey}
         /\ call[q].swarm \in ClientIds \cup {Generated}
<1>1. call[q] \in CallRecords
  BY LifecycleAssumption DEF LifecycleAssumption, TypeOK
<1>2. QED
  BY <1>1 DEF CallRecords

(* A request goes on to a step, or is told an outcome.                     *)
Goes(q, labels, outcomes) ==
  /\ \A p \in Requests \ {q} : pc'[p] = pc[p] /\ answer'[p] = answer[p] /\ named'[p] = named[p]
  /\ \/ pc'[q] \in labels /\ answer'[q] = answer[q] /\ named'[q] = named[q]
     \/ pc'[q] = "done" /\ answer'[q] \in outcomes

LEMMA Going ==
  ASSUME TypeOK, NEW q \in Requests
  PROVE  /\ Request(q) =>
              /\ pc[q] = "idle" /\ call[q] # NoCall
              /\ \/ call[q].op = "create" /\ Goes(q, {"find", "insert"}, {})
                 \/ call[q].op # "create" /\ Goes(q, {call[q].op}, {})
         /\ FindKey(q) => Goes(q, {"insert"}, {"replayed", "IDEMPOTENCY_CONFLICT", "unavailable"})
         /\ FindKeyAgain(q) =>
              Goes(q, {}, {"replayed", "IDEMPOTENCY_CONFLICT", "SWARM_ID_TAKEN", "unavailable"})
         /\ FindMachine(q) => Goes(q, {"next"}, {"stopped", "MACHINE_NOT_FOUND", "unavailable"})
         /\ StopOne(q) => Goes(q, {"head"}, {"STOP_FAILED"})
         /\ ListNonStopped(q) => Goes(q, {"next"}, {"unavailable"})
         /\ MarkStopped(q) => Goes(q, {"next"}, {"STOP_FAILED"})
<1> USE DEF TypeOK, Goes, Goto, told
<1>1. \A o : Settle(q, o) => Goes(q, {}, {o})
  BY DEF Settle
<1>2. \A o, s : Name(q, o, s) => Goes(q, {}, {o})
  BY DEF Name
<1>3. \A s : Replay(q, s) => Goes(q, {}, {"replayed", "IDEMPOTENCY_CONFLICT"})
  BY <1>1, <1>2 DEF Replay
<1>4. Request(q) => /\ pc[q] = "idle" /\ call[q] # NoCall
                    /\ \/ call[q].op = "create" /\ Goes(q, {"find", "insert"}, {})
                       \/ call[q].op # "create" /\ Goes(q, {call[q].op}, {})
  BY DEF Request
<1>5. FindKey(q) => Goes(q, {"insert"}, {"replayed", "IDEMPOTENCY_CONFLICT", "unavailable"})
  BY <1>1, <1>3 DEF FindKey
<1>6. FindKeyAgain(q) =>
        Goes(q, {}, {"replayed", "IDEMPOTENCY_CONFLICT", "SWARM_ID_TAKEN", "unavailable"})
  BY <1>1, <1>3 DEF FindKeyAgain
<1>7. FindMachine(q) => Goes(q, {"next"}, {"stopped", "MACHINE_NOT_FOUND", "unavailable"})
  BY <1>1 DEF FindMachine
<1>8. StopOne(q) => Goes(q, {"head"}, {"STOP_FAILED"})
  BY <1>1 DEF StopOne
<1>9. ListNonStopped(q) => Goes(q, {"next"}, {"unavailable"})
  BY <1>1 DEF ListNonStopped
<1>10. MarkStopped(q) => Goes(q, {"next"}, {"STOP_FAILED"})
  BY <1>1 DEF MarkStopped
<1>11. QED
  BY <1>4, <1>5, <1>6, <1>7, <1>8, <1>9, <1>10

(* What a step may do to a request p: it comes to a step from the one      *)
(* before, and is told something once, by the last.                        *)
Comes(p) ==
  /\ pc[p] = "done" => pc'[p] = "done"
  /\ pc'[p] = "idle" => pc[p] = "idle"
  /\ pc'[p] # "idle" => pc[p] # "idle" \/ Request(p)
  /\ pc'[p] = "insert" => pc[p] = "insert" \/ Request(p) \/ FindKey(p)
  /\ pc'[p] = "find-again" => pc[p] = "find-again" \/ CreateSwarm(p)
  /\ pc'[p] = "record" => pc[p] = "record" \/ RunTask(p)
  /\ pc[p] = "run" => pc'[p] \in {"run", "record", "failed"}
  /\ pc[p] = "record" => pc'[p] \in {"record", "failed", "done"}
  /\ pc[p] = "failed" => pc'[p] \in {"failed", "done"}
  /\ pc'[p] \in {"stop", "stop-machine"} => pc'[p] = pc[p] \/ Request(p)
  /\ pc'[p] = "list" => pc[p] = "list" \/ StopSwarm(p)
  /\ pc'[p] = "head" => pc[p] = "head" \/ StopOne(p)
  /\ pc'[p] = "task" => pc[p] = "task" \/ TellHead(p)
  /\ pc'[p] = "stopped-row" => pc[p] = "stopped-row" \/ TellHead(p) \/ StopTask(p)
  /\ pc'[p] = "next" => pc[p] = "next" \/ ListNonStopped(p) \/ FindMachine(p) \/ MarkStopped(p)

Settles(p) ==
  /\ pc[p] = "done" => answer'[p] = answer[p] /\ named'[p] = named[p]
  /\ answer'[p] = "created" => answer[p] = "created" \/ CreateSwarm(p)
  /\ answer'[p] \in {"replayed", "IDEMPOTENCY_CONFLICT"} =>
       answer'[p] = answer[p] \/ FindKey(p) \/ FindKeyAgain(p)
  /\ answer'[p] = "SWARM_ID_TAKEN" => answer[p] = "SWARM_ID_TAKEN" \/ FindKeyAgain(p)

LEMMA ComesStep ==
  ASSUME TypeOK, [Next]_vars, NEW p \in Requests
  PROVE  Comes(p)
<1> USE DEF TypeOK, Comes, Goto, Settle, Name, told, Replay
<1>1. CASE UNCHANGED vars
  BY <1>1 DEF vars
<1>2. ASSUME NEW q \in Requests, Request(q)
      PROVE  Comes(p)
  <2>1. /\ pc[q] = "idle" /\ call[q] # NoCall
        /\ \/ call[q].op = "create" /\ Goes(q, {"find", "insert"}, {})
           \/ call[q].op # "create" /\ Goes(q, {call[q].op}, {})
    BY <1>2, Going DEF Request
  <2>2. QED
    BY <1>2, <2>1, CallType DEF Goes
<1>3. ASSUME NEW q \in Requests, FindKey(q)
      PROVE  Comes(p)
  <2>1. pc[q] = "find" /\ Goes(q, {"insert"}, {"replayed", "IDEMPOTENCY_CONFLICT", "unavailable"})
    BY <1>3, Going DEF FindKey
  <2>2. QED
    BY <1>3, <2>1 DEF Goes
<1>4. ASSUME NEW q \in Requests, CreateSwarm(q)
      PROVE  Comes(p)
  BY <1>4 DEF CreateSwarm
<1>5. ASSUME NEW q \in Requests, FindKeyAgain(q)
      PROVE  Comes(p)
  <2>1. /\ pc[q] = "find-again"
        /\ Goes(q, {}, {"replayed", "IDEMPOTENCY_CONFLICT", "SWARM_ID_TAKEN", "unavailable"})
    BY <1>5, Going DEF FindKeyAgain
  <2>2. QED
    BY <1>5, <2>1 DEF Goes
<1>6. ASSUME NEW q \in Requests, FindSwarm(q)
      PROVE  Comes(p)
  BY <1>6 DEF FindSwarm
<1>7. ASSUME NEW q \in Requests, LaunchConfig(q)
      PROVE  Comes(p)
  BY <1>7 DEF LaunchConfig
<1>8. ASSUME NEW q \in Requests, CreateMachine(q)
      PROVE  Comes(p)
  BY <1>8 DEF CreateMachine
<1>9. ASSUME NEW q \in Requests, RunTask(q)
      PROVE  Comes(p)
  BY <1>9 DEF RunTask
<1>10. ASSUME NEW q \in Requests, MarkRunning(q)
      PROVE  Comes(p)
  BY <1>10 DEF MarkRunning
<1>11. ASSUME NEW q \in Requests, MarkFailed(q)
      PROVE  Comes(p)
  BY <1>11 DEF MarkFailed
<1>12. ASSUME NEW q \in Requests, StopSwarm(q)
      PROVE  Comes(p)
  BY <1>12 DEF StopSwarm
<1>13. ASSUME NEW q \in Requests, ListNonStopped(q)
      PROVE  Comes(p)
  <2>1. pc[q] = "list" /\ Goes(q, {"next"}, {"unavailable"})
    BY <1>13, Going DEF ListNonStopped
  <2>2. QED
    BY <1>13, <2>1 DEF Goes
<1>14. ASSUME NEW q \in Requests, FindMachine(q)
      PROVE  Comes(p)
  <2>1. pc[q] = "stop-machine" /\ Goes(q, {"next"}, {"stopped", "MACHINE_NOT_FOUND", "unavailable"})
    BY <1>14, Going DEF FindMachine
  <2>2. QED
    BY <1>14, <2>1 DEF Goes
<1>15. ASSUME NEW q \in Requests, StopOne(q)
      PROVE  Comes(p)
  <2>1. pc[q] = "next" /\ Goes(q, {"head"}, {"STOP_FAILED"})
    BY <1>15, Going DEF StopOne
  <2>2. QED
    BY <1>15, <2>1 DEF Goes
<1>16. ASSUME NEW q \in Requests, TellHead(q)
      PROVE  Comes(p)
  BY <1>16 DEF TellHead
<1>17. ASSUME NEW q \in Requests, StopTask(q)
      PROVE  Comes(p)
  BY <1>17 DEF StopTask
<1>18. ASSUME NEW q \in Requests, MarkStopped(q)
      PROVE  Comes(p)
  <2>1. pc[q] = "stopped-row" /\ Goes(q, {"next"}, {"STOP_FAILED"})
    BY <1>18, Going DEF MarkStopped
  <2>2. QED
    BY <1>18, <2>1 DEF Goes
<1>19. ASSUME NEW q \in Requests, AllStopped(q)
      PROVE  Comes(p)
  BY <1>19 DEF AllStopped
<1>20. ASSUME NEW q \in Requests, TaskEnds(q)
      PROVE  Comes(p)
  BY <1>20 DEF TaskEnds
<1>21. QED
  BY <1>1, <1>2, <1>3, <1>4, <1>5, <1>6, <1>7, <1>8, <1>9, <1>10, <1>11, <1>12, <1>13, <1>14, <1>15, <1>16, <1>17, <1>18, <1>19, <1>20 DEF Next, Create, LaunchMachine, Stop

LEMMA SettlesStep ==
  ASSUME TypeOK, Located, [Next]_vars, NEW p \in Requests
  PROVE  Settles(p)
<1> USE DEF TypeOK, Located, Settles, Goto, Settle, Name, told, Replay
<1>1. CASE UNCHANGED vars
  BY <1>1 DEF vars
<1>2. ASSUME NEW q \in Requests, Request(q)
      PROVE  Settles(p)
  <2>1. /\ pc[q] = "idle" /\ call[q] # NoCall
        /\ \/ call[q].op = "create" /\ Goes(q, {"find", "insert"}, {})
           \/ call[q].op # "create" /\ Goes(q, {call[q].op}, {})
    BY <1>2, Going DEF Request
  <2>2. QED
    BY <1>2, <2>1 DEF Goes
<1>3. ASSUME NEW q \in Requests, FindKey(q)
      PROVE  Settles(p)
  <2>1. pc[q] = "find" /\ Goes(q, {"insert"}, {"replayed", "IDEMPOTENCY_CONFLICT", "unavailable"})
    BY <1>3, Going DEF FindKey
  <2>2. QED
    BY <1>3, <2>1 DEF Goes
<1>4. ASSUME NEW q \in Requests, CreateSwarm(q)
      PROVE  Settles(p)
  BY <1>4 DEF CreateSwarm
<1>5. ASSUME NEW q \in Requests, FindKeyAgain(q)
      PROVE  Settles(p)
  <2>1. /\ pc[q] = "find-again"
        /\ Goes(q, {}, {"replayed", "IDEMPOTENCY_CONFLICT", "SWARM_ID_TAKEN", "unavailable"})
    BY <1>5, Going DEF FindKeyAgain
  <2>2. QED
    BY <1>5, <2>1 DEF Goes
<1>6. ASSUME NEW q \in Requests, FindSwarm(q)
      PROVE  Settles(p)
  BY <1>6 DEF FindSwarm
<1>7. ASSUME NEW q \in Requests, LaunchConfig(q)
      PROVE  Settles(p)
  BY <1>7 DEF LaunchConfig
<1>8. ASSUME NEW q \in Requests, CreateMachine(q)
      PROVE  Settles(p)
  BY <1>8 DEF CreateMachine
<1>9. ASSUME NEW q \in Requests, RunTask(q)
      PROVE  Settles(p)
  BY <1>9 DEF RunTask
<1>10. ASSUME NEW q \in Requests, MarkRunning(q)
      PROVE  Settles(p)
  BY <1>10 DEF MarkRunning
<1>11. ASSUME NEW q \in Requests, MarkFailed(q)
      PROVE  Settles(p)
  BY <1>11 DEF MarkFailed
<1>12. ASSUME NEW q \in Requests, StopSwarm(q)
      PROVE  Settles(p)
  BY <1>12 DEF StopSwarm
<1>13. ASSUME NEW q \in Requests, ListNonStopped(q)
      PROVE  Settles(p)
  <2>1. pc[q] = "list" /\ Goes(q, {"next"}, {"unavailable"})
    BY <1>13, Going DEF ListNonStopped
  <2>2. QED
    BY <1>13, <2>1 DEF Goes
<1>14. ASSUME NEW q \in Requests, FindMachine(q)
      PROVE  Settles(p)
  <2>1. pc[q] = "stop-machine" /\ Goes(q, {"next"}, {"stopped", "MACHINE_NOT_FOUND", "unavailable"})
    BY <1>14, Going DEF FindMachine
  <2>2. QED
    BY <1>14, <2>1 DEF Goes
<1>15. ASSUME NEW q \in Requests, StopOne(q)
      PROVE  Settles(p)
  <2>1. pc[q] = "next" /\ Goes(q, {"head"}, {"STOP_FAILED"})
    BY <1>15, Going DEF StopOne
  <2>2. QED
    BY <1>15, <2>1 DEF Goes
<1>16. ASSUME NEW q \in Requests, TellHead(q)
      PROVE  Settles(p)
  BY <1>16 DEF TellHead
<1>17. ASSUME NEW q \in Requests, StopTask(q)
      PROVE  Settles(p)
  BY <1>17 DEF StopTask
<1>18. ASSUME NEW q \in Requests, MarkStopped(q)
      PROVE  Settles(p)
  <2>1. pc[q] = "stopped-row" /\ Goes(q, {"next"}, {"STOP_FAILED"})
    BY <1>18, Going DEF MarkStopped
  <2>2. QED
    BY <1>18, <2>1 DEF Goes
<1>19. ASSUME NEW q \in Requests, AllStopped(q)
      PROVE  Settles(p)
  BY <1>19 DEF AllStopped
<1>20. ASSUME NEW q \in Requests, TaskEnds(q)
      PROVE  Settles(p)
  BY <1>20 DEF TaskEnds
<1>21. QED
  BY <1>1, <1>2, <1>3, <1>4, <1>5, <1>6, <1>7, <1>8, <1>9, <1>10, <1>11, <1>12, <1>13, <1>14, <1>15, <1>16, <1>17, <1>18, <1>19, <1>20 DEF Next, Create, LaunchMachine, Stop

LEMMA LocatedStep ==
  ASSUME TypeOK, Located, [Next]_vars
  PROVE  Located'
<1> USE CallType DEF TypeOK, Located, Goto, Settle, Name, told, Replay
<1>1. CASE UNCHANGED vars
  BY <1>1 DEF vars
<1>2. ASSUME NEW q \in Requests, Request(q)
      PROVE  Located'
  <2>1. /\ pc[q] = "idle" /\ call[q] # NoCall
        /\ \/ call[q].op = "create" /\ Goes(q, {"find", "insert"}, {})
           \/ call[q].op # "create" /\ Goes(q, {call[q].op}, {})
    BY <1>2, Going DEF Request
  <2>2. call' = call
    BY <1>2 DEF Request
  <2>3. QED
    BY <2>1, <2>2 DEF Goes
<1>3. ASSUME NEW q \in Requests, FindKey(q)
      PROVE  Located'
  <2>1. pc[q] = "find" /\ Goes(q, {"insert"}, {"replayed", "IDEMPOTENCY_CONFLICT", "unavailable"})
    BY <1>3, Going DEF FindKey
  <2>2. call' = call
    BY <1>3 DEF FindKey
  <2>3. QED
    BY <2>1, <2>2 DEF Goes
<1>4. ASSUME NEW q \in Requests, CreateSwarm(q)
      PROVE  Located'
  BY <1>4 DEF CreateSwarm
<1>5. ASSUME NEW q \in Requests, FindKeyAgain(q)
      PROVE  Located'
  <2>1. /\ pc[q] = "find-again"
        /\ Goes(q, {}, {"replayed", "IDEMPOTENCY_CONFLICT", "SWARM_ID_TAKEN", "unavailable"})
    BY <1>5, Going DEF FindKeyAgain
  <2>2. call' = call
    BY <1>5 DEF FindKeyAgain
  <2>3. QED
    BY <2>1, <2>2 DEF Goes
<1>6. ASSUME NEW q \in Requests, FindSwarm(q)
      PROVE  Located'
  BY <1>6 DEF FindSwarm
<1>7. ASSUME NEW q \in Requests, LaunchConfig(q)
      PROVE  Located'
  BY <1>7 DEF LaunchConfig
<1>8. ASSUME NEW q \in Requests, CreateMachine(q)
      PROVE  Located'
  BY <1>8 DEF CreateMachine
<1>9. ASSUME NEW q \in Requests, RunTask(q)
      PROVE  Located'
  BY <1>9 DEF RunTask
<1>10. ASSUME NEW q \in Requests, MarkRunning(q)
      PROVE  Located'
  BY <1>10 DEF MarkRunning
<1>11. ASSUME NEW q \in Requests, MarkFailed(q)
      PROVE  Located'
  BY <1>11 DEF MarkFailed
<1>12. ASSUME NEW q \in Requests, StopSwarm(q)
      PROVE  Located'
  BY <1>12 DEF StopSwarm
<1>13. ASSUME NEW q \in Requests, ListNonStopped(q)
      PROVE  Located'
  BY <1>13 DEF ListNonStopped
<1>14. ASSUME NEW q \in Requests, FindMachine(q)
      PROVE  Located'
  <2>1. pc[q] = "stop-machine" /\ Goes(q, {"next"}, {"stopped", "MACHINE_NOT_FOUND", "unavailable"})
    BY <1>14, Going DEF FindMachine
  <2>2. call' = call
    BY <1>14 DEF FindMachine
  <2>3. QED
    BY <2>1, <2>2 DEF Goes
<1>15. ASSUME NEW q \in Requests, StopOne(q)
      PROVE  Located'
  <2>1. pc[q] = "next" /\ Goes(q, {"head"}, {"STOP_FAILED"})
    BY <1>15, Going DEF StopOne
  <2>2. call' = call
    BY <1>15 DEF StopOne
  <2>3. QED
    BY <2>1, <2>2 DEF Goes
<1>16. ASSUME NEW q \in Requests, TellHead(q)
      PROVE  Located'
  BY <1>16 DEF TellHead
<1>17. ASSUME NEW q \in Requests, StopTask(q)
      PROVE  Located'
  BY <1>17 DEF StopTask
<1>18. ASSUME NEW q \in Requests, MarkStopped(q)
      PROVE  Located'
  BY <1>18 DEF MarkStopped
<1>19. ASSUME NEW q \in Requests, AllStopped(q)
      PROVE  Located'
  BY <1>19 DEF AllStopped
<1>20. ASSUME NEW q \in Requests, TaskEnds(q)
      PROVE  Located'
  BY <1>20 DEF TaskEnds
<1>21. QED
  BY <1>1, <1>2, <1>3, <1>4, <1>5, <1>6, <1>7, <1>8, <1>9, <1>10, <1>11, <1>12, <1>13, <1>14, <1>15, <1>16, <1>17, <1>18, <1>19, <1>20 DEF Next, Create, LaunchMachine, Stop

-----------------------------------------------------------------------------
(* Who changes what: the other actions leave it alone.                     *)
LEMMA Frames ==
  ASSUME [Next]_vars
  PROVE  /\ call' = call
         /\ swarm' = swarm \/ \E q \in Requests : CreateSwarm(q) \/ StopSwarm(q) \/ AllStopped(q)
         /\ \/ machine' = machine
            \/ \E q \in Requests : \/ CreateMachine(q) \/ MarkRunning(q) \/ MarkFailed(q)
                                   \/ StopOne(q) \/ MarkStopped(q)
         /\ task' = task \/ \E q \in Requests : RunTask(q) \/ StopTask(q) \/ TaskEnds(q)
         /\ \/ UNCHANGED <<listed, saw>>
            \/ \E q \in Requests : ListNonStopped(q) \/ FindMachine(q)
         /\ left' = left \/ \E q \in Requests : ListNonStopped(q) \/ FindMachine(q) \/ StopOne(q)
         /\ at' = at \/ \E q \in Requests : StopOne(q)
<1>1. ASSUME NEW q \in Requests, Request(q) \/ Create(q)
      PROVE  /\ UNCHANGED <<call, machine, task, left, at, listed, saw>>
             /\ swarm' = swarm \/ CreateSwarm(q)
  BY <1>1 DEF Request, Create, FindKey, CreateSwarm, FindKeyAgain
<1>2. ASSUME NEW q \in Requests, LaunchMachine(q)
      PROVE  /\ UNCHANGED <<call, swarm, left, at, listed, saw>>
             /\ machine' = machine \/ CreateMachine(q) \/ MarkRunning(q) \/ MarkFailed(q)
             /\ task' = task \/ RunTask(q)
  BY <1>2 DEF LaunchMachine, FindSwarm, LaunchConfig, CreateMachine, RunTask, MarkRunning, MarkFailed
<1>3. ASSUME NEW q \in Requests, Stop(q)
      PROVE  /\ call' = call /\ (swarm' = swarm \/ StopSwarm(q) \/ AllStopped(q))
             /\ machine' = machine \/ StopOne(q) \/ MarkStopped(q)
             /\ task' = task \/ StopTask(q)
             /\ UNCHANGED <<listed, saw>> \/ ListNonStopped(q) \/ FindMachine(q)
             /\ left' = left \/ ListNonStopped(q) \/ FindMachine(q) \/ StopOne(q)
             /\ at' = at \/ StopOne(q)
  BY <1>3 DEF Stop, StopSwarm, ListNonStopped, FindMachine, StopOne, TellHead, StopTask, MarkStopped, AllStopped
<1>4. ASSUME NEW q \in Requests, TaskEnds(q)
      PROVE  UNCHANGED <<call, swarm, machine, left, at, listed, saw>>
  BY <1>4 DEF TaskEnds
<1>5. CASE UNCHANGED vars
  BY <1>5 DEF vars
<1>6. QED
  BY <1>1, <1>2, <1>3, <1>4, <1>5 DEF Next

(* A swarm is created with what was asked for; later only its state        *)
(* changes.                                                                *)
Made(q, s) ==
  /\ CreateSwarm(q) /\ pc[q] = "insert" /\ pc'[q] = "done"
  /\ s = (IF call[q].swarm = Generated THEN q ELSE call[q].swarm)
  /\ swarm[s] = NoSwarm /\ SameKey(q) = {}
  /\ swarm'[s] = [state |-> "active", owner |-> call[q].owner, key |-> call[q].key, asked |-> call[q].swarm]

SwarmRows == [state: {"none", "active", "stopping", "stopped"}, owner: Owners \cup {Nobody},
              key: Keys \cup {NoKey}, asked: ClientIds \cup {Generated}]

LEMMA SwarmEffects ==
  ASSUME Shape, [Next]_vars
  PROVE  /\ swarm' \in [SwarmIds -> SwarmRows]
         /\ \/ swarm' = swarm
            \/ \E s \in SwarmIds :
                 /\ \A t \in SwarmIds \ {s} : swarm'[t] = swarm[t]
                 /\ \/ /\ Held(s) /\ swarm'[s].owner = swarm[s].owner
                       /\ swarm'[s].key = swarm[s].key /\ swarm'[s].asked = swarm[s].asked
                    \/ \E q \in Requests : Made(q, s)
<1> USE Constants
<1>1. swarm \in [SwarmIds -> SwarmRows]
  BY DEF Shape, TypeOK, SwarmRows
<1>3. ASSUME NEW q \in Requests, CreateSwarm(q), swarm' # swarm
      PROVE  /\ swarm' \in [SwarmIds -> SwarmRows]
             /\ \E s \in SwarmIds : Made(q, s) /\ \A t \in SwarmIds \ {s} : swarm'[t] = swarm[t]
  <2> DEFINE s == IF call[q].swarm = Generated THEN q ELSE call[q].swarm
             row == [state |-> "active", owner |-> call[q].owner, key |-> call[q].key, asked |-> call[q].swarm]
  <2>1. call[q] # NoCall /\ pc[q] = "insert"
    BY <1>3 DEF CreateSwarm, Shape, Located
  <2>2. s \in SwarmIds /\ row \in SwarmRows
    BY <2>1, CallType DEF Shape, SwarmRows, SwarmIds
  <2>3. /\ ~Taken(q, s) /\ swarm' = [swarm EXCEPT ![s] = row]
        /\ Name(q, "created", s) \/ Settle(q, "unavailable")
    BY <1>3 DEF CreateSwarm
  <2>4. pc'[q] = "done"
    BY <2>3 DEF Name, Settle, Goto, Shape, TypeOK
  <2> HIDE DEF s, row
  <2>5. swarm'[s] = row /\ swarm' \in [SwarmIds -> SwarmRows]
    BY <1>1, <2>2, <2>3
  <2>6. Made(q, s)
    BY <1>3, <2>1, <2>3, <2>4, <2>5 DEF Made, Taken, s, row
  <2>7. QED
    BY <1>1, <2>2, <2>3, <2>5, <2>6
<1>4. ASSUME NEW q \in Requests, StopSwarm(q) \/ AllStopped(q), swarm' # swarm
      PROVE  \E s \in SwarmIds, x \in {"none", "active", "stopping", "stopped"} :
               Held(s) /\ swarm' = [swarm EXCEPT ![s] = [swarm[s] EXCEPT !.state = x]]
  <2>1. CASE StopSwarm(q)
    <3>1. PICK s \in Owned(q) :
            swarm' = [swarm EXCEPT ![s].state = IF @ = "active" THEN "stopping" ELSE @]
      BY <1>4, <2>1 DEF StopSwarm
    <3>2. call[q] # NoCall
      BY <2>1 DEF StopSwarm, Shape, Located
    <3>3. s \in SwarmIds /\ Held(s)
      BY <3>1, <3>2, CallType DEF Owned, Held, Shape
    <3>4. swarm[s].state \in {"none", "active", "stopping", "stopped"}
      BY <1>1, <3>3 DEF SwarmRows
    <3>5. swarm' = [swarm EXCEPT ![s] = [swarm[s] EXCEPT !.state =
                     IF swarm[s].state = "active" THEN "stopping" ELSE swarm[s].state]]
      BY <3>1
    <3>6. QED
      BY <3>3, <3>4, <3>5
  <2>2. CASE AllStopped(q)
    <3>1. call[q].op = "stop" /\ pc[q] = "next" /\ swarm' = [swarm EXCEPT ![call[q].swarm].state = "stopped"]
      BY <1>4, <2>2 DEF AllStopped
    <3>2. QED
      BY <3>1 DEF Shape, SwarmInv
  <2>3. QED
    BY <1>4, <2>1, <2>2
<1>5. ASSUME NEW s \in SwarmIds, NEW x \in {"none", "active", "stopping", "stopped"},
             swarm' = [swarm EXCEPT ![s] = [swarm[s] EXCEPT !.state = x]]
      PROVE  /\ swarm' \in [SwarmIds -> SwarmRows] /\ \A t \in SwarmIds \ {s} : swarm'[t] = swarm[t]
             /\ swarm'[s].owner = swarm[s].owner
             /\ swarm'[s].key = swarm[s].key /\ swarm'[s].asked = swarm[s].asked
  <2>1. swarm[s] \in SwarmRows /\ swarm'[s] = [swarm[s] EXCEPT !.state = x]
    BY <1>1, <1>5
  <2>2. /\ swarm'[s] \in SwarmRows /\ swarm'[s].owner = swarm[s].owner
        /\ swarm'[s].key = swarm[s].key /\ swarm'[s].asked = swarm[s].asked
    BY <1>5, <2>1 DEF SwarmRows
  <2>3. QED
    BY <1>1, <1>5, <2>1, <2>2
<1>6. CASE swarm' = swarm
  BY <1>1, <1>6
<1>7. ASSUME NEW q \in Requests, CreateSwarm(q) \/ StopSwarm(q) \/ AllStopped(q), swarm' # swarm
      PROVE  /\ swarm' \in [SwarmIds -> SwarmRows]
             /\ \E s \in SwarmIds :
                  /\ \A t \in SwarmIds \ {s} : swarm'[t] = swarm[t]
                  /\ \/ /\ Held(s) /\ swarm'[s].owner = swarm[s].owner
                        /\ swarm'[s].key = swarm[s].key /\ swarm'[s].asked = swarm[s].asked
                     \/ Made(q, s)
  BY <1>3, <1>4, <1>5, <1>7
<1>8. QED
  BY <1>6, <1>7, Frames

LEMMA SwarmKeeps ==
  ASSUME Shape, [Next]_vars, NEW s \in SwarmIds, Held(s)
  PROVE  /\ Held(s)' /\ swarm'[s].owner = swarm[s].owner
         /\ swarm'[s].key = swarm[s].key /\ swarm'[s].asked = swarm[s].asked
<1>1. \A q : ~Made(q, s)
  BY DEF Made, Held, NoSwarm
<1>2. QED
  BY <1>1, SwarmEffects DEF Held

(* The id that a create without a chosen id would insert is free.          *)
LEMMA OwnIdFree ==
  ASSUME Shape, NEW q \in Requests, pc[q] # "done"
  PROVE  q \in SwarmIds /\ swarm[q] = NoSwarm
<1>1. q \in SwarmIds /\ (swarm[q] # NoSwarm => Held(q))
  BY Constants DEF Shape, SwarmInv
<1>2. ~Held(q)
  BY <1>1, Constants DEF Shape, TypeOK, SwarmInv, SwarmIds
<1>3. QED
  BY <1>1, <1>2

LEMMA MadeFacts ==
  ASSUME Shape, NEW q \in Requests, NEW s \in SwarmIds, Made(q, s)
  PROVE  /\ call[q] # NoCall /\ call[q].op = "create" /\ call[q].owner \in Owners /\ Held(s)' /\ ~Held(s)
         /\ \/ call[q].swarm \in ClientIds /\ s = call[q].swarm
            \/ call[q].swarm = Generated /\ s = q
         /\ swarm'[s].owner = call[q].owner /\ swarm'[s].key = call[q].key
         /\ swarm'[s].asked = call[q].swarm
         /\ \A t \in SwarmIds : ~KeyOf(q, t) \/ call[q].key = NoKey
<1>1. call[q] # NoCall /\ call[q].op = "create"
  BY DEF Made, Shape, Located
<1>2. call[q].owner \in Owners /\ call[q].swarm \in ClientIds \cup {Generated}
  BY <1>1, CallType DEF Shape
<1>3. /\ swarm'[s].owner = call[q].owner /\ swarm'[s].key = call[q].key
      /\ swarm'[s].asked = call[q].swarm /\ ~Held(s)
  BY DEF Made, NoSwarm, Held
<1>4. \A t \in SwarmIds : ~KeyOf(q, t) \/ call[q].key = NoKey
  BY DEF Made, SameKey, KeyOf
<1>5. QED
  BY <1>1, <1>2, <1>3, <1>4, Constants DEF Made, Held, SwarmIds

LEMMA SwarmStep ==
  ASSUME Shape, [Next]_vars
  PROVE  SwarmInv'
<1> USE Constants
<1>1. ASSUME NEW s \in SwarmIds, swarm'[s] # NoSwarm
      PROVE  Held(s)'
  BY <1>1, SwarmKeeps, SwarmEffects, MadeFacts DEF Shape, SwarmInv
<1>2. ASSUME NEW s \in SwarmIds, Held(s)'
      PROVE  s = swarm'[s].asked \/ (swarm'[s].asked = Generated /\ s \in Requests /\ pc'[s] = "done")
  <2>1. CASE Held(s)
    BY <2>1, SwarmKeeps, ComesStep DEF Shape, SwarmInv, Comes
  <2>2. CASE ~Held(s)
    <3>1. PICK q \in Requests : Made(q, s)
      BY <1>2, <2>2, SwarmEffects DEF Held
    <3>2. QED
      BY <3>1, MadeFacts DEF Made
  <2>3. QED
    BY <2>1, <2>2
<1>3. ASSUME NEW s \in SwarmIds, NEW t \in SwarmIds, Held(s)', Held(t)', swarm'[s].key # NoKey,
             swarm'[s].key = swarm'[t].key, swarm'[s].owner = swarm'[t].owner
      PROVE  s = t
  <2>1. CASE Held(s) /\ Held(t)
    BY <1>3, <2>1, SwarmKeeps DEF Shape, SwarmInv
  <2>2. ASSUME NEW x \in SwarmIds, NEW y \in SwarmIds, ~Held(x), Held(x)', Held(y)', swarm'[x].key # NoKey,
               swarm'[x].key = swarm'[y].key, swarm'[x].owner = swarm'[y].owner
        PROVE  x = y
    <3>1. PICK q \in Requests : Made(q, x) /\ \A z \in SwarmIds \ {x} : swarm'[z] = swarm[z]
      BY <2>2, SwarmEffects DEF Held
    <3>2. y # x => Held(y) /\ KeyOf(q, y)
      BY <2>2, <3>1, MadeFacts DEF Held, KeyOf
    <3>3. QED
      BY <2>2, <3>1, <3>2, MadeFacts
  <2>3. QED
    BY <1>3, <2>1, <2>2
<1>4. ASSUME NEW q \in Requests, call[q].op = "stop",
             pc'[q] \in {"list", "next", "head", "task", "stopped-row"}
      PROVE  call[q].swarm \in SwarmIds /\ Held(call[q].swarm)
  <2>1. CASE StopSwarm(q)
    <3>1. call[q] # NoCall /\ Owned(q) # {}
      BY <1>4, <2>1 DEF StopSwarm, Settle, Goto, Shape, TypeOK, Located
    <3>2. QED
      BY <3>1, CallType DEF Owned, Held, Shape
  <2>2. CASE pc[q] \in {"list", "next", "head", "task", "stopped-row"}
    BY <1>4, <2>2 DEF Shape, SwarmInv
  <2>3. ~FindMachine(q)
    BY <1>4 DEF FindMachine, Shape, Located
  <2>4. QED
    BY <1>4, <2>1, <2>2, <2>3, ComesStep DEF Shape, Comes, ListNonStopped, StopOne, TellHead, StopTask, MarkStopped
<1>5. ASSUME NEW q \in Requests, call'[q].op = "stop",
             pc'[q] \in {"list", "next", "head", "task", "stopped-row"}
      PROVE  call'[q].swarm \in SwarmIds /\ Held(call[q].swarm)'
  <2>1. call' = call
    BY Frames
  <2>2. PICK s \in SwarmIds : s = call[q].swarm /\ Held(s)
    BY <1>4, <1>5, <2>1
  <2>3. Held(s)'
    BY <2>2, SwarmKeeps
  <2>4. QED
    BY <2>1, <2>2, <2>3 DEF Held
<1>6. QED
  BY <1>1, <1>2, <1>3, <1>5 DEF SwarmInv

(* A create is told of the swarm with its key, and stays right.            *)
LEMMA CreateStep ==
  ASSUME Shape, CreateInv, [Next]_vars
  PROVE  CreateInv'
<1> USE Constants
<1>1. call' = call
  BY Frames
<1>2. ASSUME NEW q \in Requests, NEW s, KeyOf(q, s)
      PROVE  KeyOf(q, s)' /\ swarm'[s].asked = swarm[s].asked
  BY <1>1, <1>2, SwarmKeeps DEF KeyOf
<1>3. ASSUME NEW q \in Requests, TakenByOther(q)
      PROVE  TakenByOther(q)'
  BY <1>1, <1>3, SwarmKeeps DEF TakenByOther, KeyOf, SwarmIds
<1>4. ASSUME NEW q \in Requests, call[q] # NoCall, call[q].key # NoKey
      PROVE  \A s \in SameKey(q) : KeyOf(q, s)
  <2>1. call[q].owner \in Owners
    BY <1>4, CallType DEF Shape
  <2>2. QED
    BY <2>1 DEF SameKey, KeyOf, Held
<1>5. ASSUME NEW q \in Requests, call[q] # NoCall, call[q].op = "create", call[q].key # NoKey
      PROVE  /\ answer'[q] \in {"created", "replayed"} =>
                  KeyOf(q, named[q])' /\ swarm'[named'[q]].asked = call[q].swarm
             /\ answer'[q] = "IDEMPOTENCY_CONFLICT" =>
                  \E s \in SwarmIds : KeyOf(q, s)' /\ swarm'[s].asked # call[q].swarm
             /\ answer'[q] = "SWARM_ID_TAKEN" => TakenByOther(q)'
             /\ pc'[q] = "find-again" => TakenByOther(q)' \/ \E s \in SwarmIds : KeyOf(q, s)'
  <2>1. CASE answer'[q] = answer[q] /\ answer[q] # "none"
    <3>1. pc[q] = "done" /\ pc'[q] = "done" /\ named'[q] = named[q]
      BY <2>1, ComesStep, SettlesStep DEF Shape, Located, Comes, Settles
    <3>2. KeyOf(q, named[q]) => KeyOf(q, named[q])' /\ swarm'[named'[q]].asked = swarm[named[q]].asked
      BY <1>2, <3>1 DEF KeyOf
    <3>3. QED
      BY <1>2, <1>3, <1>5, <2>1, <3>1, <3>2 DEF CreateInv
  <2>2. CASE pc'[q] = "find-again" /\ ~CreateSwarm(q)
    <3>1. pc[q] = "find-again" /\ answer'[q] = "none"
      BY <2>2, ComesStep, LocatedStep DEF Shape, Comes, Located
    <3>2. QED
      BY <1>2, <1>3, <1>5, <3>1 DEF CreateInv
  <2>3. CASE CreateSwarm(q)
    <3> DEFINE s == IF call[q].swarm = Generated THEN q ELSE call[q].swarm
    <3>1. pc[q] = "insert" /\ answer[q] = "none" /\ s \in SwarmIds
      BY <1>5, <2>3, CallType DEF CreateSwarm, Shape, Located, SwarmIds
    <3>2. CASE pc'[q] = "find-again"
      <4>1. Taken(q, s) /\ swarm' = swarm /\ answer'[q] = answer[q]
        BY <2>3, <3>2 DEF CreateSwarm, Name, Settle, Goto, told, Shape, TypeOK
      <4>2. CASE SameKey(q) # {}
        BY <1>2, <1>4, <1>5, <3>1, <3>2, <4>1, <4>2 DEF SameKey
      <4>3. CASE SameKey(q) = {}
        <5>1. swarm[s] # NoSwarm /\ call[q].swarm = s /\ s \in ClientIds
          BY <1>5, <3>1, <4>1, <4>3, OwnIdFree, CallType DEF Taken, Shape
        <5>2. Held(s) /\ ~KeyOf(q, s)
          BY <1>5, <3>1, <4>3, <5>1 DEF Shape, SwarmInv, KeyOf, SameKey
        <5>3. TakenByOther(q)
          BY <5>1, <5>2 DEF TakenByOther
        <5>4. QED
          BY <1>3, <3>1, <3>2, <4>1, <5>3
      <4>4. QED
        BY <4>2, <4>3
    <3>3. CASE Name(q, "created", s)
      <4>1. named'[q] = s /\ answer'[q] = "created" /\ pc'[q] = "done"
        BY <3>1, <3>3 DEF Name, Goto, Shape, TypeOK
      <4>2. ~Taken(q, s) /\ swarm' = [swarm EXCEPT ![s] =
              [state |-> "active", owner |-> call[q].owner, key |-> call[q].key, asked |-> call[q].swarm]]
        BY <2>3, <3>1, <4>1 DEF CreateSwarm, Settle, Goto, told, Shape, TypeOK
      <4>3. Made(q, s)
        BY <2>3, <3>1, <4>1, <4>2 DEF Made, Taken, Shape, TypeOK
      <4>4. PICK t \in SwarmIds : t = s
        BY <3>1
      <4>5. Held(t)' /\ swarm'[t].owner = call[q].owner /\ swarm'[t].key = call[q].key
            /\ swarm'[t].asked = call[q].swarm
        BY <4>3, <4>4, MadeFacts
      <4>6. QED
        BY <1>1, <3>1, <4>1, <4>4, <4>5 DEF KeyOf, Held
    <3>4. CASE Settle(q, "unavailable")
      BY <3>1, <3>4 DEF Settle, Goto, Shape, TypeOK
    <3>5. QED
      BY <2>3, <3>2, <3>3, <3>4 DEF CreateSwarm, Goto, Shape, TypeOK
  <2>4. CASE (FindKey(q) \/ FindKeyAgain(q)) /\ pc'[q] = "done"
    <3>1. swarm' = swarm /\ answer[q] = "none"
      BY <2>4 DEF FindKey, FindKeyAgain, Shape, Located
    <3>2. CASE \E s \in SameKey(q) : Replay(q, s)
      <4>1. PICK s \in SwarmIds : KeyOf(q, s) /\ Replay(q, s)
        BY <1>4, <1>5, <3>2 DEF KeyOf
      <4>2. \/ answer'[q] = "replayed" /\ named'[q] = s /\ swarm[s].asked = call[q].swarm
            \/ answer'[q] = "IDEMPOTENCY_CONFLICT" /\ swarm[s].asked # call[q].swarm
        BY <4>1 DEF Replay, Name, Settle, Shape, TypeOK
      <4>3. KeyOf(q, s)' /\ swarm'[s].asked = swarm[s].asked
        BY <1>2, <4>1
      <4>4. answer'[q] = "replayed" => KeyOf(q, named[q])'
        BY <4>2, <4>3 DEF KeyOf
      <4>5. QED
        BY <2>4, <4>1, <4>2, <4>3, <4>4
    <3>3. CASE FindKeyAgain(q) /\ SameKey(q) = {} /\ Settle(q, "SWARM_ID_TAKEN")
      <4>1. \A s \in SwarmIds : ~KeyOf(q, s)
        BY <1>5, <3>3 DEF KeyOf, SameKey
      <4>2. TakenByOther(q)
        BY <1>5, <3>3, <4>1 DEF FindKeyAgain, CreateInv
      <4>3. answer'[q] = "SWARM_ID_TAKEN"
        BY <3>3 DEF Settle, Shape, TypeOK
      <4>4. QED
        BY <1>3, <2>4, <4>2, <4>3
    <3>4. CASE Settle(q, "unavailable") \/ Goto(q, "insert")
      BY <2>4, <3>1, <3>4 DEF Settle, Goto, Shape, TypeOK
    <3>5. QED
      BY <2>4, <3>2, <3>3, <3>4 DEF FindKey, FindKeyAgain
  <2>5. CASE answer'[q] \notin {"created", "replayed", "IDEMPOTENCY_CONFLICT", "SWARM_ID_TAKEN"} /\ pc'[q] # "find-again"
    BY <2>5
  <2>6. QED
    <3>1. answer'[q] # "none" => pc'[q] = "done"
      BY LocatedStep DEF Shape, Located
    <3>2. QED
      BY <2>1, <2>2, <2>3, <2>4, <2>5, <3>1, SettlesStep DEF Settles, Shape
<1>6. QED
  BY <1>1, <1>5 DEF CreateInv

LEMMA CreatedOnceStep ==
  ASSUME Shape, CreateInv, CreatedOnce, [Next]_vars
  PROVE  CreatedOnce'
<1>1. call' = call
  BY Frames
<1>2. ASSUME NEW p \in Requests, NEW q \in Requests, p # q, SharesKey(p, q),
             CreateSwarm(p), answer'[p] = "created", answer'[q] = "created"
      PROVE  FALSE
  <2>1. SameKey(p) = {} /\ answer'[q] = answer[q]
    BY <1>2 DEF CreateSwarm, Taken, Name, Settle, Goto, told, Shape, TypeOK, Located
  <2>2. KeyOf(q, named[q])
    BY <1>2, <2>1 DEF CreateInv, SharesKey
  <2>3. named[q] \in SameKey(p)
    BY <1>2, <2>2 DEF SharesKey, SameKey, KeyOf
  <2>4. QED
    BY <2>1, <2>3
<1>3. ASSUME NEW p \in Requests, NEW q \in Requests, p # q, SharesKey(p, q)',
             answer'[p] = "created", answer'[q] = "created"
      PROVE  FALSE
  <2>1. SharesKey(p, q) /\ SharesKey(q, p)
    BY <1>1, <1>3 DEF SharesKey
  <2>2. answer[p] = "created" \/ CreateSwarm(p)
    BY <1>3, SettlesStep DEF Settles, Shape
  <2>3. answer[q] = "created" \/ CreateSwarm(q)
    BY <1>3, SettlesStep DEF Settles, Shape
  <2>4. QED
    BY <1>2, <1>3, <2>1, <2>2, <2>3 DEF CreatedOnce
<1>4. QED
  BY <1>3 DEF CreatedOnce
-----------------------------------------------------------------------------
(* The rows of the machines: their states, and whether a task is recorded.  *)
MachineRows == [state: {"none", "launching", "running", "stopping", "stopped", "failed"}, arn: BOOLEAN]

(* What a step does to the row of a machine m.                             *)
Row0(m) == CreateMachine(m) /\ machine'[m] = [state |-> "launching", arn |-> FALSE]
Row1(m) == MarkRunning(m) /\ machine'[m] = [state |-> "running", arn |-> TRUE]
Row2(m) == MarkFailed(m) /\ machine'[m].state = "failed" /\ machine'[m].arn = machine[m].arn
Row3(m) == /\ \E q \in Requests : StopOne(q) /\ m \in left[q]
           /\ machine'[m] = Stopping(machine[m])
Row4(m) == /\ \E q \in Requests : MarkStopped(q) /\ at[q] = m
           /\ machine'[m].state = "stopped" /\ machine'[m].arn = machine[m].arn

LEMMA MachineEffects ==
  ASSUME Shape, StopInv, [Next]_vars
  PROVE  /\ machine' \in [Requests -> MachineRows]
         /\ \A m \in Requests : \/ machine'[m] = machine[m]
                                \/ Row0(m) \/ Row1(m) \/ Row2(m) \/ Row3(m) \/ Row4(m)
<1>1. machine \in [Requests -> MachineRows]
  BY DEF Shape, TypeOK, MachineRows
<1>2. CASE machine' = machine
  BY <1>1, <1>2
<1>3. ASSUME NEW q \in Requests, CreateMachine(q), machine' # machine
      PROVE  /\ machine' \in [Requests -> MachineRows] /\ Row0(q)
             /\ \A m \in Requests \ {q} : machine'[m] = machine[m]
  <2>1. machine' = [machine EXCEPT ![q] = [state |-> "launching", arn |-> FALSE]]
    BY <1>3 DEF CreateMachine, Row, Absent
  <2>2. QED
    BY <1>1, <1>3, <2>1 DEF Row0, MachineRows
<1>4. ASSUME NEW q \in Requests, MarkRunning(q), machine' # machine
      PROVE  /\ machine' \in [Requests -> MachineRows] /\ Row1(q)
             /\ \A m \in Requests \ {q} : machine'[m] = machine[m]
  <2>1. machine' = [machine EXCEPT ![q] = [state |-> "running", arn |-> TRUE]]
    BY <1>4 DEF MarkRunning, Row
  <2>2. QED
    BY <1>1, <1>4, <2>1 DEF Row1, MachineRows
<1>5. ASSUME NEW q \in Requests, MarkFailed(q), machine' # machine
      PROVE  /\ machine' \in [Requests -> MachineRows] /\ Row2(q)
             /\ \A m \in Requests \ {q} : machine'[m] = machine[m]
  <2>1. machine' = [machine EXCEPT ![q] = [machine[q] EXCEPT !.state = "failed"]]
    BY <1>5 DEF MarkFailed, Row
  <2>2. machine'[q] = [machine[q] EXCEPT !.state = "failed"] /\ machine[q] \in MachineRows
    BY <1>1, <2>1
  <2>3. machine'[q].state = "failed" /\ machine'[q].arn = machine[q].arn /\ machine'[q] \in MachineRows
    BY <2>2 DEF MachineRows
  <2>4. QED
    BY <1>1, <1>5, <2>1, <2>2, <2>3 DEF Row2
<1>6. ASSUME NEW q \in Requests, StopOne(q), machine' # machine
      PROVE  /\ machine' \in [Requests -> MachineRows]
             /\ \A m \in Requests : machine'[m] = machine[m] \/ Row3(m)
  <2>1. PICK m \in left[q] : machine' = [machine EXCEPT ![m] = Stopping(machine[m])]
    BY <1>6 DEF StopOne, Row
  <2>2. m \in Requests
    BY <2>1 DEF Shape, TypeOK
  <2>3. machine'[m] = Stopping(machine[m]) /\ machine'[m] \in MachineRows
    BY <1>1, <2>1, <2>2 DEF MachineRows, Stopping
  <2>4. QED
    BY <1>1, <1>6, <2>1, <2>2, <2>3 DEF Row3
<1>7. ASSUME NEW q \in Requests, MarkStopped(q), machine' # machine
      PROVE  /\ machine' \in [Requests -> MachineRows]
             /\ \A m \in Requests : machine'[m] = machine[m] \/ Row4(m)
  <2>1. machine' = [machine EXCEPT ![at[q]] = [machine[at[q]] EXCEPT !.state = "stopped"]]
    BY <1>7 DEF MarkStopped, Row
  <2>2. at[q] \in Requests
    BY <1>7 DEF MarkStopped, StopInv, Shape, TypeOK
  <2>3. PICK m \in Requests : m = at[q]
    BY <2>2
  <2>4. machine'[m] = [machine[m] EXCEPT !.state = "stopped"] /\ machine[m] \in MachineRows
    BY <1>1, <2>1, <2>3
  <2>5. machine'[m].state = "stopped" /\ machine'[m].arn = machine[m].arn /\ machine'[m] \in MachineRows
    BY <2>4 DEF MachineRows
  <2>6. QED
    BY <1>1, <1>7, <2>1, <2>3, <2>4, <2>5 DEF Row4
<1>8. QED
  BY <1>2, <1>3, <1>4, <1>5, <1>6, <1>7, Frames

(* A row stays, and keeps the task that is recorded in it.                 *)
LEMMA RowsStay ==
  ASSUME Shape, MachineInv, StopInv, [Next]_vars, NEW m \in Requests
  PROVE  /\ machine[m].state # "none" => machine'[m].state # "none"
         /\ machine[m].arn => machine'[m].arn
         /\ machine'[m].arn => machine[m].arn \/ MarkRunning(m)
         /\ machine'[m].state = "stopped" => machine[m].state = "stopped" \/ Row4(m)
<1>1. machine[m] \in MachineRows
  BY DEF Shape, TypeOK, MachineRows
<1>2. CreateMachine(m) => ~machine[m].arn
  BY DEF CreateMachine, MachineInv
<1>3. Row3(m) => /\ machine'[m].arn = machine[m].arn /\ machine'[m].state # "none"
                 /\ machine'[m].state = "stopped" => machine[m].state = "stopped"
  BY <1>1 DEF Row3, MachineRows, Stopping
<1>4. QED
  BY <1>2, <1>3, MachineEffects DEF Row0, Row1, Row2, Row4

LEMMA MachineStep ==
  ASSUME Shape, MachineInv, StopInv, [Next]_vars
  PROVE  MachineInv'
<1>1. ASSUME NEW m \in Requests, machine'[m].state # "none"
      PROVE  pc'[m] \in {"run", "record", "failed", "done"}
  <2>1. CASE machine[m].state # "none"
    BY <2>1, ComesStep DEF Comes, MachineInv, Shape
  <2>2. CASE machine[m].state = "none"
    <3>1. Row3(m) \/ Row4(m) => FALSE
      <4>1. ASSUME NEW q \in Requests, m \in left[q] \/ (MarkStopped(q) /\ at[q] = m)
            PROVE  FALSE
        BY <2>2, <4>1 DEF StopInv, MarkStopped
      <4>2. QED
        BY <4>1 DEF Row3, Row4
    <3>2. CreateMachine(m) => pc'[m] \in {"run", "done"}
      BY DEF CreateMachine, Goto, Settle, Shape, TypeOK
    <3>3. MarkRunning(m) \/ MarkFailed(m) => pc'[m] \in {"failed", "done"}
      BY DEF MarkRunning, MarkFailed, Goto, Settle, Shape, TypeOK
    <3>4. QED
      BY <1>1, <2>2, <3>1, <3>2, <3>3, MachineEffects DEF Row0, Row1, Row2
  <2>3. QED
    BY <2>1, <2>2
<1>2. ASSUME NEW m \in Requests, machine'[m].arn
      PROVE  pc'[m] \in {"failed", "done"}
  <2>1. MarkRunning(m) => pc'[m] \in {"failed", "done"}
    BY DEF MarkRunning, Goto, Settle, Shape, TypeOK
  <2>2. QED
    BY <1>2, <2>1, RowsStay, ComesStep DEF Comes, MachineInv, Shape
<1>3. QED
  BY <1>1, <1>2 DEF MachineInv

(* A stop reads rows once, and goes on with the machines it has read.      *)
LEMMA ReadOnce ==
  ASSUME Shape, StopInv, [Next]_vars, NEW q \in Requests
  PROVE  /\ listed[q] \subseteq listed'[q]
         /\ \/ /\ listed'[q] = listed[q] /\ saw'[q] = saw[q] /\ left'[q] \subseteq left[q]
               /\ ~(ListNonStopped(q) /\ pc'[q] = "next") /\ ~(FindMachine(q) /\ pc'[q] = "next")
            \/ /\ listed[q] = {} /\ pc'[q] = "next" /\ machine' = machine
               /\ left'[q] = listed'[q] /\ saw'[q] = {m \in listed'[q] : machine[m].arn}
               /\ \A m \in listed'[q] : m \in Requests /\ machine[m].state # "none"
<1> USE DEF Shape, TypeOK
<1>1. ASSUME NEW p \in Requests, p # q, ListNonStopped(p) \/ FindMachine(p) \/ StopOne(p)
      PROVE  listed'[q] = listed[q] /\ saw'[q] = saw[q] /\ left'[q] = left[q] /\ pc'[q] = pc[q]
  BY <1>1 DEF ListNonStopped, FindMachine, StopOne, Read, Goto, Settle
<1>2. StopOne(q) => /\ listed' = listed /\ saw' = saw /\ left'[q] \subseteq left[q]
                    /\ pc[q] = "next"
  BY DEF StopOne
<1>3. ASSUME NEW ms \in SUBSET Requests, Read(q, ms), listed[q] = {}
      PROVE  /\ listed[q] \subseteq listed'[q] /\ left'[q] = listed'[q] /\ listed'[q] = ms
             /\ saw'[q] = {m \in listed'[q] : machine[m].arn}
  BY <1>3 DEF Read
<1>4. ListNonStopped(q) => /\ pc[q] = "list" /\ machine' = machine /\ listed[q] = {}
                           /\ \/ /\ pc'[q] = "next"
                                 /\ Read(q, {m \in Launched(call[q].swarm) : machine[m].state # "stopped"})
                              \/ pc'[q] = "done" /\ UNCHANGED <<left, listed, saw>>
  BY DEF ListNonStopped, Goto, Settle, StopInv
<1>5. FindMachine(q) => /\ pc[q] = "stop-machine" /\ machine' = machine /\ listed[q] = {}
                        /\ \/ /\ pc'[q] = "next"
                              /\ \E s \in Owned(q) : \E m \in Launched(s) : Read(q, {m})
                           \/ pc'[q] = "done" /\ UNCHANGED <<left, listed, saw>>
  BY DEF FindMachine, Goto, Settle, StopInv
<1>6. \A s : \A m \in Launched(s) : m \in Requests /\ machine[m].state # "none"
  BY DEF Launched
<1>7. CASE ListNonStopped(q)
  BY <1>3, <1>4, <1>6, <1>7 DEF FindMachine
<1>8. CASE FindMachine(q)
  <2>1. ~ListNonStopped(q) /\ listed[q] = {} /\ machine' = machine
    BY <1>5, <1>8 DEF ListNonStopped
  <2>2. CASE pc'[q] = "next"
    <3>1. PICK m \in Requests : machine[m].state # "none" /\ Read(q, {m})
      BY <1>5, <1>6, <1>8, <2>2
    <3>2. {m} \in SUBSET Requests
      OBVIOUS
    <3>3. QED
      BY <1>3, <2>1, <2>2, <3>1, <3>2
  <2>3. CASE pc'[q] # "next"
    BY <1>5, <1>8, <2>1, <2>3
  <2>4. QED
    BY <2>2, <2>3
<1>9. CASE ~ListNonStopped(q) /\ ~FindMachine(q)
  <2>1. listed'[q] = listed[q] /\ saw'[q] = saw[q]
    BY <1>1, <1>9, Frames
  <2>2. left'[q] \subseteq left[q]
    BY <1>1, <1>2, <1>9, Frames
  <2>3. QED
    BY <1>9, <2>1, <2>2
<1>10. QED
  BY <1>7, <1>8, <1>9

(* What a step does to the machine that a stop is at.                      *)
LEMMA AtStep ==
  ASSUME Shape, StopInv, [Next]_vars, NEW q \in Requests
  PROVE  \/ at'[q] = at[q] /\ ~StopOne(q)
         \/ StopOne(q) /\ at'[q] \in left[q] /\ pc'[q] \in {"head", "done"}
<1> USE DEF Shape, TypeOK
<1>1. ASSUME NEW p \in Requests, p # q, StopOne(p)
      PROVE  at'[q] = at[q] /\ ~StopOne(q)
  <2>1. pc'[p] # pc[p] /\ at'[q] = at[q] /\ pc[q] = pc'[q]
    BY <1>1 DEF StopOne, Goto, Settle
  <2>2. StopOne(q) => pc'[q] # pc[q]
    BY DEF StopOne, Goto, Settle
  <2>3. QED
    BY <2>1, <2>2
<1>2. StopOne(q) => at'[q] \in left[q] /\ pc'[q] \in {"head", "done"}
  BY DEF StopOne, Goto, Settle
<1>3. QED
  BY <1>1, <1>2, Frames

(* A task that is recorded and stopped is not started again.               *)
LEMMA TaskStays ==
  ASSUME Shape, MachineInv, StopInv, [Next]_vars, NEW m \in Requests, machine[m].arn, task[m] = "stopped"
  PROVE  task'[m] = "stopped"
<1>1. ~RunTask(m)
  BY DEF RunTask, MachineInv
<1>2. ASSUME NEW q \in Requests, RunTask(q)
      PROVE  task'[m] = task[m]
  BY <1>1, <1>2 DEF RunTask, Shape, TypeOK
<1>3. ASSUME NEW q \in Requests, StopTask(q) \/ TaskEnds(q)
      PROVE  task'[m] = "stopped"
  BY <1>3 DEF StopTask, TaskEnds, Shape, TypeOK
<1>4. QED
  BY <1>2, <1>3, Frames

LEMMA StopStep ==
  ASSUME Shape, MachineInv, StopInv, [Next]_vars
  PROVE  StopInv'
<1> SUFFICES ASSUME NEW q \in Requests
             PROVE  /\ pc'[q] \in {"idle", "stop", "list", "stop-machine"} => listed'[q] = {}
                    /\ left'[q] \subseteq listed'[q]
                    /\ \A m \in listed'[q] : machine'[m].state # "none"
                    /\ \A m \in saw'[q] : m \in listed'[q] /\ machine'[m].arn
                    /\ pc'[q] \in {"head", "task", "stopped-row"} => at'[q] \in listed'[q]
                    /\ pc'[q] = "task" => at'[q] \in saw'[q]
                    /\ pc'[q] = "stopped-row" /\ at'[q] \in saw'[q] => task'[at'[q]] = "stopped"
  BY DEF StopInv
<1>1. Comes(q)
  BY ComesStep DEF Shape
<1>2. \A m \in Requests : /\ machine[m].state # "none" => machine'[m].state # "none"
                          /\ machine[m].arn => machine'[m].arn
  BY RowsStay
<1>3. listed[q] \subseteq Requests /\ left[q] \subseteq listed[q] /\ saw[q] \subseteq listed[q]
  BY DEF Shape, TypeOK, StopInv
<1>4. CASE /\ listed[q] = {} /\ pc'[q] = "next" /\ machine' = machine
           /\ left'[q] = listed'[q] /\ saw'[q] = {m \in listed'[q] : machine[m].arn}
           /\ \A m \in listed'[q] : m \in Requests /\ machine[m].state # "none"
  BY <1>4
<1>5. CASE /\ listed'[q] = listed[q] /\ saw'[q] = saw[q] /\ left'[q] \subseteq left[q]
           /\ ~(ListNonStopped(q) /\ pc'[q] = "next") /\ ~(FindMachine(q) /\ pc'[q] = "next")
  <2>1. /\ pc'[q] \in {"idle", "stop", "list", "stop-machine"} => listed'[q] = {}
        /\ left'[q] \subseteq listed'[q]
        /\ \A m \in listed'[q] : machine'[m].state # "none"
        /\ \A m \in saw'[q] : m \in listed'[q] /\ machine'[m].arn
    <3>1. pc'[q] \in {"idle", "stop", "list", "stop-machine"} =>
            pc[q] \in {"idle", "stop", "list", "stop-machine"}
      BY <1>1 DEF Comes, Request, StopSwarm
    <3>2. QED
      BY <1>2, <1>3, <1>5, <3>1 DEF StopInv
  <2>2. pc'[q] \in {"head", "task", "stopped-row"} => at'[q] \in listed'[q]
    <3>1. pc'[q] \in {"head", "task", "stopped-row"} =>
            pc[q] \in {"head", "task", "stopped-row"} \/ StopOne(q)
      BY <1>1 DEF Comes, TellHead, StopTask
    <3>2. QED
      BY <1>3, <1>5, <3>1, AtStep DEF StopInv
  <2>3. pc'[q] = "task" => at'[q] \in saw'[q]
    <3>1. TellHead(q) /\ pc'[q] = "task" => at[q] \in saw[q]
      BY DEF TellHead, Goto, Settle, Shape, TypeOK
    <3>2. QED
      BY <1>1, <1>5, <3>1, AtStep DEF Comes, StopInv
  <2>4. ASSUME pc'[q] = "stopped-row", at'[q] \in saw'[q]
        PROVE  task'[at'[q]] = "stopped"
    <3>1. at'[q] = at[q]
      BY <2>4, AtStep
    <3>2. PICK m \in Requests : m = at[q] /\ m \in saw[q] /\ machine[m].arn
      BY <1>3, <1>5, <2>4, <3>1 DEF StopInv
    <3>3. CASE pc[q] = "stopped-row"
      BY <3>1, <3>2, <3>3, TaskStays DEF StopInv
    <3>4. ~(TellHead(q) /\ pc'[q] = "stopped-row")
      BY <3>2 DEF TellHead, Goto, Settle, Shape, TypeOK
    <3>5. StopTask(q) /\ pc'[q] = "stopped-row" => task'[m] = "stopped"
      BY <3>2 DEF StopTask, Goto, Settle, Shape, TypeOK
    <3>6. QED
      BY <1>1, <2>4, <3>1, <3>2, <3>3, <3>4, <3>5 DEF Comes
  <2>5. QED
    BY <2>1, <2>2, <2>3, <2>4
<1>6. QED
  BY <1>4, <1>5, ReadOnce

(* Who has read the row of a machine without its task has done so for good.*)
LEMMA MissedStays ==
  ASSUME Shape, StopInv, [Next]_vars, NEW m \in Requests, Missed(m)
  PROVE  Missed(m)'
<1>1. PICK q \in Requests : m \in listed[q] \ saw[q]
  BY DEF Missed
<1>2. m \in listed'[q] \ saw'[q]
  BY <1>1, ReadOnce
<1>3. QED
  BY <1>2 DEF Missed

LEMMA StoppedStep ==
  ASSUME Shape, MachineInv, StopInv, StoppedInv, [Next]_vars
  PROVE  StoppedInv'
<1>1. ASSUME NEW m \in Requests, machine'[m].state = "stopped"
      PROVE  Missed(m)' \/ (machine'[m].arn /\ task'[m] = "stopped")
  <2>1. machine[m].arn /\ task[m] = "stopped" => machine'[m].arn /\ task'[m] = "stopped"
    BY RowsStay, TaskStays
  <2>2. CASE machine[m].state = "stopped"
    BY <2>1, <2>2, MissedStays DEF StoppedInv
  <2>3. CASE Row4(m)
    <3>1. PICK q \in Requests : MarkStopped(q) /\ at[q] = m
      BY <2>3 DEF Row4
    <3>2. m \in listed[q] /\ pc[q] = "stopped-row"
      BY <3>1 DEF MarkStopped, StopInv
    <3>3. CASE m \in saw[q]
      BY <2>1, <3>1, <3>2, <3>3 DEF StopInv
    <3>4. CASE m \notin saw[q]
      BY <3>2, <3>4, MissedStays DEF Missed
    <3>5. QED
      BY <3>3, <3>4
  <2>4. QED
    BY <1>1, <2>2, <2>3, RowsStay
<1>2. QED
  BY <1>1 DEF StoppedInv
-----------------------------------------------------------------------------
(* A request goes on, or is told something.                                *)
LEMMA MoveType ==
  ASSUME TypeOK, NEW q \in Requests,
         \/ \E label \in Labels : Goto(q, label) /\ UNCHANGED told
         \/ \E outcome \in Outcomes : Settle(q, outcome) \/ \E s \in SwarmIds : Name(q, outcome, s)
  PROVE  /\ pc' \in [Requests -> Labels] /\ answer' \in [Requests -> Outcomes]
         /\ named' \in [Requests -> SwarmIds \cup {NoRequest}]
<1>1. /\ pc \in [Requests -> Labels] /\ answer \in [Requests -> Outcomes]
      /\ named \in [Requests -> SwarmIds \cup {NoRequest}] /\ "done" \in Labels
  BY DEF TypeOK, Labels
<1>2. QED
  BY <1>1 DEF Goto, Settle, Name, told

LEMMA ToldType ==
  ASSUME Shape, [Next]_vars
  PROVE  /\ pc' \in [Requests -> Labels] /\ answer' \in [Requests -> Outcomes]
         /\ named' \in [Requests -> SwarmIds \cup {NoRequest}]
<1> DEFINE Moved(q) ==
      \/ \E label \in Labels : Goto(q, label) /\ UNCHANGED told
      \/ \E outcome \in Outcomes : Settle(q, outcome) \/ \E s \in SwarmIds : Name(q, outcome, s)
<1>1. ASSUME NEW q \in Requests, Request(q)
      PROVE  Moved(q)
  <2>1. call[q].op \in Labels \/ call[q].op = "create"
    BY <1>1, CallType DEF Request, Shape, Labels
  <2>2. QED
    BY <1>1, <2>1 DEF Request, Labels
<1>2. ASSUME NEW q \in Requests, FindKey(q)
      PROVE  Moved(q)
  BY <1>2 DEF FindKey, SameKey, Replay, Labels, Outcomes
<1>3. ASSUME NEW q \in Requests, CreateSwarm(q)
      PROVE  Moved(q)
  <2>1. (IF call[q].swarm = Generated THEN q ELSE call[q].swarm) \in SwarmIds
    BY <1>3, CallType, Constants DEF CreateSwarm, Shape, Located, SwarmIds
  <2>2. QED
    BY <1>3, <2>1 DEF CreateSwarm, Labels, Outcomes
<1>4. ASSUME NEW q \in Requests, FindKeyAgain(q)
      PROVE  Moved(q)
  BY <1>4 DEF FindKeyAgain, SameKey, Replay, Labels, Outcomes
<1>5. ASSUME NEW q \in Requests, FindSwarm(q)
      PROVE  Moved(q)
  BY <1>5 DEF FindSwarm, Labels, Outcomes
<1>6. ASSUME NEW q \in Requests, LaunchConfig(q)
      PROVE  Moved(q)
  BY <1>6 DEF LaunchConfig, Labels, Outcomes
<1>7. ASSUME NEW q \in Requests, CreateMachine(q)
      PROVE  Moved(q)
  BY <1>7 DEF CreateMachine, Labels, Outcomes
<1>8. ASSUME NEW q \in Requests, RunTask(q)
      PROVE  Moved(q)
  BY <1>8 DEF RunTask, Labels, Outcomes
<1>9. ASSUME NEW q \in Requests, MarkRunning(q)
      PROVE  Moved(q)
  BY <1>9 DEF MarkRunning, Labels, Outcomes
<1>10. ASSUME NEW q \in Requests, MarkFailed(q)
      PROVE  Moved(q)
  BY <1>10 DEF MarkFailed, Labels, Outcomes
<1>11. ASSUME NEW q \in Requests, StopSwarm(q)
      PROVE  Moved(q)
  BY <1>11 DEF StopSwarm, Labels, Outcomes
<1>12. ASSUME NEW q \in Requests, ListNonStopped(q)
      PROVE  Moved(q)
  BY <1>12 DEF ListNonStopped, Labels, Outcomes
<1>13. ASSUME NEW q \in Requests, FindMachine(q)
      PROVE  Moved(q)
  BY <1>13 DEF FindMachine, Labels, Outcomes
<1>14. ASSUME NEW q \in Requests, StopOne(q)
      PROVE  Moved(q)
  BY <1>14 DEF StopOne, Labels, Outcomes
<1>15. ASSUME NEW q \in Requests, TellHead(q)
      PROVE  Moved(q)
  BY <1>15 DEF TellHead, Labels, Outcomes
<1>16. ASSUME NEW q \in Requests, StopTask(q)
      PROVE  Moved(q)
  BY <1>16 DEF StopTask, Labels, Outcomes
<1>17. ASSUME NEW q \in Requests, MarkStopped(q)
      PROVE  Moved(q)
  BY <1>17 DEF MarkStopped, Labels, Outcomes
<1>18. ASSUME NEW q \in Requests, AllStopped(q)
      PROVE  Moved(q)
  BY <1>18 DEF AllStopped, Labels, Outcomes
<1>19. ASSUME NEW q \in Requests, Moved(q)
      PROVE  /\ pc' \in [Requests -> Labels] /\ answer' \in [Requests -> Outcomes]
             /\ named' \in [Requests -> SwarmIds \cup {NoRequest}]
  BY <1>19, MoveType DEF Shape
<1> HIDE DEF Moved
<1>20. (\E q \in Requests : Moved(q)) \/ UNCHANGED <<pc, told>>
  BY <1>1, <1>2, <1>3, <1>4, <1>5, <1>6, <1>7, <1>8, <1>9, <1>10, <1>11, <1>12, <1>13, <1>14, <1>15, <1>16, <1>17, <1>18 DEF Next, Create, LaunchMachine, Stop, TaskEnds, vars, told
<1>21. QED
  BY <1>19, <1>20 DEF Shape, TypeOK, told

LEMMA TypeStep ==
  ASSUME Shape, StopInv, [Next]_vars
  PROVE  TypeOK'
<1> USE DEF Shape, TypeOK
<1>1. swarm' \in [SwarmIds -> SwarmRows] /\ machine' \in [Requests -> MachineRows] /\ call' \in Loads
  BY SwarmEffects, MachineEffects, Frames
<1>2. task' \in [Requests -> {"none", "running", "stopped"}]
  BY Frames DEF RunTask, StopTask, TaskEnds
<1>3. listed' \in [Requests -> SUBSET Requests] /\ saw' \in [Requests -> SUBSET Requests]
  <2>1. ASSUME NEW q \in Requests, ListNonStopped(q) \/ FindMachine(q)
        PROVE  UNCHANGED <<listed, saw, left>> \/ \E ms \in SUBSET Requests : Read(q, ms)
    BY <2>1 DEF ListNonStopped, FindMachine, Launched
  <2>2. ASSUME NEW q \in Requests, NEW ms \in SUBSET Requests, Read(q, ms)
        PROVE  /\ listed' \in [Requests -> SUBSET Requests] /\ saw' \in [Requests -> SUBSET Requests]
               /\ left' \in [Requests -> SUBSET Requests]
    BY <2>2 DEF Read
  <2>3. QED
    BY <2>1, <2>2, Frames
<1>4. left' \in [Requests -> SUBSET Requests]
  <2>1. ASSUME NEW q \in Requests, ListNonStopped(q) \/ FindMachine(q)
        PROVE  left' = left \/ \E ms \in SUBSET Requests : left' = [left EXCEPT ![q] = ms]
    BY <2>1 DEF ListNonStopped, FindMachine, Launched, Read
  <2>2. ASSUME NEW q \in Requests, StopOne(q)
        PROVE  left' \in [Requests -> SUBSET Requests]
    BY <2>2 DEF StopOne
  <2>3. QED
    BY <2>1, <2>2, Frames
<1>5. at' \in [Requests -> Requests \cup {NoRequest}]
  BY Frames DEF StopOne
<1>6. QED
  BY <1>1, <1>2, <1>3, <1>4, <1>5, ToldType DEF SwarmRows, MachineRows

LEMMA InitInv == Init => IInv
<1> SUFFICES ASSUME Init
             PROVE  IInv
  OBVIOUS
<1> USE Constants DEF Init
<1>1. TypeOK
  BY DEF TypeOK, NoSwarm, Absent, Labels, Outcomes
<1>2. Located /\ SwarmInv
  BY DEF Located, SwarmInv, Held, NoSwarm
<1>3. CreateInv /\ CreatedOnce
  BY DEF CreateInv, CreatedOnce
<1>4. MachineInv /\ StopInv /\ StoppedInv
  BY DEF MachineInv, StopInv, StoppedInv, Absent
<1>5. QED
  BY <1>1, <1>2, <1>3, <1>4 DEF IInv, Shape

LEMMA StepInv == IInv /\ [Next]_vars => IInv'
<1> SUFFICES ASSUME IInv, [Next]_vars
             PROVE  IInv'
  OBVIOUS
<1>1. Shape'
  BY TypeStep, LocatedStep, SwarmStep DEF IInv, Shape
<1>2. CreateInv' /\ CreatedOnce'
  BY CreateStep, CreatedOnceStep DEF IInv
<1>3. MachineInv' /\ StopInv' /\ StoppedInv'
  BY MachineStep, StopStep, StoppedStep DEF IInv
<1>4. QED
  BY <1>1, <1>2, <1>3 DEF IInv

LEMMA Invariance == Spec => []IInv
BY InitInv, StepInv, PTL DEF Spec
-----------------------------------------------------------------------------
(* The rows of swarms and machines keep their columns, and the requests    *)
(* what they carry between two statements, well formed.                    *)
THEOREM TypeCorrect == Spec => []TypeOK
<1>1. IInv => TypeOK
  BY DEF IInv, Shape
<1>2. QED
  BY <1>1, Invariance, PTL

(* Creates that share an owner and an idempotency key come to one swarm,   *)
(* which one of them at most has created; the ones that ask for the same   *)
(* as one that has succeeded meet no conflict (create()).                  *)
THEOREM IdempotencyHolds == Spec => []CreateIsIdempotent
<1>1. ASSUME IInv, NEW p \in Requests, NEW q \in Requests, p # q, SharesKey(p, q), Succeeded(p)
      PROVE  /\ Succeeded(q) => named[q] = named[p]
             /\ call[p] = call[q] => Succeeded(q) \/ answer[q] \in {"none", "unavailable"}
  <2>1. /\ call[q] # NoCall /\ call[q].op = "create" /\ call[q].key # NoKey
        /\ call[p] # NoCall /\ call[p].op = "create" /\ call[p].key # NoKey
        /\ call[p].key = call[q].key /\ call[p].owner = call[q].owner
        /\ call[q].key \in Keys
    BY <1>1, CallType DEF SharesKey, IInv, Shape
  <2>2. KeyOf(q, named[p]) /\ swarm[named[p]].asked = call[p].swarm
    BY <1>1, <2>1 DEF IInv, CreateInv, KeyOf, Succeeded
  <2>3. \A s : KeyOf(q, s) => s = named[p]
    BY <1>1, <2>1, <2>2 DEF IInv, Shape, SwarmInv, KeyOf
  <2>4. Succeeded(q) => named[q] = named[p]
    BY <1>1, <2>1, <2>3 DEF IInv, CreateInv, Succeeded
  <2>5. ASSUME call[p] = call[q] PROVE Succeeded(q) \/ answer[q] \in {"none", "unavailable"}
    <3>1. answer[q] # "IDEMPOTENCY_CONFLICT"
      BY <1>1, <2>1, <2>2, <2>3, <2>5 DEF IInv, CreateInv
    <3>2. ~TakenByOther(q)
      BY <1>1, <2>2, <2>5, Constants DEF TakenByOther, IInv, Shape, SwarmInv, KeyOf, SwarmIds
    <3>3. QED
      BY <1>1, <2>1, <3>1, <3>2 DEF IInv, CreateInv, Shape, Located, Succeeded
  <2>6. QED
    BY <2>4, <2>5
<1>2. IInv => CreateIsIdempotent
  BY <1>1 DEF CreateIsIdempotent, IInv, CreatedOnce
<1>3. QED
  BY <1>2, Invariance, PTL

(* A task that runs on beside a row that says "stopped" was missed by a    *)
(* stop that read the row without it (stopOne(), launchMachine()).         *)
THEOREM OrphansWereMissed == Spec => []NoOrphans
<1>1. IInv => NoOrphans
  BY DEF IInv, StoppedInv, Missed, NoOrphans
<1>2. QED
  BY <1>1, Invariance, PTL
=============================================================================
