--------------------- MODULE ExecutorCoordinator_proofs ---------------------
(* Theorems about ExecutorCoordinator, for every value of its constants.   *)
EXTENDS ExecutorCoordinator, FiniteSetTheorems, TLAPS

LEMMA ConstantFacts ==
  /\ ChunkCount \in Nat /\ ChunkCount >= 1
  /\ MaxChannels \in Nat /\ MaxChannels >= 1
  /\ MaxViewers \in Nat /\ MaxAge \in Nat
  /\ NoRequest \notin Requests /\ NoOperation \notin Operations
BY ConstantsAssumption DEF ConstantsAssumption

LEMMA SessionsWithoutType ==
  ASSUME sessions \in [Sockets -> SUBSET (Sockets \cup Invokes)], NEW x
  PROVE  SessionsWithout(x) \in [Sockets -> SUBSET (Sockets \cup Invokes)]
BY DEF SessionsWithout

LEMMA FinishType ==
  ASSUME TypeOK, NEW i \in Invokes, NEW code \in InvokeAnswers, Finish(i, code)
  PROVE  /\ invoke' \in [Invokes -> InvokeAnswers \cup {"none", "reading", "waiting"}]
         /\ sessions' \in [Sockets -> SUBSET (Sockets \cup Invokes)]
         /\ ephemeral' \subseteq Invokes
<1>1. invoke' = invoke \/ invoke' = [invoke EXCEPT ![i] = code]
  BY DEF Finish
<1>2. sessions' = sessions \/ sessions' = SessionsWithout(i)
  BY DEF Finish
<1>3. ephemeral' \subseteq Invokes
  BY DEF Finish, TypeOK
<1>4. sessions' \in [Sockets -> SUBSET (Sockets \cup Invokes)]
  BY <1>2, SessionsWithoutType DEF TypeOK
<1>5. QED
  BY <1>1, <1>3, <1>4 DEF TypeOK

(* Every handler keeps the types: in particular the reassembly buffer never *)
(* holds a complete frame, and no fence is stored that is not a socket's.   *)
THEOREM TypeCorrect == Spec => []TypeOK
<1> USE ConstantFacts DEF Sockets, Ages, channelVars, objectVars, routeVars, sessionVars
<1>1. Init => TypeOK
  BY DEF Init, TypeOK, Links, NoFrames
<1>2. TypeOK /\ [Next]_vars => TypeOK'
  <2> SUFFICES ASSUME TypeOK, [Next]_vars PROVE TypeOK'
    OBVIOUS
  <2> USE DEF TypeOK
  <2>1. CASE AcceptChannel
    BY <2>1 DEF AcceptChannel, RejectEphemeral, ClearFrames, NoFrames, Closing, Displaced,
                Links, InvokeAnswers
  <2>2. CASE AcceptViewer
    <3>1. accepted + 1 \in Sockets
      BY <2>2 DEF AcceptViewer
    <3>2. link' \in [Sockets -> Links]
      BY <2>2, <3>1 DEF AcceptViewer, Links
    <3>3. sessions' \in [Sockets -> SUBSET (Sockets \cup Invokes)]
      BY <2>2, <3>1 DEF AcceptViewer, Listed
    <3>4. accepted' \in 0..(MaxChannels + MaxViewers) /\ viewers' \subseteq Sockets
      BY <2>2, <3>1 DEF AcceptViewer
    <3>5. QED
      BY <2>2, <3>2, <3>3, <3>4 DEF AcceptViewer
  <2>3. CASE Tick
    BY <2>3 DEF Tick
  <2>4. CASE Restart
    BY <2>4 DEF Restart, ClearFrames, NoFrames, Links, Answers, InvokeAnswers
  <2>5. CASE Hibernate
    BY <2>5 DEF Hibernate, ClearFrames, NoFrames
  <2>6. ASSUME NEW s \in Sockets, OnHello(s) PROVE TypeOK'
    BY <2>6 DEF OnHello
  <2>7. ASSUME NEW s \in Sockets, OnEvent(s) PROVE TypeOK'
    BY <2>7 DEF OnEvent
  <2>8. ASSUME NEW s \in Sockets, FrameRefused(s) PROVE TypeOK'
    BY <2>8 DEF FrameRefused, Closing, Links
  <2>9. ASSUME NEW s \in Sockets, ChannelClosed(s) PROVE TypeOK'
    <3>1. link' \in [Sockets -> Links]
      BY <2>9 DEF ChannelClosed, Closing, Links
    <3>2. presence' \in {0} \cup Sockets /\ lastSeen' \in Ages
      BY <2>9 DEF ChannelClosed
    <3>3. invoke' \in [Invokes -> InvokeAnswers \cup {"none", "reading", "waiting"}]
      BY <2>9 DEF ChannelClosed, RejectEphemeral, InvokeAnswers
    <3>4. ephemeral' \subseteq Invokes
      BY <2>9 DEF ChannelClosed, RejectEphemeral
    <3>5. NoFrames \in [FrameIds -> 0..(ChunkCount - 1)]
      BY DEF NoFrames
    <3>6. frames' \in [Invokes -> [FrameIds -> 0..(ChunkCount - 1)]]
      BY <2>9, <3>5 DEF ChannelClosed, ClearFrames
    <3>7. /\ answer' \in [Requests -> Answers \cup {"none", "pending"}]
          /\ sessions' \in [Sockets -> SUBSET (Sockets \cup Invokes)]
      BY <2>9 DEF ChannelClosed, Answers
    <3>8. /\ routes' \in [Operations -> Requests \cup {NoRequest}]
          /\ acceptTimers' \subseteq Requests /\ resultTimers' \subseteq Requests
      BY <2>9 DEF ChannelClosed, RemoveRoutes
    <3>9. QED
      BY <2>9, <3>1, <3>2, <3>3, <3>7, <3>8, <3>4, <3>6 DEF ChannelClosed, RemoveRoutes
  <2>10. ASSUME NEW s \in Sockets, ViewerClosed(s) PROVE TypeOK'
    BY <2>10 DEF ViewerClosed, SessionsWithout, Links
  <2>11. ASSUME NEW s \in Sockets, ViewerRefused(s) PROVE TypeOK'
    BY <2>11 DEF ViewerRefused, Closing, Links
  <2>12. ASSUME NEW r \in Requests, AcceptTimeout(r) PROVE TypeOK'
    BY <2>12 DEF AcceptTimeout, RouteTimeout, RemoveRoutes, Answers
  <2>13. ASSUME NEW r \in Requests, ResultTimeout(r) PROVE TypeOK'
    BY <2>13 DEF ResultTimeout, RouteTimeout, RemoveRoutes, Answers
  <2>14. ASSUME NEW r \in Requests, StaleTimeout(r) PROVE TypeOK'
    BY <2>14 DEF StaleTimeout
  <2>15. ASSUME NEW r \in Requests, NEW o \in Operations, Dispatch(r, o) PROVE TypeOK'
    <3>1. UNCHANGED objectVars \/ Send(r, o)
      BY <2>15 DEF Dispatch, Refuse
    <3>2. routes' \in [Operations -> Requests \cup {NoRequest}]
      <4>1. routes' = routes \/ routes' = [routes EXCEPT ![o] = r]
        BY <2>15 DEF Dispatch, Refuse, Send
      <4>2. QED
        BY <4>1
    <3>3. operation' \in [Requests -> Operations \cup {NoOperation}]
      <4>1. operation' = operation \/ operation' = [operation EXCEPT ![r] = o]
        BY <3>1 DEF Send
      <4> HIDE DEF TypeOK
      <4>2. operation \in [Requests -> Operations \cup {NoOperation}]
        BY DEF TypeOK
      <4>3. QED
        BY <4>1, <4>2
    <3>4. fence' \in [Requests -> {0} \cup Sockets]
      <4>1. fence' = fence \/ fence' = [fence EXCEPT ![r] = presence]
        BY <3>1 DEF Send
      <4> HIDE DEF TypeOK
      <4>2. fence \in [Requests -> {0} \cup Sockets] /\ presence \in {0} \cup Sockets
        BY DEF TypeOK
      <4>3. QED
        BY <4>1, <4>2
    <3>5. carrier' \in [Requests -> {0} \cup Sockets]
      BY <2>15 DEF Dispatch, Refuse, Send, IsExecutorSocket, Listed
    <3>6. acceptTimers' \subseteq Requests /\ resultTimers' \subseteq Requests
      BY <2>15 DEF Dispatch, Refuse, Send, StartTimers
    <3>7. answer' \in [Requests -> Answers \cup {"none", "pending"}]
      <4>1. \E code \in Refusals \cup {"pending", "DISCONNECTED"} :
              answer' = [answer EXCEPT ![r] = code]
        BY <2>15 DEF Dispatch, Refuse, Send, Refusals
      <4> HIDE DEF TypeOK
      <4>2. answer \in [Requests -> Answers \cup {"none", "pending"}]
        BY DEF TypeOK
      <4>3. QED
        BY <4>1, <4>2 DEF Answers
    <3>8. UNCHANGED <<agreed, resultOf, reported>>
      BY <2>15 DEF Dispatch, Refuse, Send
    <3>9. QED
      BY <2>15, <3>2, <3>4, <3>5, <3>6, <3>7, <3>8, <3>3 DEF Dispatch
  <2>16. ASSUME NEW s \in Sockets, NEW r \in Requests, OnAccepted(s, r) PROVE TypeOK'
    BY <2>16 DEF OnAccepted, Answerable, ClearAcceptTimers
  <2>17. ASSUME NEW s \in Sockets, NEW r \in Requests, OnResult(s, r) PROVE TypeOK'
    BY <2>17 DEF OnResult, RemoveRoutes, Answers
  <2>18. ASSUME NEW i \in Invokes, InvokeRequest(i) PROVE TypeOK'
    BY <2>18 DEF InvokeRequest, InvokeAnswers
  <2>19. ASSUME NEW i \in Invokes, InvokeStart(i) PROVE TypeOK'
    <3>1. invoke' \in [Invokes -> InvokeAnswers \cup {"none", "reading", "waiting"}]
      BY <2>19 DEF InvokeStart, InvokeAnswers
    <3>2. sessions' \in [Sockets -> SUBSET (Sockets \cup Invokes)]
      <4>1. \/ sessions' = sessions
            \/ \E s \in Sockets : sessions' = [sessions EXCEPT ![s] = @ \cup {i}]
        BY <2>19 DEF InvokeStart, Listed
      <4>2. QED
        BY <4>1
    <3>3. ephemeral' \subseteq Invokes
      BY <2>19 DEF InvokeStart
    <3>4. QED
      BY <2>19, <3>1, <3>2, <3>3 DEF InvokeStart
  <2>20. ASSUME NEW i \in Invokes, InvokeTimeout(i) PROVE TypeOK'
    <3>1. Finish(i, "timeout")
      BY <2>20 DEF InvokeTimeout
    <3>2. /\ invoke' \in [Invokes -> InvokeAnswers \cup {"none", "reading", "waiting"}]
          /\ sessions' \in [Sockets -> SUBSET (Sockets \cup Invokes)]
          /\ ephemeral' \subseteq Invokes
      BY <3>1, FinishType DEF InvokeAnswers
    <3>3. frames' \in [Invokes -> [FrameIds -> 0..(ChunkCount - 1)]]
      BY <2>20 DEF InvokeTimeout, NoFrames
    <3>4. QED
      BY <2>20, <3>2, <3>3 DEF InvokeTimeout
  <2>21. ASSUME NEW s \in Sockets, NEW i \in Invokes, NEW f \in FrameIds,
                NEW k \in 0..(ChunkCount - 1), OnSessionFrame(s, i, f, k)
         PROVE TypeOK'
    <3>1. CASE FailSessionBudget(i)
      <4>1. /\ ephemeral' \subseteq Invokes /\ UNCHANGED sessions
            /\ invoke' = [invoke EXCEPT ![i] = "error"]
            /\ frames' = [frames EXCEPT ![i] = NoFrames]
        BY <3>1 DEF FailSessionBudget
      <4>2. invoke' \in [Invokes -> InvokeAnswers \cup {"none", "reading", "waiting"}]
        BY <4>1 DEF InvokeAnswers
      <4>3. frames' \in [Invokes -> [FrameIds -> 0..(ChunkCount - 1)]]
        BY <4>1 DEF NoFrames
      <4>4. QED
        BY <2>21, <4>1, <4>2, <4>3 DEF OnSessionFrame
    <3>2. CASE frames' = [frames EXCEPT ![i][f] = Received(k)]
      <4>1. Received(k) \in 0..(ChunkCount - 1)
        BY DEF Received
      <4>2. frames' \in [Invokes -> [FrameIds -> 0..(ChunkCount - 1)]]
        BY <3>2, <4>1
      <4>3. QED
        <5>1. CASE Finish(i, "result")
          <6>1. /\ invoke' \in [Invokes -> InvokeAnswers \cup {"none", "reading", "waiting"}]
                /\ sessions' \in [Sockets -> SUBSET (Sockets \cup Invokes)]
                /\ ephemeral' \subseteq Invokes
            BY <5>1, FinishType DEF InvokeAnswers
          <6>2. QED
            BY <2>21, <4>2, <6>1 DEF OnSessionFrame
        <5>2. CASE UNCHANGED <<sessions, invoke, ephemeral>>
          BY <2>21, <4>2, <5>2 DEF OnSessionFrame
        <5>3. QED
          BY <2>21, <3>1, <5>1, <5>2 DEF OnSessionFrame
    <3>3. QED
      BY <2>21, <3>1, <3>2 DEF OnSessionFrame
  <2>22. ASSUME NEW s \in Sockets, NEW x \in Sockets \cup Invokes, OnSessionClose(s, x)
         PROVE TypeOK'
    BY <2>22 DEF OnSessionClose, Closing, NoFrames, Links, InvokeAnswers
  <2>23. CASE UNCHANGED vars
    BY <2>23 DEF vars
  <2>24. QED
    BY <2>1, <2>2, <2>3, <2>4, <2>5, <2>6, <2>7, <2>8, <2>9, <2>10, <2>11, <2>12, <2>13,
       <2>15, <2>16, <2>17, <2>18, <2>19, <2>20, <2>21, <2>22, <2>23, <2>14 DEF Next
<1>3. QED
  BY <1>1, <1>2, PTL DEF Spec
-----------------------------------------------------------------------------
(* The strengthening for the two channel invariants: sockets are numbered  *)
(* in the order they are accepted, no socket is both a channel and a       *)
(* viewer, and every stored fence is one of a channel that was accepted.   *)
SocketOrder ==
  /\ executors \cup viewers \subseteq 1..accepted
  /\ executors \cap viewers = {}
  /\ presence \in {0} \cup executors
  /\ \A r \in Requests : fence[r] \in {0} \cup executors

(* A step other than an upgrade accepts no socket and opens none.          *)
ClosesOnly ==
  /\ UNCHANGED <<accepted, executors, viewers>>
  /\ \A s \in Sockets : link'[s] = "open" => link[s] = "open"

LEMMA OnlyUpgradesOpen ==
  ASSUME TypeOK, [Next]_vars, ~AcceptChannel, ~AcceptViewer
  PROVE  ClosesOnly
<1> USE DEF TypeOK, ClosesOnly, channelVars
<1>1. CASE Tick
  BY <1>1 DEF Tick
<1>2. CASE Restart
  BY <1>2 DEF Restart
<1>3. CASE Hibernate
  BY <1>3 DEF Hibernate
<1>4. ASSUME NEW s \in Sockets,
             \/ OnHello(s) \/ OnEvent(s) \/ FrameRefused(s) \/ ChannelClosed(s)
             \/ ViewerClosed(s) \/ ViewerRefused(s)
      PROVE  ClosesOnly
  BY <1>4 DEF OnHello, OnEvent, FrameRefused, ChannelClosed, ViewerClosed, ViewerRefused, Closing
<1>5. ASSUME NEW r \in Requests, AcceptTimeout(r) \/ ResultTimeout(r) \/ StaleTimeout(r)
      PROVE  ClosesOnly
  BY <1>5 DEF AcceptTimeout, ResultTimeout, RouteTimeout, StaleTimeout
<1>6. ASSUME NEW r \in Requests, NEW o \in Operations, Dispatch(r, o) PROVE ClosesOnly
  BY <1>6 DEF Dispatch
<1>7. ASSUME NEW s \in Sockets, NEW r \in Requests, OnAccepted(s, r) \/ OnResult(s, r)
      PROVE  ClosesOnly
  BY <1>7 DEF OnAccepted, OnResult
<1>8. ASSUME NEW i \in Invokes, InvokeRequest(i) \/ InvokeStart(i) \/ InvokeTimeout(i)
      PROVE  ClosesOnly
  BY <1>8 DEF InvokeRequest, InvokeStart, InvokeTimeout
<1>9. ASSUME NEW s \in Sockets, NEW i \in Invokes, NEW f \in FrameIds,
             NEW k \in 0..(ChunkCount - 1), OnSessionFrame(s, i, f, k)
      PROVE  ClosesOnly
  BY <1>9 DEF OnSessionFrame
<1>10. ASSUME NEW s \in Sockets, NEW x \in Sockets \cup Invokes, OnSessionClose(s, x)
       PROVE  ClosesOnly
  BY <1>10 DEF OnSessionClose, Closing
<1>11. CASE UNCHANGED vars
  BY <1>11 DEF vars
<1>12. QED
  BY <1>1, <1>2, <1>3, <1>4, <1>5, <1>6, <1>7, <1>8, <1>9, <1>10, <1>11 DEF Next

(* One step keeps the numbering of the sockets.                            *)
LEMMA SocketOrderStep == TypeOK /\ SocketOrder /\ [Next]_vars => SocketOrder'
<1> SUFFICES ASSUME TypeOK, SocketOrder, [Next]_vars PROVE SocketOrder'
  OBVIOUS
<1> USE DEF TypeOK, SocketOrder
<1>1. \/ UNCHANGED <<presence, fence>>
      \/ presence' \in {0} \cup executors /\ UNCHANGED fence
      \/ UNCHANGED presence /\ \A r \in Requests : fence'[r] \in {fence[r], presence}
  <2> USE DEF channelVars, routeVars, objectVars
  <2>1. ASSUME NEW s \in Sockets, OnHello(s) PROVE presence' \in {0} \cup executors /\ UNCHANGED fence
    BY <2>1 DEF OnHello, Listed
  <2>2. ASSUME NEW s \in Sockets, ChannelClosed(s) PROVE presence' \in {0} \cup executors /\ UNCHANGED fence
    BY <2>2 DEF ChannelClosed, RemoveRoutes
  <2>3. ASSUME NEW r \in Requests, NEW o \in Operations, Dispatch(r, o)
        PROVE UNCHANGED presence /\ \A q \in Requests : fence'[q] \in {fence[q], presence}
    <3>1. UNCHANGED fence \/ fence' = [fence EXCEPT ![r] = presence]
      BY <2>3 DEF Dispatch, Refuse, Send
    <3>2. QED
      BY <2>3, <3>1 DEF Dispatch
  <2>4. CASE UNCHANGED vars
    BY <2>4 DEF vars
  <2>5. ASSUME NEW s \in Sockets, OnEvent(s) \/ FrameRefused(s) \/ ViewerClosed(s) \/ ViewerRefused(s)
        PROVE UNCHANGED <<presence, fence>>
    BY <2>5 DEF OnEvent, FrameRefused, ViewerClosed, ViewerRefused
  <2>6. ASSUME AcceptChannel \/ AcceptViewer \/ Tick \/ Restart \/ Hibernate
        PROVE UNCHANGED <<presence, fence>>
    BY <2>6 DEF AcceptChannel, AcceptViewer, Tick, Restart, Hibernate
  <2>7. ASSUME NEW r \in Requests, AcceptTimeout(r) \/ ResultTimeout(r) \/ StaleTimeout(r)
        PROVE UNCHANGED <<presence, fence>>
    BY <2>7 DEF AcceptTimeout, ResultTimeout, RouteTimeout, StaleTimeout, RemoveRoutes
  <2>8. ASSUME NEW s \in Sockets, NEW r \in Requests, OnAccepted(s, r) \/ OnResult(s, r)
        PROVE UNCHANGED <<presence, fence>>
    BY <2>8 DEF OnAccepted, OnResult, RemoveRoutes
  <2>9. ASSUME NEW i \in Invokes, InvokeRequest(i) \/ InvokeStart(i) \/ InvokeTimeout(i)
        PROVE UNCHANGED <<presence, fence>>
    BY <2>9 DEF InvokeRequest, InvokeStart, InvokeTimeout
  <2>10. ASSUME NEW s \in Sockets, NEW i \in Invokes, NEW f \in FrameIds,
                NEW k \in 0..(ChunkCount - 1), OnSessionFrame(s, i, f, k)
         PROVE UNCHANGED <<presence, fence>>
    BY <2>10 DEF OnSessionFrame
  <2>11. ASSUME NEW s \in Sockets, NEW x \in Sockets \cup Invokes, OnSessionClose(s, x)
         PROVE UNCHANGED <<presence, fence>>
    BY <2>11 DEF OnSessionClose
  <2>12. QED
    BY <2>1, <2>2, <2>3, <2>4, <2>5, <2>6, <2>7, <2>8, <2>9, <2>10, <2>11 DEF Next
<1>2. presence' \in {0} \cup executors /\ \A r \in Requests : fence'[r] \in {0} \cup executors
  BY <1>1
<1>3. CASE AcceptChannel
  BY <1>2, <1>3 DEF AcceptChannel
<1>4. CASE AcceptViewer
  BY <1>2, <1>4 DEF AcceptViewer
<1>5. CASE ~AcceptChannel /\ ~AcceptViewer
  BY <1>2, <1>5, OnlyUpgradesOpen DEF ClosesOnly
<1>6. QED
  BY <1>3, <1>4, <1>5

THEOREM SocketsInOrder == Spec => []SocketOrder
<1>1. Init => SocketOrder
  BY DEF Init, SocketOrder
<1>2. QED
  BY <1>1, TypeCorrect, SocketOrderStep, PTL DEF Spec

(* acceptChannel() closes every other socket and numbers grow, so an open  *)
(* channel is the newest one, and an open viewer was accepted after it.    *)
THEOREM NewestChannelOnly == Spec => [](SingleChannel /\ ViewerOnNewestChannel)
<1> DEFINE Newest == SingleChannel /\ ViewerOnNewestChannel
<1>1. Init => Newest
  BY DEF Init, SingleChannel, ViewerOnNewestChannel
<1>2. TypeOK /\ SocketOrder /\ Newest /\ [Next]_vars => Newest'
  <2> SUFFICES ASSUME TypeOK, SocketOrder, Newest, [Next]_vars PROVE Newest'
    OBVIOUS
  <2> USE DEF SingleChannel, ViewerOnNewestChannel, TypeOK, SocketOrder
  <2>0. accepted \in Nat /\ \A s \in executors \cup viewers : s \in Nat /\ s < accepted + 1
    BY ConstantFacts DEF Sockets
  <2>1. CASE AcceptChannel
    <3>1. \A s \in Sockets : s # accepted + 1 => link'[s] # "open"
      BY <2>1 DEF AcceptChannel, Closing, Displaced
    <3>2. executors' = executors \cup {accepted + 1} /\ viewers' = viewers
      BY <2>1 DEF AcceptChannel
    <3>3. SingleChannel'
      BY <2>0, <3>1, <3>2
    <3>4. ViewerOnNewestChannel'
      BY <2>0, <3>1, <3>2
    <3>5. QED
      BY <3>3, <3>4
  <2>2. CASE AcceptViewer
    <3>1. \A s \in Sockets : s # accepted + 1 => link'[s] = link[s]
      BY <2>2 DEF AcceptViewer
    <3>2. executors' = executors /\ viewers' = viewers \cup {accepted + 1}
      BY <2>2 DEF AcceptViewer
    <3>3. SingleChannel'
      BY <2>0, <3>1, <3>2
    <3>4. ViewerOnNewestChannel'
      BY <2>0, <3>1, <3>2
    <3>5. QED
      BY <3>3, <3>4
  <2>3. CASE ~AcceptChannel /\ ~AcceptViewer
    BY <2>3, OnlyUpgradesOpen DEF ClosesOnly
  <2>4. QED
    BY <2>1, <2>2, <2>3
<1>3. QED
  BY <1>1, <1>2, TypeCorrect, SocketsInOrder, PTL DEF Spec
-----------------------------------------------------------------------------
(* The strengthening for the routes: a command on its way, and a running   *)
(* timer, name an operation, and a registered route has a record's fence.  *)
RouteShape ==
  /\ \A r \in Requests :
       carrier[r] # 0 \/ r \in acceptTimers \cup resultTimers => operation[r] \in Operations
  /\ \A o \in Operations : routes[o] # NoRequest => fence[routes[o]] # 0

RouteInv == PendingIsRouted /\ RouteShape

(* removeRoute() together with an answer for each call whose route goes.   *)
LEMMA RemovedRoutes ==
  ASSUME TypeOK, RouteInv, NEW S \in SUBSET Requests,
         \A r \in S : \E o \in Operations : routes[o] = r,
         RemoveRoutes(S),
         \A r \in Requests : answer'[r] = "pending" <=> r \notin S /\ answer[r] = "pending"
  PROVE  RouteInv'
<1> USE ConstantFacts DEF TypeOK, RouteInv, PendingIsRouted, RouteShape
<1>1. UNCHANGED <<operation, fence, carrier, agreed>>
  BY DEF RemoveRoutes, objectVars
<1>2. \A o \in Operations : routes[o] \in Requests \cup {NoRequest}
  OBVIOUS
<1>3. \A r \in S : operation[r] \in Operations /\ routes[operation[r]] = r
  OBVIOUS
<1>4. \A o \in Operations :
        routes'[o] # NoRequest => routes'[o] = routes[o] /\ \A r \in S : operation[r] # o
  BY DEF RemoveRoutes
<1>5. ASSUME NEW o \in Operations, routes'[o] # NoRequest
      PROVE  answer'[routes'[o]] = "pending" /\ operation'[routes'[o]] = o
  BY <1>1, <1>2, <1>4, <1>5
<1>6. ASSUME NEW r \in Requests, answer'[r] = "pending"
      PROVE  /\ operation'[r] \in Operations /\ routes'[operation'[r]] = r
             /\ r \in resultTimers'
             /\ r \in agreed' \cup acceptTimers'
  <2>1. r \notin S /\ answer[r] = "pending" /\ operation[r] \in Operations
          /\ routes[operation[r]] = r
    BY <1>6
  <2>2. \A q \in S : operation[q] # operation[r]
    BY <2>1, <1>3, <1>2
  <2>3. routes'[operation[r]] = r
    BY <2>1, <2>2 DEF RemoveRoutes
  <2>4. QED
    BY <1>1, <2>1, <2>3 DEF RemoveRoutes
<1>7. RouteShape'
  BY <1>1, <1>4 DEF RemoveRoutes
<1>8. QED
  BY <1>5, <1>6, <1>7

LEMMA RouteStep == TypeOK /\ RouteInv /\ [Next]_vars => RouteInv'
<1> SUFFICES ASSUME TypeOK, RouteInv, [Next]_vars PROVE RouteInv'
  OBVIOUS
<1>0. UNCHANGED routeVars => RouteInv'
  BY DEF RouteInv, PendingIsRouted, RouteShape, routeVars, objectVars
<1> USE ConstantFacts
<1>1. CASE AcceptChannel \/ AcceptViewer \/ Tick \/ UNCHANGED vars
  BY <1>0, <1>1 DEF AcceptChannel, AcceptViewer, Tick, vars
<1>2. CASE Restart
  BY <1>2 DEF Restart, RouteInv, PendingIsRouted, RouteShape, objectVars, TypeOK
<1>3. CASE Hibernate
  <2>1. \A r \in Requests : answer[r] # "pending"
    BY <1>3 DEF Hibernate, RouteInv, PendingIsRouted, RouteShape, TypeOK
  <2>2. QED
    BY <1>3, <2>1 DEF Hibernate, RouteInv, PendingIsRouted, RouteShape, objectVars, TypeOK
<1>4. ASSUME NEW s \in Sockets,
             OnHello(s) \/ OnEvent(s) \/ FrameRefused(s) \/ ViewerClosed(s) \/ ViewerRefused(s)
      PROVE  RouteInv'
  BY <1>0, <1>4 DEF OnHello, OnEvent, FrameRefused, ViewerClosed, ViewerRefused
<1>5. ASSUME NEW s \in Sockets, ChannelClosed(s) PROVE RouteInv'
  <2>1. RemoveRoutes(RoutesOf(s))
    BY <1>5 DEF ChannelClosed
  <2>2. \A r \in Requests :
          answer'[r] = "pending" <=> r \notin RoutesOf(s) /\ answer[r] = "pending"
    BY <1>5 DEF ChannelClosed
  <2>3. \A r \in RoutesOf(s) : \E o \in Operations : routes[o] = r
    BY DEF RoutesOf
  <2>4. QED
    BY <2>1, <2>2, <2>3, RemovedRoutes DEF RoutesOf
<1>6. ASSUME NEW r \in Requests, RouteTimeout(r, "EXECUTOR_ACCEPT_TIMEOUT")
               \/ RouteTimeout(r, "DEADLINE_EXCEEDED"),
             r \in acceptTimers \cup resultTimers
      PROVE  RouteInv'
  <2>1. RemoveRoutes({r}) /\ Registered(r)
    BY <1>6 DEF RouteTimeout
  <2>2. PICK o \in Operations : routes[o] = r
    BY <2>1, <1>6 DEF RouteInv, RouteShape, Registered
  <2>3. \A q \in Requests : answer'[q] = "pending" <=> q \notin {r} /\ answer[q] = "pending"
    BY <1>6 DEF RouteTimeout, TypeOK
  <2>4. QED
    BY <2>1, <2>2, <2>3, RemovedRoutes
<1>7. ASSUME NEW r \in Requests, StaleTimeout(r) PROVE RouteInv'
  BY <1>7 DEF StaleTimeout, RouteInv, PendingIsRouted, RouteShape, Registered, objectVars
<1>8. ASSUME NEW r \in Requests, NEW o \in Operations, Dispatch(r, o) PROVE RouteInv'
  <2> USE DEF TypeOK, RouteInv, PendingIsRouted, RouteShape, Registered, objectVars
  <2>1. answer[r] = "none" /\ \A p \in Operations : routes[p] # r
    BY <1>8 DEF Dispatch
  <2>2. ASSUME NEW code \in Refusals, Refuse(r, code) PROVE RouteInv'
    BY <2>1, <2>2 DEF Refuse, Refusals
  <2>3. ASSUME Send(r, o), Online, routes[o] = NoRequest PROVE RouteInv'
    <3>1. presence # 0
      BY <2>3 DEF Online, PresenceState, Younger, LiveAge
    <3>2. PICK s \in Listed : Send(r, o)!(s)
      BY <2>3 DEF Send
    <3>3. \A q \in Requests : q # r => operation'[q] = operation[q] /\ fence'[q] = fence[q]
      BY <3>2
    <3>4. operation'[r] = o /\ fence'[r] = presence
      BY <3>2
    <3>5. CASE link[s] = "open"
      <4>1. routes' = [routes EXCEPT ![o] = r] /\ carrier' = [carrier EXCEPT ![r] = s]
            /\ StartTimers(r) /\ answer' = [answer EXCEPT ![r] = "pending"] /\ UNCHANGED agreed
        BY <3>2, <3>5
      <4>2. PendingIsRouted'
        BY <2>1, <2>3, <3>3, <3>4, <4>1 DEF StartTimers
      <4>3. RouteShape'
        BY <2>1, <2>3, <3>1, <3>3, <3>4, <4>1 DEF StartTimers
      <4>4. QED
        BY <4>2, <4>3
    <3>6. CASE link[s] = "closing"
      <4>1. /\ UNCHANGED <<routes, carrier, acceptTimers, agreed>>
            /\ resultTimers' = resultTimers \cup {r}
            /\ answer' = [answer EXCEPT ![r] = "DISCONNECTED"]
        BY <3>2, <3>6
      <4>2. QED
        BY <2>1, <3>3, <3>4, <4>1
    <3>7. QED
      BY <3>2, <3>5, <3>6
  <2>4. QED
    BY <1>8, <2>2, <2>3 DEF Dispatch, Refusals
<1>9. ASSUME NEW s \in Sockets, NEW r \in Requests, OnAccepted(s, r) PROVE RouteInv'
  BY <1>9 DEF OnAccepted, ClearAcceptTimers, RouteInv, PendingIsRouted, RouteShape,
              objectVars
<1>10. ASSUME NEW s \in Sockets, NEW r \in Requests, OnResult(s, r) PROVE RouteInv'
  <2>1. RemoveRoutes(Answerable(s, r))
    BY <1>10 DEF OnResult
  <2>2. \A q \in Requests :
          answer'[q] = "pending" <=> q \notin Answerable(s, r) /\ answer[q] = "pending"
    BY <1>10 DEF OnResult
  <2>3. operation[r] \in Operations
    BY <1>10 DEF OnResult, Working, RouteInv, RouteShape, Sockets
  <2>4. \A q \in Answerable(s, r) : \E o \in Operations : routes[o] = q
    BY <2>3 DEF Answerable
  <2>5. QED
    BY <2>1, <2>2, <2>4, RemovedRoutes DEF Answerable
<1>11. ASSUME NEW i \in Invokes, InvokeRequest(i) \/ InvokeStart(i) \/ InvokeTimeout(i)
       PROVE  RouteInv'
  BY <1>0, <1>11 DEF InvokeRequest, InvokeStart, InvokeTimeout
<1>12. ASSUME NEW s \in Sockets, NEW i \in Invokes, NEW f \in FrameIds,
              NEW k \in 0..(ChunkCount - 1), OnSessionFrame(s, i, f, k)
       PROVE  RouteInv'
  BY <1>0, <1>12 DEF OnSessionFrame
<1>13. ASSUME NEW s \in Sockets, NEW x \in Sockets \cup Invokes, OnSessionClose(s, x)
       PROVE  RouteInv'
  BY <1>0, <1>13 DEF OnSessionClose
<1>14. QED
  BY <1>1, <1>2, <1>3, <1>4, <1>5, <1>6, <1>7, <1>8, <1>9, <1>10, <1>11, <1>12, <1>13
  DEF Next, AcceptTimeout, ResultTimeout

(* Whatever removes a route answers its call, and nothing else does: no    *)
(* caller of dispatch() waits without a registered route and a timer.      *)
THEOREM NoCallLost == Spec => []PendingIsRouted
<1>1. Init => RouteInv
  BY ConstantFacts DEF Init, RouteInv, PendingIsRouted, RouteShape
<1>2. RouteInv => PendingIsRouted
  BY DEF RouteInv
<1>3. QED
  BY <1>1, <1>2, TypeCorrect, RouteStep, PTL DEF Spec

(* webSocketClose() of a channel takes the record and the routes of its    *)
(* fence with it, whichever steps came before.                             *)
THEOREM NothingLeftBehind == Spec => []NothingOnClosedChannel
<1>1. Init => RouteInv
  BY ConstantFacts DEF Init, RouteInv, PendingIsRouted, RouteShape
<1>2. Init => NothingOnClosedChannel
  BY DEF Init, NothingOnClosedChannel
<1>3. TypeOK /\ SocketOrder /\ RouteInv /\ NothingOnClosedChannel /\ [Next]_vars
        => NothingOnClosedChannel'
  <2> SUFFICES ASSUME TypeOK, SocketOrder, RouteInv, NothingOnClosedChannel, [Next]_vars
               PROVE  NothingOnClosedChannel'
    OBVIOUS
  <2> USE ConstantFacts DEF TypeOK
  <2>0. \A o \in Operations :
          routes[o] # NoRequest =>
            /\ routes[o] \in Requests /\ operation[routes[o]] = o
            /\ fence[routes[o]] \in Sockets \cap executors
            /\ link[fence[routes[o]]] # "closed"
    BY DEF RouteInv, RouteShape, PendingIsRouted, SocketOrder, NothingOnClosedChannel
  <2> DEFINE Quiet ==
        /\ presence' \in {0, presence}
        /\ UNCHANGED fence
        /\ \A o \in Operations : routes'[o] \in {NoRequest, routes[o]}
        /\ \A s \in Sockets : link'[s] = "closed" => link[s] = "closed"
  <2>1. ASSUME Quiet PROVE NothingOnClosedChannel'
    BY <2>0, <2>1 DEF NothingOnClosedChannel
  <2> USE DEF channelVars, routeVars, objectVars
  <2>2. CASE AcceptChannel \/ AcceptViewer
    BY <2>1, <2>2 DEF AcceptChannel, AcceptViewer, Closing
  <2>3. CASE Tick \/ Restart \/ Hibernate \/ UNCHANGED vars
    BY <2>1, <2>3 DEF Tick, Restart, Hibernate, vars
  <2>4. ASSUME NEW s \in Sockets, OnHello(s) PROVE NothingOnClosedChannel'
    BY <2>0, <2>4 DEF OnHello, Listed, NothingOnClosedChannel
  <2>5. ASSUME NEW s \in Sockets, OnEvent(s) \/ FrameRefused(s) \/ ViewerRefused(s)
        PROVE  Quiet
    BY <2>5 DEF OnEvent, FrameRefused, ViewerRefused, Closing
  <2>6. ASSUME NEW s \in Sockets, ViewerClosed(s) PROVE NothingOnClosedChannel'
    <3>1. \A t \in Sockets : link'[t] = "closed" => link[t] = "closed" \/ t \in viewers
      BY <2>6 DEF ViewerClosed
    <3>2. UNCHANGED <<presence, routes, fence>>
      BY <2>6 DEF ViewerClosed
    <3>3. QED
      BY <2>0, <3>1, <3>2 DEF NothingOnClosedChannel, SocketOrder
  <2>7. ASSUME NEW s \in Sockets, ChannelClosed(s) PROVE NothingOnClosedChannel'
    <3>1. \A t \in Sockets : link'[t] = "closed" => link[t] = "closed" \/ t = s
      BY <2>7 DEF ChannelClosed, Closing
    <3>2. presence' # 0 => presence' = presence /\ presence # s
      BY <2>7 DEF ChannelClosed, OwnsPresence
    <3>3. UNCHANGED fence
      BY <2>7 DEF ChannelClosed, RemoveRoutes
    <3>4. \A o \in Operations :
            routes'[o] # NoRequest => routes'[o] = routes[o] /\ fence[routes[o]] # s
      BY <2>0, <2>7 DEF ChannelClosed, RemoveRoutes, RoutesOf
    <3>5. QED
      BY <2>0, <3>1, <3>2, <3>3, <3>4 DEF NothingOnClosedChannel
  <2>8. ASSUME NEW r \in Requests, AcceptTimeout(r) \/ ResultTimeout(r) \/ StaleTimeout(r)
        PROVE  Quiet
    BY <2>8 DEF AcceptTimeout, ResultTimeout, RouteTimeout, StaleTimeout, RemoveRoutes
  <2>9. ASSUME NEW r \in Requests, NEW o \in Operations, Dispatch(r, o)
        PROVE  NothingOnClosedChannel'
    <3>1. UNCHANGED <<link, presence>>
      BY <2>9 DEF Dispatch
    <3>2. CASE UNCHANGED <<routes, fence>>
      BY <2>0, <3>1, <3>2 DEF NothingOnClosedChannel
    <3>3. CASE Online /\ Send(r, o)
      <4>1. presence \in Sockets /\ link[presence] # "closed"
        BY <3>3 DEF Online, PresenceState, Younger, LiveAge, NothingOnClosedChannel
      <4>2. \A p \in Operations : routes'[p] \in {routes[p], r}
        BY <3>3 DEF Send
      <4>3. fence' = [fence EXCEPT ![r] = presence]
        BY <3>3 DEF Send
      <4>4. \A p \in Operations : routes'[p] # NoRequest => link[fence'[routes'[p]]] # "closed"
        BY <2>0, <4>1, <4>2, <4>3
      <4>5. QED
        BY <3>1, <4>1, <4>4 DEF NothingOnClosedChannel
    <3>4. QED
      BY <2>9, <3>2, <3>3 DEF Dispatch, Refuse
  <2>10. ASSUME NEW s \in Sockets, NEW r \in Requests, OnAccepted(s, r) \/ OnResult(s, r)
         PROVE  Quiet
    BY <2>10 DEF OnAccepted, OnResult, RemoveRoutes
  <2>11. ASSUME NEW i \in Invokes, InvokeRequest(i) \/ InvokeStart(i) \/ InvokeTimeout(i)
         PROVE  Quiet
    BY <2>11 DEF InvokeRequest, InvokeStart, InvokeTimeout
  <2>12. ASSUME NEW s \in Sockets, NEW i \in Invokes, NEW f \in FrameIds,
                NEW k \in 0..(ChunkCount - 1), OnSessionFrame(s, i, f, k)
         PROVE  Quiet
    BY <2>12 DEF OnSessionFrame
  <2>13. ASSUME NEW s \in Sockets, NEW x \in Sockets \cup Invokes, OnSessionClose(s, x)
         PROVE  Quiet
    BY <2>13 DEF OnSessionClose, Closing
  <2>14. QED
    BY <2>1, <2>2, <2>3, <2>4, <2>5, <2>6, <2>7, <2>8, <2>9, <2>10, <2>11, <2>12, <2>13 DEF Next
<1>4. QED
  BY <1>1, <1>2, <1>3, TypeCorrect, SocketsInOrder, RouteStep, PTL DEF Spec
-----------------------------------------------------------------------------
(* The refinement: how far a call got agrees with its timers, and the      *)
(* limit tested by dispatch() bounds the registered routes.                *)
Occupied == {o \in Operations : routes[o] # NoRequest}

CallInv ==
  /\ \A r \in Requests : answer[r] = "none" => r \notin agreed
  /\ agreed \cap acceptTimers = {}
  /\ Cardinality(Occupied) <= MaxRoutes

(* What a step may do to the calls: one rule per way a call can change.    *)
CallMoves ==
  /\ \A r \in Requests : Contract!Move(r) \/ CallStatus'[r] = CallStatus[r]
  /\ \A r \in Requests : answer[r] = "pending" => operation'[r] = operation[r]

LEMMA OccupiedFinite == IsFiniteSet(Operations) /\ MaxRoutes \in Nat /\ MaxRoutes >= 1
BY ConstantsAssumption DEF ConstantsAssumption

LEMMA FewerOccupied ==
  ASSUME NEW A \in SUBSET Operations, NEW B \in SUBSET A, Cardinality(A) <= MaxRoutes
  PROVE  Cardinality(B) <= MaxRoutes
<1>1. IsFiniteSet(A)
  BY OccupiedFinite, FS_Subset
<1>2. Cardinality(B) <= Cardinality(A) /\ IsFiniteSet(B)
  BY <1>1, FS_Subset
<1>3. Cardinality(A) \in Nat /\ Cardinality(B) \in Nat
  BY <1>1, <1>2, FS_CardinalityType
<1>4. QED
  BY <1>2, <1>3, OccupiedFinite

(* Routes that only go away leave the limit kept.                          *)
LEMMA RoutesOnlyGo ==
  ASSUME CallInv, \A o \in Operations : routes'[o] \in {NoRequest, routes[o]}
  PROVE  Cardinality(Occupied') <= MaxRoutes
<1>1. Occupied' \subseteq Occupied /\ Occupied \subseteq Operations
  BY DEF Occupied
<1>2. QED
  BY <1>1, FewerOccupied DEF CallInv

LEMMA CallStep ==
  TypeOK /\ RouteInv /\ CallInv /\ [Next]_vars => CallInv' /\ CallMoves
<1> SUFFICES ASSUME TypeOK, RouteInv, CallInv, [Next]_vars PROVE CallInv' /\ CallMoves
  OBVIOUS
<1> USE ConstantFacts
<1> DEFINE Goal == CallInv' /\ CallMoves
<1>a. \A r \in Requests :
        CallStatus[r] = IF answer[r] = "none" THEN "idle"
                        ELSE IF answer[r] # "pending" THEN answer[r]
                        ELSE IF r \in agreed THEN "accepted" ELSE "sent"
  BY DEF CallStatus
<1>b. \A r \in Requests :
        CallStatus'[r] = IF answer'[r] = "none" THEN "idle"
                         ELSE IF answer'[r] # "pending" THEN answer'[r]
                         ELSE IF r \in agreed' THEN "accepted" ELSE "sent"
  BY DEF CallStatus
<1>0. ASSUME UNCHANGED routeVars PROVE Goal
  <2>1. CallInv'
    BY <1>0 DEF CallInv, Occupied, routeVars
  <2>2. CallMoves
    BY <1>0, <1>a, <1>b DEF CallMoves, routeVars, objectVars
  <2>3. QED
    BY <2>1, <2>2
<1>1. CASE AcceptChannel \/ AcceptViewer \/ Tick \/ UNCHANGED vars
  BY <1>0, <1>1 DEF AcceptChannel, AcceptViewer, Tick, vars
<1>2. ASSUME NEW s \in Sockets,
             OnHello(s) \/ OnEvent(s) \/ FrameRefused(s) \/ ViewerClosed(s) \/ ViewerRefused(s)
      PROVE  Goal
  BY <1>0, <1>2 DEF OnHello, OnEvent, FrameRefused, ViewerClosed, ViewerRefused
<1>3. ASSUME NEW i \in Invokes, InvokeRequest(i) \/ InvokeStart(i) \/ InvokeTimeout(i)
      PROVE  Goal
  BY <1>0, <1>3 DEF InvokeRequest, InvokeStart, InvokeTimeout
<1>4. ASSUME NEW s \in Sockets, NEW i \in Invokes, NEW f \in FrameIds,
             NEW k \in 0..(ChunkCount - 1), OnSessionFrame(s, i, f, k)
      PROVE  Goal
  BY <1>0, <1>4 DEF OnSessionFrame
<1>5. ASSUME NEW s \in Sockets, NEW x \in Sockets \cup Invokes, OnSessionClose(s, x)
      PROVE  Goal
  BY <1>0, <1>5 DEF OnSessionClose
<1> USE DEF TypeOK
<1>6. ASSUME UNCHANGED <<operation, agreed>>,
             \A o \in Operations : routes'[o] \in {NoRequest, routes[o]},
             acceptTimers' \subseteq acceptTimers,
             \A r \in Requests : \/ answer'[r] = answer[r]
                                 \/ answer[r] = "pending" /\ Contract!Move(r)
      PROVE  Goal
  <2>1. CallInv'
    <3>1. \A r \in Requests : answer'[r] = "none" => answer[r] = "none"
      BY <1>6, <1>a, <1>b DEF Contract!Move, Contract!Moves
    <3>2. QED
      BY <1>6, <3>1, RoutesOnlyGo DEF CallInv
  <2>2. CallMoves
    BY <1>6, <1>a, <1>b DEF CallMoves
  <2>3. QED
    BY <2>1, <2>2
<1>7. CASE Restart
  BY <1>6, <1>7, <1>a, <1>b DEF Restart, objectVars, Contract!Move, Contract!Moves
<1>8. CASE Hibernate
  BY <1>6, <1>8 DEF Hibernate, objectVars
<1>9. ASSUME NEW s \in Sockets, ChannelClosed(s) PROVE Goal
  <2>1. \A r \in RoutesOf(s) : answer[r] = "pending"
    BY DEF RoutesOf, RouteInv, PendingIsRouted
  <2>2. \A r \in Requests : \/ answer'[r] = answer[r]
                            \/ answer[r] = "pending" /\ Contract!Move(r)
    BY <1>9, <2>1, <1>a, <1>b
    DEF ChannelClosed, RemoveRoutes, Contract!Move, Contract!Moves
  <2>3. QED
    BY <1>6, <1>9, <2>2 DEF ChannelClosed, RemoveRoutes, objectVars
<1>10. ASSUME NEW r \in Requests, AcceptTimeout(r) \/ ResultTimeout(r) PROVE Goal
  <2>1. answer[r] = "pending"
    BY <1>10 DEF AcceptTimeout, ResultTimeout, RouteTimeout, Registered, RouteInv, RouteShape,
                 PendingIsRouted
  <2>2. \A q \in Requests : \/ answer'[q] = answer[q]
                            \/ answer[q] = "pending" /\ Contract!Move(q)
    BY <1>10, <2>1, <1>a, <1>b
    DEF AcceptTimeout, ResultTimeout, RouteTimeout, RemoveRoutes, CallInv, Contract!Move,
        Contract!Moves
  <2>3. QED
    BY <1>6, <1>10, <2>2 DEF AcceptTimeout, ResultTimeout, RouteTimeout, RemoveRoutes, objectVars
<1>11. ASSUME NEW r \in Requests, StaleTimeout(r) PROVE Goal
  BY <1>6, <1>11 DEF StaleTimeout, objectVars
<1>12. ASSUME NEW s \in Sockets, NEW r \in Requests, OnAccepted(s, r) PROVE Goal
  <2>1. \A q \in Answerable(s, r) : answer[q] = "pending"
    BY <1>12 DEF OnAccepted, Working, Answerable, RouteInv, RouteShape, PendingIsRouted, Sockets
  <2>2. CallInv'
    BY <1>12, <2>1, RoutesOnlyGo DEF OnAccepted, ClearAcceptTimers, CallInv
  <2>3. CallMoves
    BY <1>12, <2>1, <1>a, <1>b
    DEF OnAccepted, CallMoves, objectVars, Contract!Move, Contract!Moves
  <2>4. QED
    BY <2>2, <2>3
<1>13. ASSUME NEW s \in Sockets, NEW r \in Requests, OnResult(s, r) PROVE Goal
  <2>1. \A q \in Answerable(s, r) : answer[q] = "pending"
    BY <1>13 DEF OnResult, Working, Answerable, RouteInv, RouteShape, PendingIsRouted, Sockets
  <2>2. \A q \in Requests : \/ answer'[q] = answer[q]
                            \/ answer[q] = "pending" /\ Contract!Move(q)
    BY <1>13, <2>1, <1>a, <1>b DEF OnResult, RemoveRoutes, Contract!Move, Contract!Moves
  <2>3. QED
    BY <1>6, <1>13, <2>2 DEF OnResult, RemoveRoutes, objectVars
<1>14. ASSUME NEW r \in Requests, NEW o \in Operations, Dispatch(r, o) PROVE Goal
  <2>1. answer[r] = "none" /\ CallStatus[r] = "idle" /\ r \notin agreed
    BY <1>14, <1>a DEF Dispatch, CallInv
  <2>2. UNCHANGED agreed /\ \A q \in Requests : q # r => operation'[q] = operation[q]
    BY <1>14 DEF Dispatch, Refuse, Send, objectVars
  <2>3. PICK code \in Refusals \cup {"pending", "DISCONNECTED"} :
          answer' = [answer EXCEPT ![r] = code]
    BY <1>14 DEF Dispatch, Refuse, Send, Refusals
  <2>4. CallMoves
    <3>1. ASSUME NEW q \in Requests, q # r PROVE CallStatus'[q] = CallStatus[q]
      BY <2>2, <2>3, <3>1, <1>a, <1>b
    <3>2. CallStatus'[r] \in Refusals \cup {"sent", "DISCONNECTED"}
      BY <2>1, <2>2, <2>3, <1>b DEF Refusals
    <3>3. Contract!Move(r)
      BY <2>1, <3>2 DEF Refusals, Contract!Move, Contract!Moves
    <3>4. \A q \in Requests : answer[q] = "pending" => operation'[q] = operation[q]
      BY <2>1, <2>2
    <3>5. QED
      BY <3>1, <3>3, <3>4 DEF CallMoves
  <2>5. \A q \in Requests : answer'[q] = "none" => q \notin agreed'
    BY <2>1, <2>2, <2>3 DEF CallInv
  <2>6. acceptTimers' \subseteq acceptTimers \cup {r}
    BY <1>14 DEF Dispatch, Refuse, Send, StartTimers
  <2>7. Cardinality(Occupied') <= MaxRoutes
    <3>1. CASE UNCHANGED routes
      BY <3>1 DEF Occupied, CallInv
    <3>2. CASE ~Full /\ routes' = [routes EXCEPT ![o] = r]
      <4>1. Occupied' = Occupied \cup {o}
        BY <3>2 DEF Occupied
      <4>2. IsFiniteSet(Occupied)
        BY OccupiedFinite, FS_Subset DEF Occupied
      <4>3. Cardinality(Occupied) \in Nat /\ Cardinality(Occupied) < MaxRoutes
        BY <3>2, <4>2, FS_CardinalityType, OccupiedFinite DEF Full, Occupied
      <4>4. Cardinality(Occupied \cup {o}) \in {Cardinality(Occupied), Cardinality(Occupied) + 1}
        BY <4>2, FS_AddElement
      <4>5. Cardinality(Occupied') \in {Cardinality(Occupied), Cardinality(Occupied) + 1}
        BY <4>1, <4>4
      <4>6. QED
        BY <4>3, <4>4, <4>5, OccupiedFinite
    <3>3. QED
      BY <1>14, <3>1, <3>2 DEF Dispatch, Refuse, Send
  <2>8. CallInv'
    BY <2>1, <2>2, <2>5, <2>6, <2>7 DEF CallInv
  <2>9. QED
    BY <2>4, <2>8
<1>15. QED
  BY <1>1, <1>2, <1>3, <1>4, <1>5, <1>7, <1>8, <1>9, <1>10, <1>11, <1>12, <1>13, <1>14 DEF Next

(* Live calls have registered routes under different operation ids, so     *)
(* there are no more of them than occupied ids.                            *)
LEMMA LiveWithinLimit ==
  ASSUME TypeOK, PendingIsRouted, CallInv
  PROVE  Contract!Exclusive /\ Cardinality(Contract!Live) <= MaxRoutes
<1> USE ConstantFacts
<1>1. Contract!Live = {r \in Requests : answer[r] = "pending"}
  BY DEF Contract!Live, CallStatus, TypeOK, Answers, Refusals
<1>2. \A r \in Contract!Live : operation[r] \in Occupied /\ routes[operation[r]] = r
  BY <1>1 DEF PendingIsRouted, Occupied
<1>3. Contract!Exclusive
  BY <1>2 DEF Contract!Exclusive
<1>4. Cardinality(Contract!Live) <= MaxRoutes
  <2> DEFINE f == [r \in Contract!Live |-> operation[r]]
  <2>1. f \in Injection(Contract!Live, Occupied)
    BY <1>2 DEF Injection, IsInjective
  <2>2. IsFiniteSet(Occupied)
    BY OccupiedFinite, FS_Subset DEF Occupied
  <2>3. IsFiniteSet(Contract!Live) /\ Cardinality(Contract!Live) <= Cardinality(Occupied)
    BY <2>1, <2>2, FS_Injection
  <2>4. Cardinality(Contract!Live) \in Nat /\ Cardinality(Occupied) \in Nat
    BY <2>2, <2>3, FS_CardinalityType
  <2>5. QED
    BY <2>3, <2>4, OccupiedFinite DEF CallInv
<1>5. QED
  BY <1>3, <1>4

(* The contract's own instance of Cardinality is the one used here.        *)
LEMMA SameCardinality == \A S : Contract!Cardinality(S) = Cardinality(S)
BY DEF Contract!Cardinality, Cardinality

(* dispatch() implements the contract: every step of the coordinator is a  *)
(* step of DispatchContract or leaves the callers' view unchanged.         *)
THEOREM ImplementsContract == Spec => KeepsDispatchContract
<1> DEFINE Limits == Contract!Exclusive /\ Cardinality(Contract!Live) <= MaxRoutes
<1>1. Init => RouteInv /\ CallInv
  <2> SUFFICES ASSUME Init PROVE RouteInv /\ CallInv
    OBVIOUS
  <2>1. RouteInv
    BY ConstantFacts DEF Init, RouteInv, PendingIsRouted, RouteShape
  <2>2. Occupied = {}
    BY DEF Init, Occupied
  <2>3. Cardinality(Occupied) <= MaxRoutes
    BY <2>2, FS_EmptySet, OccupiedFinite
  <2>4. QED
    BY <2>1, <2>3 DEF Init, CallInv
<1>2. Init => Contract!Init
  BY DEF Init, Contract!Init, CallStatus
<1>3. TypeOK /\ RouteInv /\ CallInv => Limits
  BY LiveWithinLimit DEF RouteInv
<1>4. TypeOK /\ CallMoves /\ Limits' => Contract!Next
  <2> SUFFICES ASSUME TypeOK, CallMoves, Limits' PROVE Contract!Next
    OBVIOUS
  <2>1. \A r \in Contract!Live : operation'[r] = operation[r]
    BY DEF CallMoves, Contract!Live, CallStatus, TypeOK, Answers, Refusals
  <2>2. QED
    BY <2>1, SameCardinality DEF CallMoves, Contract!Next
<1>5. QED
  BY <1>1, <1>2, <1>3, <1>4, RouteStep, CallStep, TypeCorrect, PTL
  DEF Spec, KeepsDispatchContract, Contract!Spec
-----------------------------------------------------------------------------
(* While the channel that was greeted last is open, the record is its own. *)
GreetedInv ==
  /\ greeter \in {0} \cup executors
  /\ greeter # 0 /\ link[greeter] = "open" => presence = greeter

(* Only a hello changes the greeter, and only a hello or the close of the  *)
(* channel whose record it is changes the record.                          *)
GreetedKept ==
  /\ UNCHANGED greeter
  /\ \/ UNCHANGED presence
     \/ presence # 0 /\ link'[presence] # "open"

LEMMA GreetedMoves ==
  ASSUME TypeOK, [Next]_vars, \A s \in Sockets : ~OnHello(s)
  PROVE  GreetedKept
<1> USE DEF TypeOK, GreetedKept, channelVars
<1>1. CASE AcceptChannel \/ AcceptViewer \/ Tick \/ Restart \/ Hibernate
  BY <1>1 DEF AcceptChannel, AcceptViewer, Tick, Restart, Hibernate
<1>2. ASSUME NEW s \in Sockets, ChannelClosed(s) PROVE GreetedKept
  <2>1. link'[s] = "closed"
    BY <1>2 DEF ChannelClosed, Closing
  <2>3. QED
    BY <1>2, <2>1 DEF ChannelClosed, OwnsPresence, Sockets
<1>3. ASSUME NEW s \in Sockets, OnEvent(s) \/ FrameRefused(s) \/ ViewerClosed(s) \/ ViewerRefused(s)
      PROVE  GreetedKept
  BY <1>3 DEF OnEvent, FrameRefused, ViewerClosed, ViewerRefused
<1>4. ASSUME NEW r \in Requests, AcceptTimeout(r) \/ ResultTimeout(r) \/ StaleTimeout(r)
      PROVE  GreetedKept
  BY <1>4 DEF AcceptTimeout, ResultTimeout, RouteTimeout, StaleTimeout
<1>5. ASSUME NEW r \in Requests, NEW o \in Operations, Dispatch(r, o) PROVE GreetedKept
  BY <1>5 DEF Dispatch
<1>6. ASSUME NEW s \in Sockets, NEW r \in Requests, OnAccepted(s, r) \/ OnResult(s, r)
      PROVE  GreetedKept
  BY <1>6 DEF OnAccepted, OnResult
<1>7. ASSUME NEW i \in Invokes, InvokeRequest(i) \/ InvokeStart(i) \/ InvokeTimeout(i)
      PROVE  GreetedKept
  BY <1>7 DEF InvokeRequest, InvokeStart, InvokeTimeout
<1>8. ASSUME NEW s \in Sockets, NEW i \in Invokes, NEW f \in FrameIds,
             NEW k \in 0..(ChunkCount - 1), OnSessionFrame(s, i, f, k)
      PROVE  GreetedKept
  BY <1>8 DEF OnSessionFrame
<1>9. ASSUME NEW s \in Sockets, NEW x \in Sockets \cup Invokes, OnSessionClose(s, x)
      PROVE  GreetedKept
  BY <1>9 DEF OnSessionClose
<1>10. CASE UNCHANGED vars
  BY <1>10 DEF vars
<1>11. QED
  BY <1>1, <1>2, <1>3, <1>4, <1>5, <1>6, <1>7, <1>8, <1>9, <1>10 DEF Next

LEMMA GreetedStep == TypeOK /\ SocketOrder /\ GreetedInv /\ [Next]_vars => GreetedInv'
<1> SUFFICES ASSUME TypeOK, SocketOrder, GreetedInv, [Next]_vars PROVE GreetedInv'
  OBVIOUS
<1> USE DEF TypeOK, GreetedInv
<1>1. ASSUME NEW s \in Sockets, OnHello(s) PROVE GreetedInv'
  BY <1>1 DEF OnHello, Listed
<1>2. ASSUME \A s \in Sockets : ~OnHello(s) PROVE GreetedInv'
  <2>1. GreetedKept
    BY <1>2, GreetedMoves
  <2>2. executors \subseteq executors'
        /\ (greeter # 0 /\ link'[greeter] = "open" => link[greeter] = "open")
    <3>1. CASE AcceptChannel
      <4>1. greeter <= accepted
        BY ConstantFacts DEF SocketOrder, Sockets
      <4>2. greeter # accepted + 1
        BY <4>1, ConstantFacts DEF Sockets
      <4>3. QED
        BY <3>1, <4>2 DEF AcceptChannel, Closing
    <3>2. CASE AcceptViewer
      <4>1. greeter <= accepted
        BY ConstantFacts DEF SocketOrder, Sockets
      <4>2. greeter # accepted + 1
        BY <4>1, ConstantFacts DEF Sockets
      <4>3. QED
        BY <3>2, <4>2 DEF AcceptViewer
    <3>3. CASE ~AcceptChannel /\ ~AcceptViewer
      BY <3>3, OnlyUpgradesOpen DEF ClosesOnly
    <3>4. QED
      BY <3>1, <3>2, <3>3
  <2>3. QED
    BY <2>1, <2>2 DEF GreetedKept
<1>3. QED
  BY <1>1, <1>2

(* A channel that is open and was greeted last owns the record, so a ping  *)
(* it has just answered makes the executor online.                         *)
THEOREM GreetedIsOnline == Spec => []GreetedChannelIsOnline
<1>1. Init => GreetedInv
  BY DEF Init, GreetedInv
<1>2. TypeOK /\ GreetedInv => GreetedChannelIsOnline
  <2> SUFFICES ASSUME TypeOK, GreetedInv, NEW s \in executors,
                      link[s] = "open", greeter = s, pong[s] = 0
               PROVE  Online
    BY DEF GreetedChannelIsOnline
  <2>1. s \in Sockets /\ s # 0 /\ 0 \in Ages
    BY ConstantFacts DEF TypeOK, Sockets, Ages
  <2>2. s \in Listed /\ LiveAge(0)
    BY <2>1 DEF Listed, LiveAge, GreetedInv
  <2>3. Younger(OfflineAge) /\ Younger(StaleAge)
    BY <2>1, <2>2 DEF Younger, OfflineAge, StaleAge
  <2>4. QED
    BY <2>3 DEF Online, PresenceState
<1>3. QED
  BY <1>1, <1>2, GreetedStep, SocketsInOrder, TypeCorrect, PTL DEF Spec
-----------------------------------------------------------------------------
(* An invoke leaves the map in the step that answers it, and no other step *)
(* touches the answer of an invoke that is in the map.                     *)
THEOREM EphemeralWaits == Spec => []EphemeralIsWaiting
<1>1. Init => EphemeralIsWaiting
  BY DEF Init, EphemeralIsWaiting
<1>2. TypeOK /\ EphemeralIsWaiting /\ [Next]_vars => EphemeralIsWaiting'
  <2> SUFFICES ASSUME TypeOK, EphemeralIsWaiting, [Next]_vars PROVE EphemeralIsWaiting'
    OBVIOUS
  <2> USE DEF EphemeralIsWaiting, TypeOK
  <2>0. ASSUME UNCHANGED sessionVars PROVE EphemeralIsWaiting'
    BY <2>0 DEF sessionVars
  <2>1. ASSUME ephemeral' = {} PROVE EphemeralIsWaiting'
    BY <2>1
  <2>2. CASE AcceptChannel \/ Restart \/ Hibernate
    BY <2>1, <2>2 DEF AcceptChannel, RejectEphemeral, Restart, Hibernate
  <2>3. CASE AcceptViewer \/ UNCHANGED vars
    BY <2>3 DEF AcceptViewer, vars, sessionVars
  <2>4. CASE Tick
    BY <2>0, <2>4 DEF Tick
  <2>5. ASSUME NEW s \in Sockets, OnHello(s) \/ OnEvent(s) \/ FrameRefused(s) \/ ViewerRefused(s)
        PROVE  EphemeralIsWaiting'
    BY <2>0, <2>5 DEF OnHello, OnEvent, FrameRefused, ViewerRefused
  <2>6. ASSUME NEW s \in Sockets, ChannelClosed(s) PROVE EphemeralIsWaiting'
    <3>1. ephemeral' = {} \/ UNCHANGED <<invoke, ephemeral>>
      BY <2>6 DEF ChannelClosed, RejectEphemeral
    <3>2. QED
      BY <3>1
  <2>7. ASSUME NEW s \in Sockets, ViewerClosed(s) PROVE EphemeralIsWaiting'
    BY <2>7 DEF ViewerClosed
  <2>8. ASSUME NEW r \in Requests, AcceptTimeout(r) \/ ResultTimeout(r) \/ StaleTimeout(r)
        PROVE  EphemeralIsWaiting'
    BY <2>0, <2>8 DEF AcceptTimeout, ResultTimeout, RouteTimeout, StaleTimeout
  <2>9. ASSUME NEW r \in Requests, NEW o \in Operations, Dispatch(r, o)
        PROVE  EphemeralIsWaiting'
    BY <2>0, <2>9 DEF Dispatch
  <2>10. ASSUME NEW s \in Sockets, NEW r \in Requests, OnAccepted(s, r) \/ OnResult(s, r)
         PROVE  EphemeralIsWaiting'
    BY <2>0, <2>10 DEF OnAccepted, OnResult
  <2>11. ASSUME NEW i \in Invokes, InvokeRequest(i) PROVE EphemeralIsWaiting'
    BY <2>11 DEF InvokeRequest
  <2>12. ASSUME NEW i \in Invokes, InvokeStart(i) PROVE EphemeralIsWaiting'
    <3>1. \/ UNCHANGED ephemeral /\ \E code : invoke' = [invoke EXCEPT ![i] = code]
          \/ ephemeral' = ephemeral \cup {i} /\ invoke' = [invoke EXCEPT ![i] = "waiting"]
      BY <2>12 DEF InvokeStart
    <3>2. invoke[i] = "reading"
      BY <2>12 DEF InvokeStart
    <3>3. QED
      BY <3>1, <3>2
  <2>13. ASSUME NEW i \in Invokes, ephemeral' = ephemeral \ {i},
                invoke' = invoke \/ \E code : invoke' = [invoke EXCEPT ![i] = code]
         PROVE  EphemeralIsWaiting'
    BY <2>13
  <2>14. ASSUME NEW i \in Invokes, InvokeTimeout(i) PROVE EphemeralIsWaiting'
    BY <2>13, <2>14 DEF InvokeTimeout, Finish
  <2>15. ASSUME NEW s \in Sockets, NEW i \in Invokes, NEW f \in FrameIds,
                NEW k \in 0..(ChunkCount - 1), OnSessionFrame(s, i, f, k)
         PROVE  EphemeralIsWaiting'
    <3>1. \/ UNCHANGED <<invoke, ephemeral>>
          \/ /\ ephemeral' = ephemeral \ {i}
             /\ invoke' = invoke \/ \E code : invoke' = [invoke EXCEPT ![i] = code]
      BY <2>15 DEF OnSessionFrame, FailSessionBudget, Finish
    <3>2. QED
      BY <2>13, <3>1
  <2>16. ASSUME NEW s \in Sockets, NEW x \in Sockets \cup Invokes, OnSessionClose(s, x)
         PROVE  EphemeralIsWaiting'
    BY <2>16 DEF OnSessionClose
  <2>17. QED
    BY <2>2, <2>3, <2>4, <2>5, <2>6, <2>7, <2>8, <2>9, <2>10, <2>11, <2>12, <2>14, <2>15, <2>16
    DEF Next
<1>3. QED
  BY <1>1, <1>2, TypeCorrect, PTL DEF Spec
-----------------------------------------------------------------------------
(* No session is open behind a socket that was not accepted yet.           *)
NoSessionYet == \A s \in Sockets : s > accepted => sessions[s] = {}

(* A step that loses no viewer and opens no viewer's session.              *)
KeepsViewers ==
  /\ \A v \in viewers : link[v] \in {"open", "closing"} => link'[v] \in {"open", "closing"}
  /\ \A s \in Sockets : \/ sessions'[s] \subseteq sessions[s]
                        \/ s \in Listed /\ sessions'[s] \subseteq sessions[s] \cup Invokes

LEMMA FinishSessions ==
  ASSUME NEW i \in Invokes, NEW code, Finish(i, code), TypeOK
  PROVE  \A s \in Sockets : sessions'[s] \subseteq sessions[s]
<1>1. sessions' = sessions \/ sessions' = SessionsWithout(i)
  BY DEF Finish
<1>2. QED
  BY <1>1 DEF SessionsWithout, TypeOK

LEMMA ViewersKept ==
  ASSUME TypeOK, SocketOrder, [Next]_vars, ~AcceptViewer,
         \A v \in Sockets : ~ViewerClosed(v)
  PROVE  Restart \/ KeepsViewers
<1> USE DEF TypeOK, KeepsViewers, channelVars, sessionVars
<1>1. CASE AcceptChannel
  <2>1. \A v \in Sockets : link[v] \in {"open", "closing"} => link'[v] \in {"open", "closing"}
    BY <1>1 DEF AcceptChannel, Closing, Displaced
  <2>2. QED
    BY <1>1, <2>1 DEF AcceptChannel
<1>2. CASE Tick \/ Hibernate \/ UNCHANGED vars
  BY <1>2 DEF Tick, Hibernate, vars
<1>3. ASSUME NEW s \in Sockets,
             OnHello(s) \/ OnEvent(s) \/ FrameRefused(s) \/ ViewerRefused(s)
      PROVE  KeepsViewers
  BY <1>3 DEF OnHello, OnEvent, FrameRefused, ViewerRefused, Closing
<1>4. ASSUME NEW s \in Sockets, ChannelClosed(s) PROVE KeepsViewers
  <2>1. s \notin viewers
    BY <1>4 DEF ChannelClosed, Listed, SocketOrder
  <2>2. \A v \in viewers : link[v] \in {"open", "closing"} => link'[v] \in {"open", "closing"}
    BY <1>4, <2>1 DEF ChannelClosed, Closing
  <2>3. sessions' = [sessions EXCEPT ![s] = {}]
    BY <1>4 DEF ChannelClosed
  <2>4. QED
    BY <2>2, <2>3
<1>5. ASSUME NEW r \in Requests, AcceptTimeout(r) \/ ResultTimeout(r) \/ StaleTimeout(r)
      PROVE  KeepsViewers
  BY <1>5 DEF AcceptTimeout, ResultTimeout, RouteTimeout, StaleTimeout
<1>6. ASSUME NEW r \in Requests, NEW o \in Operations, Dispatch(r, o) PROVE KeepsViewers
  BY <1>6 DEF Dispatch
<1>7. ASSUME NEW s \in Sockets, NEW r \in Requests, OnAccepted(s, r) \/ OnResult(s, r)
      PROVE  KeepsViewers
  BY <1>7 DEF OnAccepted, OnResult
<1>8. ASSUME NEW i \in Invokes, InvokeRequest(i) PROVE KeepsViewers
  BY <1>8 DEF InvokeRequest
<1>9. ASSUME NEW i \in Invokes, InvokeStart(i) PROVE KeepsViewers
  <2>1. \/ sessions' = sessions
        \/ \E s \in Listed : sessions' = [sessions EXCEPT ![s] = @ \cup {i}]
    BY <1>9 DEF InvokeStart
  <2>2. UNCHANGED link
    BY <1>9 DEF InvokeStart
  <2>3. QED
    BY <2>1, <2>2 DEF Listed
<1>10. ASSUME NEW i \in Invokes, InvokeTimeout(i) PROVE KeepsViewers
  BY <1>10, FinishSessions DEF InvokeTimeout
<1>11. ASSUME NEW s \in Sockets, NEW i \in Invokes, NEW f \in FrameIds,
              NEW k \in 0..(ChunkCount - 1), OnSessionFrame(s, i, f, k)
       PROVE  KeepsViewers
  <2>1. UNCHANGED sessions \/ Finish(i, "result")
    BY <1>11 DEF OnSessionFrame, FailSessionBudget
  <2>2. UNCHANGED link
    BY <1>11 DEF OnSessionFrame
  <2>3. QED
    BY <2>1, <2>2, FinishSessions
<1>12. ASSUME NEW s \in Sockets, NEW x \in Sockets \cup Invokes, OnSessionClose(s, x)
       PROVE  KeepsViewers
  BY <1>12 DEF OnSessionClose, Closing
<1>13. QED
  BY <1>1, <1>2, <1>3, <1>4, <1>5, <1>6, <1>7, <1>8, <1>9, <1>10, <1>11, <1>12 DEF Next

(* A viewer's close reaches the executor behind the open channel, which is *)
(* the one that holds its session: it is the newest, so it is the one the  *)
(* close is sent to.                                                       *)
THEOREM ViewersReleased == Spec => []ViewerSessionReleased
<1> DEFINE Order    == SocketOrder /\ SingleChannel
           Released == ViewerSessionReleased /\ NoSessionYet
<1>1. Init => Released
  BY DEF Init, ViewerSessionReleased, NoSessionYet
<1>2. TypeOK /\ Order /\ Released /\ [Next]_vars => Released'
  <2> SUFFICES ASSUME TypeOK, Order, Released, [Next]_vars PROVE Released'
    OBVIOUS
  <2> USE DEF TypeOK, SocketOrder
  <2>0. /\ accepted \in Nat /\ \A s \in executors \cup viewers : s \in Sockets /\ s <= accepted
        /\ \A s \in Sockets : s \in Nat
    BY ConstantFacts DEF Sockets
  <2>1. CASE AcceptChannel
    <3>1. \A s \in Sockets : s # accepted + 1 => link'[s] # "open"
      BY <2>1 DEF AcceptChannel, Closing, Displaced
    <3>2. /\ accepted' = accepted + 1 /\ accepted + 1 \in Sockets /\ UNCHANGED <<sessions, viewers>>
          /\ executors' \subseteq Sockets
      BY <2>1 DEF AcceptChannel
    <3>3. sessions'[accepted + 1] = {}
      BY <2>0, <3>2 DEF NoSessionYet
    <3>4. ViewerSessionReleased'
      BY <3>1, <3>2, <3>3 DEF ViewerSessionReleased
    <3>5. NoSessionYet'
      BY <2>0, <3>2 DEF NoSessionYet
    <3>6. QED
      BY <3>4, <3>5
  <2>2. CASE AcceptViewer
    <3> DEFINE new == accepted + 1
    <3>1. /\ accepted' = new /\ new \in Sockets /\ viewers' = viewers \cup {new}
          /\ UNCHANGED executors
      BY <2>2 DEF AcceptViewer
    <3>2. /\ link'[new] \in {"open", "closing"}
          /\ \A s \in Sockets \ {new} : link'[s] = link[s]
      BY <2>2 DEF AcceptViewer
    <3>3. \A s \in Sockets : \/ sessions'[s] = sessions[s]
                             \/ s \in Listed /\ sessions'[s] = sessions[s] \cup {new}
      BY <2>2 DEF AcceptViewer, Listed
    <3>4. new \notin executors
      BY <2>0
    <3> HIDE DEF new
    <3>5. ASSUME NEW s \in executors, link'[s] = "open", NEW v \in viewers', v \in sessions'[s]
          PROVE  link'[v] \in {"open", "closing"}
      <4>1. CASE v = new
        BY <3>2, <4>1
      <4>2. CASE v # new
        <5>1. link[s] = "open" /\ v \in viewers /\ v \in sessions[s]
          BY <2>0, <3>1, <3>2, <3>3, <3>4, <3>5, <4>2
        <5>2. QED
          BY <2>0, <3>2, <4>2, <5>1 DEF ViewerSessionReleased
      <4>3. QED
        BY <4>1, <4>2
    <3>6. ViewerSessionReleased'
      BY <3>1, <3>5 DEF ViewerSessionReleased
    <3>7. \A s \in Listed : ~(s > accepted)
      BY <2>0 DEF Listed
    <3>8. NoSessionYet'
      BY <2>0, <3>1, <3>3, <3>7 DEF NoSessionYet, new
    <3>9. QED
      BY <3>6, <3>8
  <2>3. ASSUME NEW v \in Sockets, ViewerClosed(v) PROVE Released'
    <3>1. /\ UNCHANGED <<accepted, executors, viewers>> /\ v \in viewers
          /\ link' = [link EXCEPT ![v] = "closed"]
          /\ sessions' = SessionsWithout(v)
      BY <2>3 DEF ViewerClosed
    <3>2. \A s \in executors : link[s] = "open" => IsExecutorSocket(s)
      BY DEF IsExecutorSocket, Listed, SingleChannel
    <3>3. \A s \in executors : link'[s] = "open" => link[s] = "open" /\ sessions'[s] = sessions[s] \ {v}
      BY <2>0, <3>1, <3>2 DEF SessionsWithout
    <3>4. ViewerSessionReleased'
      BY <2>0, <3>1, <3>3 DEF ViewerSessionReleased
    <3>5. \A s \in Sockets : sessions'[s] \subseteq sessions[s]
      BY <3>1 DEF SessionsWithout
    <3>6. NoSessionYet'
      BY <3>1, <3>5 DEF NoSessionYet
    <3>7. QED
      BY <3>4, <3>6
  <2>4. CASE Restart
    BY <2>4 DEF Restart, ViewerSessionReleased, NoSessionYet
  <2>5. CASE ~AcceptChannel /\ ~AcceptViewer /\ KeepsViewers
    <3>1. ClosesOnly
      BY <2>5, OnlyUpgradesOpen
    <3>2. viewers \cap Invokes = {}
      BY ConstantsAssumption DEF ConstantsAssumption, Sockets
    <3>3. \A s \in executors, v \in viewers : v \in sessions'[s] => v \in sessions[s]
      BY <2>0, <2>5, <3>2 DEF KeepsViewers
    <3>4. ViewerSessionReleased'
      BY <2>0, <2>5, <3>1, <3>3 DEF ViewerSessionReleased, ClosesOnly, KeepsViewers
    <3>5. \A s \in Listed : ~(s > accepted)
      BY <2>0 DEF Listed
    <3>6. NoSessionYet'
      BY <2>0, <2>5, <3>1, <3>5 DEF NoSessionYet, ClosesOnly, KeepsViewers
    <3>7. QED
      BY <3>4, <3>6
  <2>6. QED
    BY <2>1, <2>2, <2>3, <2>4, <2>5, ViewersKept
<1>3. QED
  BY <1>1, <1>2, TypeCorrect, SocketsInOrder, NewestChannelOnly, PTL DEF Spec
-----------------------------------------------------------------------------
(* The strengthening for late results: a command that is on its way belongs *)
(* to a call that was sent, and a result came on the channel the route of   *)
(* the call it answered was fenced to.                                      *)
ResultInv ==
  /\ \A r \in Requests : carrier[r] # 0 => answer[r] # "none"
  /\ \A r \in Requests : answer[r] = "RESULT" =>
       /\ resultOf[r] \in Requests
       /\ carrier[resultOf[r]] # 0 /\ carrier[resultOf[r]] = fence[r]

LEMMA ResultStep == TypeOK /\ ResultInv /\ [Next]_vars => ResultInv'
<1> SUFFICES ASSUME TypeOK, ResultInv, [Next]_vars PROVE ResultInv'
  OBVIOUS
<1> USE DEF TypeOK, ResultInv
<1>0. ASSUME UNCHANGED <<objectVars, resultOf>>,
             \A r \in Requests : \/ answer'[r] = answer[r]
                                 \/ answer'[r] \notin {"none", "RESULT"}
      PROVE  ResultInv'
  BY <1>0 DEF objectVars
<1>1. ASSUME UNCHANGED routeVars PROVE ResultInv'
  BY <1>1 DEF routeVars, objectVars
<1>2. CASE AcceptChannel \/ AcceptViewer \/ Tick \/ UNCHANGED vars
  BY <1>1, <1>2 DEF AcceptChannel, AcceptViewer, Tick, vars
<1>3. CASE Restart \/ Hibernate
  BY <1>0, <1>3 DEF Restart, Hibernate
<1>4. ASSUME NEW s \in Sockets,
             OnHello(s) \/ OnEvent(s) \/ FrameRefused(s) \/ ViewerClosed(s) \/ ViewerRefused(s)
      PROVE  ResultInv'
  BY <1>1, <1>4 DEF OnHello, OnEvent, FrameRefused, ViewerClosed, ViewerRefused
<1>5. ASSUME NEW s \in Sockets, ChannelClosed(s) PROVE ResultInv'
  BY <1>0, <1>5 DEF ChannelClosed, RemoveRoutes
<1>6. ASSUME NEW r \in Requests, AcceptTimeout(r) \/ ResultTimeout(r) \/ StaleTimeout(r)
      PROVE  ResultInv'
  BY <1>0, <1>6 DEF AcceptTimeout, ResultTimeout, RouteTimeout, StaleTimeout, RemoveRoutes
<1>7. ASSUME NEW r \in Requests, NEW o \in Operations, Dispatch(r, o) PROVE ResultInv'
  <2>1. answer[r] = "none" /\ carrier[r] = 0 /\ UNCHANGED resultOf
    BY <1>7 DEF Dispatch, Refuse, Send
  <2>2. \A q \in Requests \ {r} : /\ answer'[q] = answer[q]
                                  /\ carrier'[q] = carrier[q] /\ fence'[q] = fence[q]
    BY <1>7 DEF Dispatch, Refuse, Send, objectVars
  <2>3. answer'[r] \notin {"none", "RESULT"}
    BY <1>7 DEF Dispatch, Refuse, Send
  <2>4. QED
    BY <2>1, <2>2, <2>3
<1>8. ASSUME NEW s \in Sockets, NEW r \in Requests, OnAccepted(s, r) PROVE ResultInv'
  BY <1>0, <1>8 DEF OnAccepted
<1>9. ASSUME NEW s \in Sockets, NEW c \in Requests, OnResult(s, c) PROVE ResultInv'
  <2>1. carrier[c] = s /\ s # 0 /\ UNCHANGED <<carrier, fence>>
    BY <1>9, ConstantFacts DEF OnResult, Working, RemoveRoutes, objectVars, Sockets
  <2>2. \A r \in Answerable(s, c) : fence[r] = s /\ resultOf'[r] = c /\ answer'[r] = "RESULT"
    BY <1>9 DEF OnResult, Answerable
  <2>3. \A r \in Requests \ Answerable(s, c) : resultOf'[r] = resultOf[r] /\ answer'[r] = answer[r]
    BY <1>9 DEF OnResult
  <2>4. QED
    BY <2>1, <2>2, <2>3
<1>10. ASSUME NEW i \in Invokes, InvokeRequest(i) \/ InvokeStart(i) \/ InvokeTimeout(i)
       PROVE  ResultInv'
  BY <1>1, <1>10 DEF InvokeRequest, InvokeStart, InvokeTimeout
<1>11. ASSUME NEW s \in Sockets, NEW i \in Invokes, NEW f \in FrameIds,
              NEW k \in 0..(ChunkCount - 1), OnSessionFrame(s, i, f, k)
       PROVE  ResultInv'
  BY <1>1, <1>11 DEF OnSessionFrame
<1>12. ASSUME NEW s \in Sockets, NEW x \in Sockets \cup Invokes, OnSessionClose(s, x)
       PROVE  ResultInv'
  BY <1>1, <1>12 DEF OnSessionClose
<1>13. QED
  BY <1>2, <1>3, <1>4, <1>5, <1>6, <1>7, <1>8, <1>9, <1>10, <1>11, <1>12 DEF Next

(* findRoute() compares the frame's channel with the route's fence, so a    *)
(* late result cannot answer a newer call that reuses its operation id.     *)
THEOREM ResultsStayHome == Spec => []ResultFromOwnChannel
<1>1. Init => ResultInv
  BY DEF Init, ResultInv
<1>2. ResultInv => ResultFromOwnChannel
  BY DEF ResultInv, ResultFromOwnChannel
<1>3. QED
  BY <1>1, <1>2, TypeCorrect, ResultStep, PTL DEF Spec
=============================================================================
