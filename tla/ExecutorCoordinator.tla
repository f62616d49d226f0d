------------------------ MODULE ExecutorCoordinator ------------------------
(***************************************************************************)
(* One ExecutorCoordinator Durable Object: the channel of one executor,    *)
(* the stored presence record, the in-flight dispatch routes, the viewer   *)
(* sockets and the ephemeral session invokes.                              *)
(*                                                                         *)
(* Sockets are numbered in the order in which the object accepts them,     *)
(* which is the order getWebSockets() lists them in; the fence of an       *)
(* executor channel (a fresh uuid in the code) is its number, and 0 stands *)
(* for "no socket", "no record".                                           *)
(*                                                                         *)
(* The runtime delivers no event to the object while a handler waits for   *)
(* its storage, so a handler whose only awaits are storage operations is   *)
(* one action; the one other await that matters (the body of               *)
(* /session-invoke, read after the limit is tested) separates              *)
(* InvokeRequest from InvokeStart.                                         *)
(***************************************************************************)
EXTENDS Naturals, FiniteSets

CONSTANTS
  Requests,          \* calls of POST /dispatch
  Operations,        \* operation ids; two requests may carry the same one
  Invokes,           \* calls of POST /session-invoke, each a fresh session
  FrameIds,          \* frame ids an executor uses inside one session
  ChunkCount,        \* chunks of a frame
  MaxRoutes,         \* MAX_INFLIGHT_ROUTES
  MaxInvokes,        \* MAX_EPHEMERAL_INVOKES
  MaxPendingFrames,  \* SESSION_PENDING_FRAMES
  MaxPendingChunks,  \* FRAME_LIMITS.sessionPendingBytes, in chunks
  MaxChannels,       \* bound: executor channels accepted in a behaviour
  MaxViewers,        \* bound: viewer sockets accepted in a behaviour
  MaxAge,            \* bound: how old the clock lets a timestamp become
  NoRequest, NoOperation

ASSUME ConstantsAssumption ==
  /\ {ChunkCount, MaxRoutes, MaxInvokes, MaxPendingFrames,
      MaxPendingChunks, MaxChannels} \subseteq Nat \ {0}
  /\ MaxViewers \in Nat /\ MaxAge \in Nat
  /\ NoRequest \notin Requests /\ NoOperation \notin Operations
  /\ IsFiniteSet(Operations)
  /\ Invokes \cap 1..(MaxChannels + MaxViewers) = {}  \* session ids are fresh uuids

VARIABLES
  accepted,   \* number of sockets accepted so far
  executors,  \* sockets whose attachment is a channel's
  viewers,    \* sockets whose attachment is a viewer's
  link,       \* what the object sees of each socket
  pong,       \* age of the last automatic ping response on each socket
  presence,   \* the fence of the record in storage, 0 when there is none
  lastSeen,   \* the age of its lastSeenAt
  greeter,    \* history: the channel whose channel.hello was handled last, 0 for none
  routes,     \* operation id -> the request whose route object is registered
  operation,  \* the route object of each request: its operation,
  fence,      \*   its fence,
  carrier,    \*   the channel its command was sent on (0: none),
  agreed,     \*   the requests whose route has accepted = true,
  acceptTimers, resultTimers,   \* and those with a timer running
  answer,     \* the response of each /dispatch call
  resultOf,   \* history: the request whose result became a request's answer
  reported,   \* requests whose command.result has been received
  sessions,   \* sessions the executor behind each channel holds open
  invoke,     \* the response of each /session-invoke call
  ephemeral,  \* invokes registered with a running timer
  frames      \* per invoke and frame id: chunks received, 0 when not pending

channelVars == <<accepted, executors, viewers, link, pong, presence, lastSeen, greeter>>
objectVars  == <<operation, fence, carrier>>
routeVars   == <<routes, objectVars, agreed, acceptTimers, resultTimers, answer, resultOf,
                 reported>>
sessionVars == <<sessions, invoke, ephemeral, frames>>
vars        == <<channelVars, routeVars, sessionVars>>
-----------------------------------------------------------------------------
Sockets == 1..(MaxChannels + MaxViewers)
Ages    == 0..MaxAge

(* The ages presenceState() tells apart.                                   *)
StaleAge   == 1
OfflineAge == 2

Links == {"unused", "open", "closing", "closed", "lost"}

Refusals == {"EXECUTOR_OFFLINE", "BACKPRESSURE", "INVALID_FRAME"}
Answers  == Refusals \cup {"DISCONNECTED", "RESULT", "RESULT_ROUTE_LOST",
              "EXECUTOR_ACCEPT_TIMEOUT", "DEADLINE_EXCEEDED", "LOST"}

InvokeAnswers == {"BACKPRESSURE", "EXECUTOR_OFFLINE", "failed", "result",
                  "error", "timeout", "lost"}

NoFrames == [f \in FrameIds |-> 0]

TypeOK ==
  /\ accepted \in 0..(MaxChannels + MaxViewers)
  /\ executors \subseteq Sockets /\ viewers \subseteq Sockets
  /\ link \in [Sockets -> Links]
  /\ pong \in [Sockets -> Ages]
  /\ presence \in {0} \cup Sockets
  /\ lastSeen \in Ages
  /\ greeter \in {0} \cup Sockets
  /\ routes \in [Operations -> Requests \cup {NoRequest}]
  /\ operation \in [Requests -> Operations \cup {NoOperation}]
  /\ fence \in [Requests -> {0} \cup Sockets]
  /\ carrier \in [Requests -> {0} \cup Sockets]
  /\ agreed \subseteq Requests
  /\ acceptTimers \subseteq Requests /\ resultTimers \subseteq Requests
  /\ answer \in [Requests -> Answers \cup {"none", "pending"}]
  /\ resultOf \in [Requests -> Requests \cup {NoRequest}]
  /\ reported \subseteq Requests
  /\ sessions \in [Sockets -> SUBSET (Sockets \cup Invokes)]
  /\ invoke \in [Invokes -> InvokeAnswers \cup {"none", "reading", "waiting"}]
  /\ ephemeral \subseteq Invokes
  /\ frames \in [Invokes -> [FrameIds -> 0..(ChunkCount - 1)]]

Init ==
  /\ accepted = 0 /\ executors = {} /\ viewers = {}
  /\ link = [s \in Sockets |-> "unused"]
  /\ pong = [s \in Sockets |-> MaxAge]
  /\ presence = 0 /\ lastSeen = 0 /\ greeter = 0
  /\ routes = [o \in Operations |-> NoRequest]
  /\ operation = [r \in Requests |-> NoOperation]
  /\ fence = [r \in Requests |-> 0] /\ carrier = [r \in Requests |-> 0]
  /\ agreed = {} /\ acceptTimers = {} /\ resultTimers = {}
  /\ answer = [r \in Requests |-> "none"]
  /\ resultOf = [r \in Requests |-> NoRequest]
  /\ reported = {}
  /\ sessions = [s \in Sockets |-> {}]
  /\ invoke = [i \in Invokes |-> "none"]
  /\ ephemeral = {}
  /\ frames = [i \in Invokes |-> NoFrames]
-----------------------------------------------------------------------------
(* getWebSockets() lists a socket until its close event has been handled.  *)
Listed == {s \in executors : link[s] \in {"open", "closing"}}

(* The channel commands are sent on: the last executor socket listed.      *)
IsExecutorSocket(s) == s \in Listed /\ \A t \in Listed : t <= s

(* Slip: the automatic ping responses are not folded in.                   *)
LiveAgeOfRecord(age) == presence # 0 /\ lastSeen = age

(* The most recent sign of life: the record's lastSeenAt or an automatic   *)
(* ping response on any listed executor socket.                            *)
LiveAge(age) ==
  presence # 0 /\ (lastSeen = age \/ \E s \in Listed : pong[s] = age)

Younger(limit) == Listed # {} /\ \E age \in Ages : age < limit /\ LiveAge(age)

(* What GET /presence reports; dispatch requires "online".                 *)
PresenceState == IF ~Younger(OfflineAge) THEN "offline"
                 ELSE IF Younger(StaleAge) THEN "online" ELSE "stale"

Online == PresenceState = "online"

(* Closing a set of sockets from the object's side.                        *)
Closing(S) == [s \in Sockets |->
                IF s \in S /\ link[s] = "open" THEN "closing" ELSE link[s]]

(* A call of rejectEphemeralOffline() for the invokes I, the reassembly    *)
(* buffers being cleared with it.                                          *)
RejectEphemeral(I) ==
  /\ ephemeral' = ephemeral \ I
  /\ invoke' = [i \in Invokes |-> IF i \in I THEN "EXECUTOR_OFFLINE" ELSE invoke[i]]

ClearFrames == frames' = [i \in Invokes |-> NoFrames]
-----------------------------------------------------------------------------
(* Slip: a new channel that leaves the viewers open.                       *)
DisplacedKeepsViewers == executors

(* What a new channel closes: every socket there is.                       *)
Displaced == Sockets

(* A new channel: every other socket is closed, viewers included, and every *)
(* ephemeral invoke is rejected. Presence and routes are left alone.        *)
AcceptChannel ==
  LET new == accepted + 1 IN
  /\ new \in Sockets /\ Cardinality(executors) < MaxChannels
  /\ accepted' = new
  /\ executors' = executors \cup {new}
  /\ link' = [Closing(Displaced) EXCEPT ![new] = "open"]
  /\ RejectEphemeral(ephemeral) /\ ClearFrames
  /\ UNCHANGED <<viewers, pong, presence, lastSeen, greeter, sessions>>
  /\ UNCHANGED routeVars

(* A new viewer is attached to the current channel with session.open; with *)
(* no channel its socket is closed, and so it ends when the send throws,   *)
(* the upgrade getting no response.                                        *)
AcceptViewer ==
  LET new == accepted + 1 IN
  /\ new \in Sockets /\ Cardinality(viewers) < MaxViewers
  /\ accepted' = new
  /\ viewers' = viewers \cup {new}
  /\ \/ \E e \in Listed :
          /\ IsExecutorSocket(e) /\ link[e] = "open"
          /\ link' = [link EXCEPT ![new] = "open"]
          /\ sessions' = [sessions EXCEPT ![e] = @ \cup {new}]
     \/ /\ \A e \in Listed : IsExecutorSocket(e) => link[e] = "closing"
        /\ link' = [link EXCEPT ![new] = "closing"]
        /\ UNCHANGED sessions
  /\ UNCHANGED <<executors, pong, presence, lastSeen, greeter>>
  /\ UNCHANGED <<invoke, ephemeral, frames>>
  /\ UNCHANGED routeVars

(* channel.hello: the record is written with the fence of the socket the   *)
(* frame came on, whichever socket that is.                                *)
OnHello(s) ==
  /\ s \in Listed
  /\ presence' = s /\ lastSeen' = 0 /\ greeter' = s
  /\ UNCHANGED <<accepted, executors, viewers, link, pong>>
  /\ UNCHANGED routeVars /\ UNCHANGED sessionVars

(* executor.event: the record is refreshed by the channel that owns it.    *)
OnEvent(s) ==
  /\ s \in Listed
  /\ presence = s
  /\ lastSeen' = 0
  /\ UNCHANGED <<accepted, executors, viewers, link, pong, presence, greeter>>
  /\ UNCHANGED routeVars /\ UNCHANGED sessionVars

(* A frame the object cannot accept: an error frame, then close().         *)
FrameRefused(s) ==
  /\ s \in executors /\ link[s] = "open"
  /\ link' = Closing({s})
  /\ UNCHANGED <<accepted, executors, viewers, pong, presence, lastSeen, greeter>>
  /\ UNCHANGED routeVars /\ UNCHANGED sessionVars

(* Time passes; the runtime answers the pings of some channels meanwhile.  *)
Tick ==
  \E beating \in SUBSET {s \in executors : link[s] = "open"} :
    /\ pong' = [s \in Sockets |-> IF s \in beating THEN 0
                                  ELSE IF pong[s] < MaxAge THEN pong[s] + 1 ELSE MaxAge]
    /\ lastSeen' = IF presence = 0 THEN 0
                   ELSE IF lastSeen < MaxAge THEN lastSeen + 1 ELSE MaxAge
    /\ UNCHANGED <<accepted, executors, viewers, link, presence, greeter>>
    /\ UNCHANGED routeVars /\ UNCHANGED sessionVars
-----------------------------------------------------------------------------
(* The routes of the requests S are removed and both their timers cleared. *)
RemoveRoutes(S) ==
  /\ routes' = [o \in Operations |->
                 IF \E r \in S : operation[r] = o THEN NoRequest ELSE routes[o]]
  /\ acceptTimers' = acceptTimers \ S
  /\ resultTimers' = resultTimers \ S
  /\ UNCHANGED <<objectVars, agreed>>

(* Slip: only the accepted routes of a closed channel are rejected.        *)
RoutesOfAcceptedOnly(s) ==
  {r \in agreed : fence[r] = s /\ \E o \in Operations : routes[o] = r}

RoutesOf(s) == {r \in Requests : fence[r] = s /\ \E o \in Operations : routes[o] = r}

(* Slip: the close of any channel is taken for that of the current one.    *)
OwnsPresenceAnyway(s) == presence # 0

OwnsPresence(s) == presence = s

(* The close (or error) event of a channel. Its own record is deleted, with *)
(* every viewer closed and every ephemeral invoke rejected; the routes of   *)
(* its fence are rejected in any case.                                      *)
ChannelClosed(s) ==
  LET lost == RoutesOf(s) IN
  /\ s \in Listed
  /\ \/ /\ OwnsPresence(s)
        /\ presence' = 0 /\ lastSeen' = 0
        /\ link' = [Closing(viewers) EXCEPT ![s] = "closed"]
        /\ RejectEphemeral(ephemeral) /\ ClearFrames
     \/ /\ ~OwnsPresence(s)
        /\ link' = [link EXCEPT ![s] = "closed"]
        /\ UNCHANGED <<presence, lastSeen, invoke, ephemeral, frames>>
  /\ RemoveRoutes(lost)
  /\ answer' = [r \in Requests |->
                 IF r \notin lost THEN answer[r]
                 ELSE IF r \in agreed THEN "RESULT_ROUTE_LOST" ELSE "DISCONNECTED"]
  /\ sessions' = [sessions EXCEPT ![s] = {}]
  /\ UNCHANGED <<accepted, executors, viewers, pong, greeter, resultOf, reported>>

(* Slip: the executor is not told that a viewer has gone.                  *)
SessionsWithoutNobody(v) == sessions

SessionsWithout(x) == [s \in Sockets |->
  IF IsExecutorSocket(s) /\ link[s] = "open" THEN sessions[s] \ {x} ELSE sessions[s]]

(* The close event of a viewer: the current channel is told, if its send   *)
(* does not throw.                                                         *)
ViewerClosed(v) ==
  /\ v \in viewers /\ link[v] \in {"open", "closing"}
  /\ link' = [link EXCEPT ![v] = "closed"]
  /\ sessions' = SessionsWithout(v)
  /\ UNCHANGED <<accepted, executors, viewers, pong, presence, lastSeen, greeter>>
  /\ UNCHANGED <<invoke, ephemeral, frames>> /\ UNCHANGED routeVars

(* A viewer message that is refused, or a send to or for a viewer that     *)
(* fails: only the viewer's socket is closed. A message that is forwarded  *)
(* changes nothing here.                                                   *)
ViewerRefused(v) ==
  /\ v \in viewers /\ link[v] = "open"
  /\ link' = Closing({v})
  /\ UNCHANGED <<accepted, executors, viewers, pong, presence, lastSeen, greeter>>
  /\ UNCHANGED routeVars /\ UNCHANGED sessionVars
-----------------------------------------------------------------------------
(* POST /dispatch, from the point where the body and the record are read.  *)
Refuse(r, code) ==
  /\ answer' = [answer EXCEPT ![r] = code]
  /\ UNCHANGED <<routes, objectVars, agreed, acceptTimers, resultTimers, resultOf, reported>>

Full == Cardinality({o \in Operations : routes[o] # NoRequest}) >= MaxRoutes

(* Slip: no deadline for the whole route.                                  *)
StartTimersNoDeadline(r) ==
  acceptTimers' = acceptTimers \cup {r} /\ UNCHANGED resultTimers

StartTimers(r) ==
  acceptTimers' = acceptTimers \cup {r} /\ resultTimers' = resultTimers \cup {r}

(* The command goes to the last channel listed, the route to the fence of  *)
(* the record. A send that throws removes the route and leaves its result  *)
(* timer running.                                                          *)
Send(r, o) ==
  \E s \in Listed :
    /\ IsExecutorSocket(s)
    /\ operation' = [operation EXCEPT ![r] = o]
    /\ fence' = [fence EXCEPT ![r] = presence]
    /\ \/ /\ link[s] = "open"
          /\ routes' = [routes EXCEPT ![o] = r]
          /\ carrier' = [carrier EXCEPT ![r] = s]
          /\ StartTimers(r)
          /\ answer' = [answer EXCEPT ![r] = "pending"]
       \/ /\ link[s] = "closing"
          /\ resultTimers' = resultTimers \cup {r}
          /\ answer' = [answer EXCEPT ![r] = "DISCONNECTED"]
          /\ UNCHANGED <<routes, carrier, acceptTimers>>
    /\ UNCHANGED <<agreed, resultOf, reported>>

Dispatch(r, o) ==
  /\ answer[r] = "none"
  /\ \/ ~Online /\ Refuse(r, "EXECUTOR_OFFLINE")
     \/ Online /\ Full /\ Refuse(r, "BACKPRESSURE")
     \/ Online /\ ~Full /\ routes[o] # NoRequest /\ Refuse(r, "INVALID_FRAME")
     \/ Online /\ ~Full /\ routes[o] = NoRequest /\ Send(r, o)
  /\ UNCHANGED channelVars /\ UNCHANGED sessionVars

(* The executor behind channel s works on the commands it received there.  *)
Working(s) == {r \in Requests : carrier[r] = s /\ r \notin reported}

(* Slip: the frame's channel is not compared with the route's fence.       *)
AnswerableByAny(s, c) == {r \in Requests : routes[operation[c]] = r}

(* The request, if any, that a frame about the command of request c is     *)
(* matched with when it arrives on channel s.                              *)
Answerable(s, c) == {r \in Requests : routes[operation[c]] = r /\ fence[r] = s}

(* Slip: the accept timer of an accepted route keeps running.              *)
ClearAcceptTimersNone(S) == UNCHANGED acceptTimers

ClearAcceptTimers(S) == acceptTimers' = acceptTimers \ S

(* command.accepted of the command of request c, arriving on channel s.    *)
OnAccepted(s, c) ==
  /\ s \in Listed /\ c \in Working(s)
  /\ Answerable(s, c) # {}
  /\ agreed' = agreed \cup Answerable(s, c)
  /\ ClearAcceptTimers(Answerable(s, c))
  /\ UNCHANGED <<routes, objectVars, resultTimers, answer, resultOf, reported>>
  /\ UNCHANGED channelVars /\ UNCHANGED sessionVars

(* command.result of the command of request c, arriving on channel s.      *)
OnResult(s, c) ==
  LET matched == Answerable(s, c) IN
  /\ s \in Listed /\ c \in Working(s)
  /\ reported' = reported \cup {c}
  /\ RemoveRoutes(matched)
  /\ answer' = [r \in Requests |-> IF r \in matched THEN "RESULT" ELSE answer[r]]
  /\ resultOf' = [r \in Requests |-> IF r \in matched THEN c ELSE resultOf[r]]
  /\ UNCHANGED channelVars /\ UNCHANGED sessionVars

(* Slip: a timer does not ask whose route object is registered.            *)
RegisteredAnyway(r) == TRUE

Registered(r) == routes[operation[r]] = r

(* A route timer fires. It answers its own request if that request's route *)
(* object is still the registered one, and does nothing otherwise.         *)
RouteTimeout(r, code) ==
  /\ Registered(r)
  /\ RemoveRoutes({r})
  /\ answer' = [answer EXCEPT ![r] = code]
  /\ UNCHANGED <<resultOf, reported>>
  /\ UNCHANGED channelVars /\ UNCHANGED sessionVars

AcceptTimeout(r) == r \in acceptTimers /\ RouteTimeout(r, "EXECUTOR_ACCEPT_TIMEOUT")

ResultTimeout(r) == r \in resultTimers /\ RouteTimeout(r, "DEADLINE_EXCEEDED")

(* The result timer of a route whose send threw finds another route, or    *)
(* none, under its operation id.                                           *)
StaleTimeout(r) ==
  /\ r \in resultTimers /\ ~Registered(r)
  /\ resultTimers' = resultTimers \ {r}
  /\ UNCHANGED <<routes, objectVars, agreed, acceptTimers, answer, resultOf, reported>>
  /\ UNCHANGED channelVars /\ UNCHANGED sessionVars
-----------------------------------------------------------------------------
(* POST /session-invoke: the limit is tested before the body is awaited.   *)
InvokeRequest(i) ==
  /\ invoke[i] = "none"
  /\ invoke' = [invoke EXCEPT ![i] =
                 IF Cardinality(ephemeral) >= MaxInvokes THEN "BACKPRESSURE" ELSE "reading"]
  /\ UNCHANGED <<sessions, ephemeral, frames>>
  /\ UNCHANGED channelVars /\ UNCHANGED routeVars

(* The body is read: the session is opened on the current channel and the  *)
(* invoke registered with its timer; a send that throws fails the call.    *)
InvokeStart(i) ==
  /\ invoke[i] = "reading"
  /\ \/ /\ Listed = {}
        /\ invoke' = [invoke EXCEPT ![i] = "EXECUTOR_OFFLINE"]
        /\ UNCHANGED <<sessions, ephemeral>>
     \/ \E s \in Listed :
          /\ IsExecutorSocket(s) /\ link[s] = "open"
          /\ invoke' = [invoke EXCEPT ![i] = "waiting"]
          /\ ephemeral' = ephemeral \cup {i}
          /\ sessions' = [sessions EXCEPT ![s] = @ \cup {i}]
     \/ \E s \in Listed :
          /\ IsExecutorSocket(s) /\ link[s] = "closing"
          /\ invoke' = [invoke EXCEPT ![i] = "failed"]
          /\ UNCHANGED <<sessions, ephemeral>>
  /\ UNCHANGED frames
  /\ UNCHANGED channelVars /\ UNCHANGED routeVars

(* The object ends the session of an invoke it has just taken out of its   *)
(* map: session.close goes to the current channel, then the call is        *)
(* answered. On a channel already closing the send throws first, and       *)
(* nothing answers the call.                                               *)
Finish(i, code) ==
  /\ ephemeral' = ephemeral \ {i}
  /\ \/ /\ \A s \in Listed : IsExecutorSocket(s) => link[s] = "open"
        /\ sessions' = SessionsWithout(i)
        /\ invoke' = [invoke EXCEPT ![i] = code]
     \/ /\ \E s \in Listed : IsExecutorSocket(s) /\ link[s] = "closing"
        /\ UNCHANGED <<sessions, invoke>>

(* Slip: the timer answers the call and leaves its entry in the map.       *)
InvokeTimeoutKeepsEntry(i) ==
  /\ i \in ephemeral
  /\ invoke' = [invoke EXCEPT ![i] = "timeout"]
  /\ frames' = [frames EXCEPT ![i] = NoFrames]
  /\ UNCHANGED <<sessions, ephemeral>>
  /\ UNCHANGED channelVars /\ UNCHANGED routeVars

InvokeTimeout(i) ==
  /\ i \in ephemeral
  /\ Finish(i, "timeout")
  /\ frames' = [frames EXCEPT ![i] = NoFrames]
  /\ UNCHANGED channelVars /\ UNCHANGED routeVars

(* Slip: a failed invoke keeps its entry in the map.                       *)
FailSessionBudgetKeepsEntry(i) ==
  /\ invoke' = [invoke EXCEPT ![i] = "error"]
  /\ frames' = [frames EXCEPT ![i] = NoFrames]
  /\ UNCHANGED <<sessions, ephemeral>>

(* A chunk out of order or over a budget fails the invoke; the executor is *)
(* not told.                                                               *)
FailSessionBudget(i) ==
  /\ ephemeral' = ephemeral \ {i}
  /\ invoke' = [invoke EXCEPT ![i] = "error"]
  /\ frames' = [frames EXCEPT ![i] = NoFrames]
  /\ UNCHANGED sessions

Pending(i)       == {f \in FrameIds : frames[i][f] # 0}
PendingChunks(i) == {c \in FrameIds \X (1..ChunkCount) : c[2] <= frames[i][c[1]]}

OutOfOrder(i, f, k) == \/ frames[i][f] # k
                       \/ k = 0 /\ Cardinality(Pending(i)) >= MaxPendingFrames

OverBudget(i) == Cardinality(PendingChunks(i)) >= MaxPendingChunks

(* The reassembly entry of a frame once its chunk k is in.                 *)
Received(k) == IF k + 1 = ChunkCount THEN 0 ELSE k + 1

(* session.frame of an ephemeral session: chunk k of frame f, arriving on  *)
(* channel s. A completed frame answers the invoke if it is its reply (a   *)
(* result or an error with the invoke's id), and is discarded if not.      *)
OnSessionFrame(s, i, f, k) ==
  /\ s \in Listed /\ i \in sessions[s] /\ i \in ephemeral
  /\ \/ /\ OutOfOrder(i, f, k) \/ OverBudget(i)
        /\ FailSessionBudget(i)
     \/ /\ ~OutOfOrder(i, f, k) /\ ~OverBudget(i)
        /\ frames' = [frames EXCEPT ![i][f] = Received(k)]
        /\ \/ k + 1 = ChunkCount /\ Finish(i, "result")
           \/ UNCHANGED <<sessions, invoke, ephemeral>>
  /\ UNCHANGED channelVars /\ UNCHANGED routeVars

(* session.close of a viewer's or an invoke's session, arriving on s.      *)
OnSessionClose(s, x) ==
  /\ s \in Listed /\ x \in sessions[s]
  /\ sessions' = [sessions EXCEPT ![s] = @ \ {x}]
  /\ link' = Closing({v \in viewers : v = x})
  /\ ephemeral' = ephemeral \ {x}
  /\ invoke' = [i \in Invokes |-> IF i = x /\ i \in ephemeral THEN "error" ELSE invoke[i]]
  /\ frames' = [i \in Invokes |-> IF i = x THEN NoFrames ELSE frames[i]]
  /\ UNCHANGED <<accepted, executors, viewers, pong, presence, lastSeen, greeter>>
  /\ UNCHANGED routeVars
-----------------------------------------------------------------------------
(* A deploy or a fault: the object's memory and every socket are gone, the *)
(* callers get no response, and only the record in storage remains.        *)
Restart ==
  /\ link' = [s \in Sockets |-> IF link[s] \in {"open", "closing"} THEN "lost" ELSE link[s]]
  /\ routes' = [o \in Operations |-> NoRequest]
  /\ acceptTimers' = {} /\ resultTimers' = {}
  /\ answer' = [r \in Requests |-> IF answer[r] = "pending" THEN "LOST" ELSE answer[r]]
  /\ invoke' = [i \in Invokes |->
                 IF invoke[i] \in {"reading", "waiting"} THEN "lost" ELSE invoke[i]]
  /\ sessions' = [s \in Sockets |-> {}]
  /\ ephemeral' = {} /\ ClearFrames
  /\ UNCHANGED <<accepted, executors, viewers, pong, presence, lastSeen, greeter>>
  /\ UNCHANGED <<objectVars, agreed, resultOf, reported>>

(* Hibernation: with no call in progress and no timer running the memory   *)
(* is dropped; the sockets and their attachments stay.                     *)
Hibernate ==
  /\ acceptTimers = {} /\ resultTimers = {}
  /\ \A i \in Invokes : invoke[i] \notin {"reading", "waiting"}
  /\ routes' = [o \in Operations |-> NoRequest]
  /\ ephemeral' = {} /\ ClearFrames
  /\ UNCHANGED channelVars
  /\ UNCHANGED <<objectVars, agreed, acceptTimers, resultTimers, answer, resultOf, reported>>
  /\ UNCHANGED <<sessions, invoke>>
-----------------------------------------------------------------------------
Next ==
  \/ AcceptChannel \/ AcceptViewer \/ Tick \/ Restart \/ Hibernate
  \/ \E s \in Sockets : OnHello(s) \/ OnEvent(s) \/ FrameRefused(s) \/ ChannelClosed(s)
                        \/ ViewerClosed(s) \/ ViewerRefused(s)
  \/ \E r \in Requests : AcceptTimeout(r) \/ ResultTimeout(r) \/ StaleTimeout(r)
  \/ \E r \in Requests, o \in Operations : Dispatch(r, o)
  \/ \E s \in Sockets, r \in Requests : OnAccepted(s, r) \/ OnResult(s, r)
  \/ \E i \in Invokes : InvokeRequest(i) \/ InvokeStart(i) \/ InvokeTimeout(i)
  \/ \E s \in Sockets, i \in Invokes, f \in FrameIds, k \in 0..(ChunkCount - 1) :
       OnSessionFrame(s, i, f, k)
  \/ \E s \in Sockets, x \in Sockets \cup Invokes : OnSessionClose(s, x)

Spec == Init /\ [][Next]_vars

(* The runtime fires the timers it has been given, and a body that has     *)
(* begun to arrive is read.                                                *)
FairSpec ==
  /\ Spec
  /\ \A r \in Requests : WF_vars(AcceptTimeout(r)) /\ WF_vars(ResultTimeout(r))
  /\ \A i \in Invokes : WF_vars(InvokeStart(i)) /\ WF_vars(InvokeTimeout(i))
-----------------------------------------------------------------------------
(* A call waits for an answer exactly while its route object is the one    *)
(* registered for its operation, its deadline is running, and so is its    *)
(* accept timer unless the executor has accepted: whatever removes a route *)
(* answers its call, so no caller of dispatch() hangs.                     *)
PendingIsRouted ==
  /\ \A o \in Operations :
       routes[o] # NoRequest => answer[routes[o]] = "pending" /\ operation[routes[o]] = o
  /\ \A r \in Requests :
       answer[r] = "pending" => /\ operation[r] \in Operations /\ routes[operation[r]] = r
                                /\ r \in resultTimers
                                /\ r \in agreed \cup acceptTimers

(* Once the close of a channel has been handled, neither the record nor    *)
(* any route still names its fence: webSocketClose leaves nothing behind   *)
(* that waits for a channel that is gone.                                  *)
NothingOnClosedChannel ==
  /\ presence # 0 => link[presence] # "closed"
  /\ \A o \in Operations : routes[o] # NoRequest => link[fence[routes[o]]] # "closed"

(* One executor fence at a time: a channel that the object has not closed  *)
(* is the newest channel.                                                  *)
SingleChannel ==
  \A s \in executors : link[s] = "open" => \A t \in executors : t <= s

(* A viewer the object has not closed was attached to the newest channel:  *)
(* acceptChannel leaves no viewer talking to a channel that never heard of *)
(* its session.                                                            *)
ViewerOnNewestChannel ==
  \A v \in viewers : link[v] = "open" => \A s \in executors : s < v

(* The channel whose hello came last is online as long as it is open and   *)
(* answers pings, however long ago its last frame was: neither the late    *)
(* close of a channel it replaced, nor a late event, nor the loss of the   *)
(* object's memory takes its record away, and an idle but healthy channel  *)
(* is not refused by dispatch.                                             *)
GreetedChannelIsOnline ==
  \A s \in executors : link[s] = "open" /\ greeter = s /\ pong[s] = 0 => Online

(* The executor on the open channel holds no session for a viewer that is  *)
(* gone: the close of a viewer reaches the executor that serves it.        *)
ViewerSessionReleased ==
  \A s \in executors : link[s] = "open" =>
    \A v \in viewers : v \in sessions[s] => link[v] \in {"open", "closing"}

(* An entry of the ephemeral map belongs to a call still unanswered: an    *)
(* answered invoke gives its place under MAX_EPHEMERAL_INVOKES back.       *)
EphemeralIsWaiting == \A i \in ephemeral : invoke[i] = "waiting"

(* A late result is never attached to a newer call that reuses the id: a   *)
(* result that answers a call comes from the channel the call was sent on. *)
(* It holds if that is also the channel its route is fenced to, and not    *)
(* for a call sent between the upgrade and the hello of a new channel.     *)
ResultFromOwnChannel ==
  \A r \in Requests :
    answer[r] = "RESULT" /\ fence[r] = carrier[r] => carrier[resultOf[r]] = carrier[r]

(* The calls of POST /dispatch, as their callers see them.                 *)
CallStatus == [r \in Requests |->
  IF answer[r] = "none" THEN "idle"
  ELSE IF answer[r] # "pending" THEN answer[r]
  ELSE IF r \in agreed THEN "accepted" ELSE "sent"]

Contract == INSTANCE DispatchContract WITH
  Calls <- Requests, NoOp <- NoOperation, Limit <- MaxRoutes,
  status <- CallStatus, op <- operation

(* dispatch() keeps its contract: every call is refused at once or         *)
(* answered once, with a code that agrees with whether the executor had    *)
(* accepted, at most MAX_INFLIGHT_ROUTES of them live at the same time and *)
(* never two with one operation id.                                        *)
KeepsDispatchContract == Contract!Spec

(* Every call that is sent is answered: the result timer bounds the wait   *)
(* whatever the executor does.                                             *)
RequestsAnswered == \A r \in Requests : answer[r] = "pending" ~> answer[r] # "pending"

(* Every ephemeral invoke leaves the map again, whatever the executor does, *)
(* so the places under MAX_EPHEMERAL_INVOKES are never used up for good.    *)
InvokesLeave == \A i \in Invokes : i \in ephemeral ~> i \notin ephemeral
-----------------------------------------------------------------------------
(* What the source says of itself and the code does not do.                *)

(* "completes and times out ephemeral session invokes": a call waiting for *)
(* an ephemeral session is in the map, where its reply or its timer will   *)
(* find it.                                                                *)
WaitingInvokeIsRegistered == \A i \in Invokes : invoke[i] = "waiting" => i \in ephemeral
============================================================================
