----------------------------- MODULE ClientRelay -----------------------------
(***************************************************************************)
(* ConnectClientRelayService on top of the connection registry: the event  *)
(* streams ("links") of desktops, the commands they post, and the routes   *)
(* by which an executor's acceptance and output find their way back.       *)
(*                                                                         *)
(* Everything runs in one process: a method is one action, cut at its      *)
(* awaits. Only command() awaits between its first check and its route.    *)
(* A call of command() is a record of what the desktop posted; two calls   *)
(* may carry the same ids (a retry), and one that a behaviour does not     *)
(* make stands like one that was refused at the door. Links are numbered   *)
(* in the order they are opened and the number is the link's fence; a link *)
(* is admitted by a row of the database, its authority: the desktop's own  *)
(* or an executor's. A row that is active when a request is resolved may   *)
(* be revoked before the request is handled, so a link or stream can be    *)
(* opened at any time.                                                     *)
(***************************************************************************)
EXTENDS ConnectionRegistry

CONSTANTS
  Desktops,
  Calls,           \* calls of command(), as CallRecords
  Loads,           \* which of them a behaviour may make
  CommandIds, CorrelationIds, IdempotencyKeys,
  MaxConnections,  \* MAX_CONNECTIONS
  MaxRoutes,       \* MAX_ROUTES
  MaxPending,      \* MAX_PENDING_ACCEPTS
  MaxInFlight,     \* MAX_DEVICE_IN_FLIGHT
  MaxRate,         \* MAX_COMMANDS_PER_WINDOW
  MaxLinks,        \* bound: links opened in a behaviour
  MaxRevoked,      \* bound: rows revoked in a behaviour
  NoCall, NoRow

Rows == Desktops \cup Executors

CallRecords == [n : Nat, device : Desktops, authority : Rows, target : Executors,
                command : CommandIds, correlation : CorrelationIds, key : IdempotencyKeys]

ASSUME RelayAssumption ==
  /\ Calls \subseteq CallRecords /\ NoCall \notin Calls /\ NoRow \notin Rows
  /\ Loads \subseteq SUBSET Calls
  /\ Desktops \cap Executors = {}
  /\ {MaxConnections, MaxRoutes, MaxPending, MaxInFlight, MaxRate} \subseteq Nat \ {0}
  /\ {MaxLinks, MaxRevoked} \subseteq Nat

VARIABLES
  linked,         \* number of links opened so far
  link,           \* desktops: the link of each desktop, or 0
  authority,      \* the row that admitted it
  rate,           \* rates: commands counted in the current window
  byCommand, byCorrelation, pending,   \* the three maps of routes
  fence,          \* the link each call was made on
  sentOn,         \* the stream its command was written to
  answer,         \* what command() returned, or how far it is
  ends,           \* number of final frames written to the call's link
  revoking, revoked   \* rows with a revocation in progress, committed

linkVars  == <<linked, link, authority, rate>>
routeVars == <<byCommand, byCorrelation, pending, ends>>
callVars  == <<fence, sentOn>>
rowVars   == <<revoking, revoked>>
relayVars == <<linkVars, routeVars, callVars, answer, rowVars>>
vars      == <<registryVars, relayVars>>
-----------------------------------------------------------------------------
Refusals == {"refused", "unauthorized", "overloaded", "executor-offline", "accept-timeout"}

TypeOK ==
  /\ RegistryTypeOK
  /\ linked \in 0..MaxLinks
  /\ link \in [Desktops -> 0..MaxLinks]
  /\ authority \in [Desktops -> Rows \cup {NoRow}]
  /\ rate \in [Desktops -> 0..MaxRate]
  /\ byCommand \in [CommandIds -> Calls \cup {NoCall}]
  /\ byCorrelation \in [CorrelationIds -> Calls \cup {NoCall}]
  /\ pending \in [CommandIds -> Calls \cup {NoCall}]
  /\ fence \in [Calls -> 0..MaxLinks]
  /\ sentOn \in [Calls -> {0} \cup Streams]
  /\ answer \in [Calls -> Refusals \cup {"none", "looking", "found", "waiting", "accepted"}]
  /\ ends \in [Calls -> {0, 1}]
  /\ revoking \subseteq Rows /\ revoked \subseteq Rows

Init ==
  /\ RegistryInit
  /\ linked = 0 /\ link = [d \in Desktops |-> 0]
  /\ authority = [d \in Desktops |-> NoRow] /\ rate = [d \in Desktops |-> 0]
  /\ byCommand = [m \in CommandIds |-> NoCall]
  /\ byCorrelation = [k \in CorrelationIds |-> NoCall]
  /\ pending = [m \in CommandIds |-> NoCall]
  /\ fence = [c \in Calls |-> 0] /\ sentOn = [c \in Calls |-> 0]
  /\ \E load \in Loads : answer = [c \in Calls |-> IF c \in load THEN "none" ELSE "refused"]
  /\ ends = [c \in Calls |-> 0]
  /\ revoking = {} /\ revoked = {}
-----------------------------------------------------------------------------
Routed(c)  == byCommand[c.command] = c
Waiting(c) == pending[c.command] = c

RoutesTo(e) == {c \in Calls : Routed(c) /\ c.target = e}

(* Slip: a link takes only the routes with it that wait.                   *)
RoutesOnWaiting(D) == {c \in Calls : Waiting(c) /\ c.device \in D
                                      /\ link[c.device] \in {0, fence[c]}}

(* The routes a desktop's link takes with it.                              *)
RoutesOn(D) == {c \in Calls : Routed(c) /\ c.device \in D
                               /\ link[c.device] \in {0, fence[c]}}

Without(index, S) == [i \in DOMAIN index |-> IF index[i] \in S THEN NoCall ELSE index[i]]

(* Slip: removeRoute() leaves the correlation id taken.                    *)
RemoveRoutesOfCommand(S) ==
  /\ byCommand' = Without(byCommand, S)
  /\ pending' = Without(pending, S)
  /\ UNCHANGED byCorrelation

(* removeRoute(), with the accept timers of the routes that wait.          *)
RemoveRoutes(S) ==
  /\ byCommand' = Without(byCommand, S)
  /\ byCorrelation' = Without(byCorrelation, S)
  /\ pending' = Without(pending, S)

(* The waiting calls among S return code.                                  *)
Resolved(S, code) == [c \in Calls |-> IF c \in S /\ Waiting(c) THEN code ELSE answer[c]]

(* Slip: only the calls that wait are told.                                *)
ToldWaiting(S) == [c \in Calls |->
  IF c \in S /\ Waiting(c) /\ link[c.device] = fence[c] THEN ends[c] + 1 ELSE ends[c]]

(* A final frame for each call of S is written to its desktop's link.      *)
Told(S) == [c \in Calls |->
             IF c \in S /\ link[c.device] = fence[c] THEN ends[c] + 1 ELSE ends[c]]

(* fenceExecutor(), the listener of the registry.                          *)
FenceExecutor(e) ==
  /\ RemoveRoutes(RoutesTo(e))
  /\ ends' = Told(RoutesTo(e))
  /\ answer' = Resolved(RoutesTo(e), "executor-offline")
  /\ UNCHANGED <<linkVars, callVars, rowVars>>
-----------------------------------------------------------------------------
(* Slip: a stream that is taken over is not announced.                     *)
NotifiedNever(e) == UNCHANGED relayVars

Notified(e) == IF Registered(e) THEN FenceExecutor(e) ELSE UNCHANGED relayVars

OpenStream(e)   == Open(e) /\ Notified(e)
StreamStale(e)  == FindStale(e) /\ Notified(e)

(* What an executor does that concerns no route.                           *)
StreamQuiet(e) ==
  /\ \/ ReceiveHeartbeat(e) \/ ReceiveHello(e) \/ Cut(e) \/ GoQuiet(e)
     \/ HelloExpires(e) \/ TombstoneExpires(e)
  /\ UNCHANGED relayVars
-----------------------------------------------------------------------------
LinkedDesktops == {d \in Desktops : link[d] # 0}

(* A full table gives up its oldest link to a new desktop.                 *)
Evicted(d) ==
  IF link[d] = 0 /\ Cardinality(LinkedDesktops) >= MaxConnections
  THEN {o \in LinkedDesktops : \A other \in LinkedDesktops : link[o] <= link[other]}
  ELSE {}

(* Slip: the waiting calls are not answered.                               *)
LinksLostSilently(D) ==
  /\ RemoveRoutes(RoutesOn(D))
  /\ rate' = [d \in Desktops |-> IF d \in D THEN 0 ELSE rate[d]]
  /\ UNCHANGED <<answer, ends, callVars>>

(* The routes of the desktops D go with their links, their calls being     *)
(* answered "unauthorized".                                                *)
LinksLost(D) ==
  /\ RemoveRoutes(RoutesOn(D))
  /\ answer' = Resolved(RoutesOn(D), "unauthorized")
  /\ rate' = [d \in Desktops |-> IF d \in D THEN 0 ELSE rate[d]]
  /\ UNCHANGED <<ends, callVars>>

MayTakeOver(d, row) == link[d] = 0 \/ authority[d] = row

(* open() for a desktop admitted by row. A link of another authority is    *)
(* refused, which changes nothing; a link of the same one is taken over.   *)
OpenLink(d, row) ==
  LET lost == Evicted(d) \cup ({d} \cap LinkedDesktops) IN
  /\ linked < MaxLinks /\ row \in {d} \cup Executors
  /\ MayTakeOver(d, row)
  /\ linked' = linked + 1
  /\ link' = [o \in Desktops |->
               IF o = d THEN linked + 1 ELSE IF o \in lost THEN 0 ELSE link[o]]
  /\ authority' = [o \in Desktops |->
               IF o = d THEN row ELSE IF o \in lost THEN NoRow ELSE authority[o]]
  /\ LinksLost(lost)
  /\ UNCHANGED rowVars /\ UNCHANGED registryVars

Unlinked(D) ==
  /\ link' = [d \in Desktops |-> IF d \in D THEN 0 ELSE link[d]]
  /\ authority' = [d \in Desktops |-> IF d \in D THEN NoRow ELSE authority[d]]
  /\ UNCHANGED linked

(* The desktop's side of a link goes away: onClose() calls close().        *)
CloseLink(d) ==
  /\ link[d] # 0
  /\ LinksLost({d}) /\ Unlinked({d})
  /\ UNCHANGED rowVars /\ UNCHANGED registryVars
-----------------------------------------------------------------------------
(* The revocation of a row, which has its effects in memory before its     *)
(* transaction commits (or fails).                                         *)
Revocable(row) ==
  /\ row \notin revoked \/ row \in revoking
  /\ Cardinality(revoking \cup revoked \cup {row}) <= MaxRevoked

RevokeDesktop(d) ==
  /\ Revocable(d)
  /\ LinksLost({d}) /\ Unlinked({d})
  /\ revoking' = revoking \cup {d} /\ UNCHANGED revoked
  /\ UNCHANGED registryVars

(* The registry revokes the executor's stream, which fences its routes;    *)
(* then every link admitted by the executor goes.                          *)
RevokeExecutor(e) ==
  LET admitted == {d \in LinkedDesktops : authority[d] = e}
      gone     == RoutesTo(e) \cup RoutesOn(admitted) IN
  /\ Revocable(e)
  /\ Revoke(e)
  /\ RemoveRoutes(gone)
  /\ ends' = Told(RoutesTo(e))
  /\ answer' = [c \in Calls |->
                 IF c \notin gone \/ ~Waiting(c) THEN answer[c]
                 ELSE IF c.target = e THEN "executor-offline" ELSE "unauthorized"]
  /\ Unlinked(admitted)
  /\ rate' = [d \in Desktops |-> IF d \in admitted THEN 0 ELSE rate[d]]
  /\ revoking' = revoking \cup {e}
  /\ UNCHANGED <<callVars, revoked>>

RevocationCommits(row) ==
  /\ row \in revoking
  /\ revoked' = revoked \cup {row}
  /\ revoking' = revoking \ {row}
  /\ UNCHANGED <<linkVars, routeVars, callVars, answer>> /\ UNCHANGED registryVars

RevocationFails(row) ==
  /\ row \in revoking
  /\ revoking' = revoking \ {row}
  /\ UNCHANGED <<linkVars, routeVars, callVars, answer, revoked>> /\ UNCHANGED registryVars
-----------------------------------------------------------------------------
Answer(c, code) == answer' = [answer EXCEPT ![c] = code]

(* takeRate(): the window is over, or has room.                            *)
TakeRate(d) ==
  \E count \in {1, rate[d] + 1} :
    count <= MaxRate /\ rate' = [rate EXCEPT ![d] = count]

(* command() up to its lookups, after the deployment identity is known.    *)
Command(c) ==
  /\ answer[c] = "none"
  /\ \/ Answer(c, "refused") /\ UNCHANGED <<rate, fence>>
     \/ /\ link[c.device] = 0 \/ authority[c.device] # c.authority
        /\ Answer(c, "unauthorized") /\ UNCHANGED <<rate, fence>>
     \/ /\ link[c.device] # 0 /\ authority[c.device] = c.authority
        /\ \/ /\ TakeRate(c.device)
              /\ fence' = [fence EXCEPT ![c] = link[c.device]]
              /\ Answer(c, "looking")
           \/ /\ rate[c.device] = MaxRate
              /\ Answer(c, "overloaded") /\ UNCHANGED <<rate, fence>>
  /\ UNCHANGED <<linked, link, authority, routeVars, sentOn, rowVars>> /\ UNCHANGED registryVars

InFlight(d) == {c \in Calls : Routed(c) /\ c.device = d}

HasRoom(c) ==
  /\ Cardinality({m \in CommandIds : pending[m] # NoCall}) < MaxPending
  /\ Cardinality({m \in CommandIds : byCommand[m] # NoCall}) < MaxRoutes
  /\ Cardinality(InFlight(c.device)) < MaxInFlight
  /\ byCommand[c.command] = NoCall /\ byCorrelation[c.correlation] = NoCall

(* Slip: the link is not looked at again after the lookups.                *)
SameLinkAnyway(c) == link[c.device] # 0

SameLink(c) == link[c.device] = fence[c]

(* The lookups of the source and of the target are answered, or fail.      *)
Lookup(c) ==
  /\ answer[c] = "looking"
  /\ \/ {c.authority, c.target} \cap revoked = {} /\ Answer(c, "found")
     \/ ~SameLink(c) /\ Answer(c, "unauthorized")
     \/ Answer(c, "executor-offline")
  /\ UNCHANGED <<linkVars, routeVars, callVars, rowVars>> /\ UNCHANGED registryVars

(* command() after its lookups.                                            *)
RefuseRoute(c) ==
  /\ answer[c] = "found"
  /\ \/ ~SameLink(c) /\ Answer(c, "unauthorized")
     \/ SameLink(c) /\ ~Registered(c.target) /\ Answer(c, "executor-offline")
     \/ SameLink(c) /\ Fresh(c.target) /\ ~HasRoom(c) /\ Answer(c, "overloaded")
  /\ UNCHANGED <<linkVars, routeVars, callVars, rowVars>> /\ UNCHANGED registryVars

(* The target turns out to be stale, or its stream to have ended when the  *)
(* command is written: the registry lets go of it, its routes are fenced,  *)
(* and the call, whose route was among them if it had one yet, is answered.*)
RouteFails(c) ==
  LET e == c.target
      routed == RoutesTo(e) IN
  /\ answer[c] = "found" /\ SameLink(c)
  /\ \/ FindStale(e) /\ ends' = Told(routed)
     \/ HasRoom(c) /\ WriteFails(e) /\ ends' = Told(routed \cup {c})
  /\ RemoveRoutes(routed)
  /\ answer' = [Resolved(routed, "executor-offline") EXCEPT ![c] = "executor-offline"]
  /\ UNCHANGED <<linkVars, callVars, rowVars>>

Route(c) ==
  /\ answer[c] = "found" /\ SameLink(c)
  /\ Fresh(c.target) /\ stream[c.target] \notin ended
  /\ HasRoom(c)
  /\ byCommand' = [byCommand EXCEPT ![c.command] = c]
  /\ byCorrelation' = [byCorrelation EXCEPT ![c.correlation] = c]
  /\ pending' = [pending EXCEPT ![c.command] = c]
  /\ sentOn' = [sentOn EXCEPT ![c] = stream[c.target]]
  /\ Answer(c, "waiting")
  /\ UNCHANGED <<linkVars, ends, fence, rowVars>> /\ UNCHANGED registryVars

(* Slip: the timer takes the route and does not answer.                    *)
AcceptTimeoutSilent(c) ==
  /\ Waiting(c)
  /\ RemoveRoutes({c})
  /\ UNCHANGED <<linkVars, ends, callVars, answer, rowVars>> /\ UNCHANGED registryVars

(* A call's timer runs while it waits.                                     *)
AcceptTimeout(c) ==
  /\ Waiting(c)
  /\ RemoveRoutes({c})
  /\ Answer(c, "accept-timeout")
  /\ UNCHANGED <<linkVars, ends, callVars, rowVars>> /\ UNCHANGED registryVars
-----------------------------------------------------------------------------
(* command.accepted for the command of call c, from its executor.          *)
Accept(c) ==
  /\ sentOn[c] # 0
  /\ \E w \in Calls :
       /\ pending[c.command] = w
       /\ <<w.target, w.correlation, w.key>> = <<c.target, c.correlation, c.key>>
       /\ pending' = Without(pending, {w})
       /\ Answer(w, "accepted")
  /\ UNCHANGED <<linkVars, byCommand, byCorrelation, ends, callVars, rowVars>>
  /\ UNCHANGED registryVars

(* The route of an output frame about call c, which may carry a command id *)
(* or only the correlation id.                                             *)
RoutesFor(c) ==
  {r \in {byCommand[c.command], byCorrelation[c.correlation]} \ {NoCall} : r.target = c.target}

(* Terminal output about the command of call c, from its executor, ends    *)
(* the route it is written to; other output changes nothing here.          *)
Output(c) ==
  /\ sentOn[c] # 0
  /\ \E r \in RoutesFor(c) : RemoveRoutes({r}) /\ ends' = Told({r})
  /\ UNCHANGED <<linkVars, callVars, answer, rowVars>> /\ UNCHANGED registryVars
-----------------------------------------------------------------------------
Next ==
  \/ \E e \in Executors : OpenStream(e) \/ StreamStale(e) \/ StreamQuiet(e) \/ RevokeExecutor(e)
  \/ \E d \in Desktops, row \in Rows : OpenLink(d, row)
  \/ \E d \in Desktops : CloseLink(d) \/ RevokeDesktop(d)
  \/ \E row \in Rows : RevocationCommits(row) \/ RevocationFails(row)
  \/ \E c \in Calls : Command(c) \/ Lookup(c) \/ RefuseRoute(c) \/ RouteFails(c) \/ Route(c)
                      \/ AcceptTimeout(c) \/ Accept(c) \/ Output(c)

Spec == Init /\ [][Next]_vars

(* The timers that have been started fire.                                 *)
FairSpec == Spec /\ \A c \in Calls : WF_vars(AcceptTimeout(c))
-----------------------------------------------------------------------------
(* A route belongs to the link its desktop has now, whatever was opened,   *)
(* taken over, evicted or revoked while command() waited for its lookups.  *)
RouteOnCurrentLink == \A c \in Calls : Routed(c) => link[c.device] = fence[c] /\ fence[c] # 0

(* The link that a route answers to was admitted by the row that posted    *)
(* the command: when a link goes while command() waits for its lookups, or *)
(* later, and another row opens the desktop's next link, no route of the   *)
(* old link, and so no output, is left for the new one.                    *)
RouteOfOwnAuthority == \A c \in Calls : Routed(c) => authority[c.device] = c.authority

(* A route belongs to the stream its command was written to: when that     *)
(* stream is taken over, found stale or revoked, the route goes with it.   *)
RouteOnOwnStream == \A c \in Calls : Routed(c) => stream[c.target] = sentOn[c] /\ sentOn[c] # 0

(* The three maps agree: a route is found by its command id exactly when   *)
(* it is found by its correlation id, and only routes wait.                *)
IndexesAgree ==
  /\ \A c \in Calls : Routed(c) <=> byCorrelation[c.correlation] = c
  /\ \A m \in CommandIds : byCommand[m] # NoCall => byCommand[m].command = m
  /\ \A k \in CorrelationIds : byCorrelation[k] # NoCall => byCorrelation[k].correlation = k
  /\ \A m \in CommandIds : pending[m] # NoCall => pending[m] = byCommand[m]

(* A route whose call has not been accepted is waiting for it with a timer *)
(* running; one whose call was accepted is not. A call that was refused in *)
(* any way has no route, so nothing is ever written for it.                *)
RouteMatchesAnswer ==
  \A c \in Calls : Routed(c) => answer[c] = (IF Waiting(c) THEN "waiting" ELSE "accepted")

(* A caller of command() that waits is in the map where acceptance, the    *)
(* timer or a lost link will find it, unless its final output has come.    *)
WaitingIsRegistered == \A c \in Calls : answer[c] = "waiting" => Waiting(c) \/ ends[c] = 1

(* The desktop of an accepted command learns how it ends: when the route   *)
(* goes, a final frame is written to its link, or the link itself goes.    *)
AcceptedHearsEnd ==
  [][\A c \in Calls :
       Routed(c) /\ answer[c] = "accepted" /\ byCommand'[c.command] # c =>
         ends'[c] = 1 \/ link'[c.device] # fence[c]]_vars

(* Every call of command() that waits returns, or its final output has     *)
(* been written to its link.                                               *)
CallSettles == \A c \in Calls : answer[c] = "waiting" ~> answer[c] # "waiting" \/ ends[c] = 1
-----------------------------------------------------------------------------
(* "every Desktop client admitted through it loses its link": once the     *)
(* revocation of an executor has committed, no link admitted by it is open.*)
RevokedHasNoLink == \A d \in Desktops : link[d] # 0 => authority[d] \notin revoked
=============================================================================
