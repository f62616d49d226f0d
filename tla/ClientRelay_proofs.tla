------------------------- MODULE ClientRelay_proofs -------------------------
(* Theorems about ClientRelay and the connection registry under it, for    *)
(* every value of their constants.                                         *)
EXTENDS ClientRelay, TLAPS

(* A call keeps the link it was made on while it waits for its lookups.    *)
FenceKnown == \A c \in Calls : answer[c] \in {"looking", "found"} => fence[c] # 0

(* No final frame has been written for a call that may still have a route. *)
NotTold ==
  \A c \in Calls : Routed(c) \/ answer[c] \in {"none", "looking", "found"} => ends[c] = 0

IInv ==
  /\ TypeOK
  /\ RouteOnCurrentLink /\ RouteOnOwnStream
  /\ IndexesAgree /\ RouteMatchesAnswer
  /\ WaitingIsRegistered /\ FenceKnown /\ NotTold
-----------------------------------------------------------------------------
LEMMA CallFacts ==
  /\ NoCall \notin Calls /\ NoRow \notin Rows
  /\ Desktops \cap Executors = {}
  /\ MaxLinks \in Nat /\ MaxStreams \in Nat /\ MaxRate \in Nat
  /\ \A c \in Calls : /\ c.device \in Desktops /\ c.target \in Executors
                      /\ c.command \in CommandIds /\ c.correlation \in CorrelationIds
BY RelayAssumption, RegistryAssumption DEF RelayAssumption, RegistryAssumption, CallRecords

(* What removeRoute() does to the three maps.                              *)
LEMMA RemovalEffect ==
  ASSUME TypeOK, IndexesAgree, NEW S \in SUBSET Calls, RemoveRoutes(S)
  PROVE  /\ byCommand' \in [CommandIds -> Calls \cup {NoCall}]
         /\ byCorrelation' \in [CorrelationIds -> Calls \cup {NoCall}]
         /\ pending' \in [CommandIds -> Calls \cup {NoCall}]
         /\ \A c \in Calls : /\ Routed(c)' <=> Routed(c) /\ c \notin S
                             /\ Waiting(c)' <=> Waiting(c) /\ c \notin S
         /\ IndexesAgree'
<1> USE CallFacts
<1>1. /\ byCommand' = [m \in CommandIds |-> IF byCommand[m] \in S THEN NoCall ELSE byCommand[m]]
      /\ byCorrelation' = [k \in CorrelationIds |->
                            IF byCorrelation[k] \in S THEN NoCall ELSE byCorrelation[k]]
      /\ pending' = [m \in CommandIds |-> IF pending[m] \in S THEN NoCall ELSE pending[m]]
  BY DEF RemoveRoutes, Without, TypeOK
<1>2. /\ byCommand' \in [CommandIds -> Calls \cup {NoCall}]
      /\ byCorrelation' \in [CorrelationIds -> Calls \cup {NoCall}]
      /\ pending' \in [CommandIds -> Calls \cup {NoCall}]
  BY <1>1 DEF TypeOK
<1>3. ASSUME NEW c \in Calls
      PROVE  /\ Routed(c)' <=> Routed(c) /\ c \notin S
             /\ Waiting(c)' <=> Waiting(c) /\ c \notin S
             /\ (byCorrelation'[c.correlation] = c) <=>
                  (byCorrelation[c.correlation] = c /\ c \notin S)
  <2>1. c.command \in CommandIds /\ c.correlation \in CorrelationIds /\ c # NoCall
    OBVIOUS
  <2>2. Routed(c)' <=> Routed(c) /\ c \notin S
    BY <1>1, <2>1 DEF Routed
  <2>3. Waiting(c)' <=> Waiting(c) /\ c \notin S
    BY <1>1, <2>1 DEF Waiting
  <2>4. (byCorrelation'[c.correlation] = c) <=> (byCorrelation[c.correlation] = c /\ c \notin S)
    BY <1>1, <2>1
  <2>5. QED
    BY <2>2, <2>3, <2>4
<1>4. IndexesAgree'
  <2>1. \A c \in Calls : Routed(c)' <=> byCorrelation'[c.correlation] = c
    BY <1>3 DEF IndexesAgree
  <2>2. \A m \in CommandIds : byCommand'[m] # NoCall => byCommand'[m].command = m
    BY <1>1 DEF IndexesAgree
  <2>3. \A k \in CorrelationIds :
          byCorrelation'[k] # NoCall => byCorrelation'[k].correlation = k
    BY <1>1 DEF IndexesAgree
  <2>4. \A m \in CommandIds : pending'[m] # NoCall => pending'[m] = byCommand'[m]
    BY <1>1 DEF IndexesAgree
  <2>5. QED
    BY <2>1, <2>2, <2>3, <2>4 DEF IndexesAgree
<1>5. QED
  BY <1>2, <1>3, <1>4

(* Whoever waits, and whoever is found by a correlation id, has a route.   *)
LEMMA RoutesAreFound ==
  ASSUME TypeOK, IndexesAgree
  PROVE  /\ \A c \in Calls : Waiting(c) => Routed(c)
         /\ \A m \in CommandIds : byCommand[m] # NoCall => Routed(byCommand[m])
         /\ \A m \in CommandIds : pending[m] # NoCall => Routed(pending[m]) /\ Waiting(pending[m])
         /\ \A k \in CorrelationIds : byCorrelation[k] # NoCall => Routed(byCorrelation[k])
<1> USE CallFacts
<1>1. \A m \in CommandIds : byCommand[m] # NoCall => Routed(byCommand[m])
  BY DEF IndexesAgree, Routed
<1>2. \A m \in CommandIds : pending[m] # NoCall => Routed(pending[m]) /\ Waiting(pending[m])
  BY DEF IndexesAgree, Routed, Waiting
<1>3. \A k \in CorrelationIds : byCorrelation[k] # NoCall => Routed(byCorrelation[k])
  BY DEF IndexesAgree, TypeOK
<1>4. \A c \in Calls : Waiting(c) => Routed(c)
  BY <1>2 DEF Waiting
<1>5. QED
  BY <1>1, <1>2, <1>3, <1>4
-----------------------------------------------------------------------------
(* Everything but the types. *)
Sound ==
  /\ RouteOnCurrentLink /\ RouteOnOwnStream
  /\ IndexesAgree /\ RouteMatchesAnswer
  /\ WaitingIsRegistered /\ FenceKnown /\ NotTold

Same(c)      == answer'[c] = answer[c] /\ ends'[c] = ends[c] /\ fence'[c] = fence[c]
GivenUp(c)   == answer'[c] \in Refusals
Advances(c)  == /\ answer[c] \in {"none", "looking"} /\ answer'[c] \in {"looking", "found"}
                /\ ends'[c] = ends[c] /\ fence'[c] # 0
Ended(c)     == answer'[c] \in Refusals \cup {"accepted"} \/ (answer'[c] = "waiting" /\ ends'[c] = 1)

(* The steps that remove a set S of routes, which may be empty, and leave  *)
(* the calls of the other routes alone.                                    *)
LEMMA RemovalKeeps ==
  ASSUME TypeOK, Sound, NEW S \in SUBSET Calls, RemoveRoutes(S), UNCHANGED sentOn,
         \A c \in Calls : Routed(c) /\ c \notin S =>
           /\ Same(c) /\ link'[c.device] = link[c.device]
           /\ stream'[c.target] = stream[c.target],
         \A c \in Calls : ~Routed(c) => Same(c) \/ GivenUp(c) \/ Advances(c),
         \A c \in S : Ended(c)
  PROVE  Sound'
<1>1. RouteOnCurrentLink /\ RouteOnOwnStream /\ IndexesAgree /\ RouteMatchesAnswer
      /\ WaitingIsRegistered /\ FenceKnown /\ NotTold
  BY DEF Sound
<1>2. /\ \A c \in Calls : /\ Routed(c)' <=> Routed(c) /\ c \notin S
                          /\ Waiting(c)' <=> Waiting(c) /\ c \notin S
      /\ IndexesAgree'
  BY <1>1, RemovalEffect
<1>3. sentOn' = sentOn
  OBVIOUS
<1>4. ASSUME NEW c \in Calls, Routed(c)'
      PROVE  link'[c.device] = fence'[c] /\ fence'[c] # 0
  <2>1. Routed(c) /\ Same(c) /\ link'[c.device] = link[c.device]
    BY <1>2, <1>4
  <2>2. QED
    BY <1>1, <2>1 DEF RouteOnCurrentLink, Same
<1>5. ASSUME NEW c \in Calls, Routed(c)'
      PROVE  stream'[c.target] = sentOn'[c] /\ sentOn'[c] # 0
  <2>1. Routed(c) /\ stream'[c.target] = stream[c.target]
    BY <1>2, <1>5
  <2>2. QED
    BY <1>1, <1>3, <2>1 DEF RouteOnOwnStream
<1>6. ASSUME NEW c \in Calls, Routed(c)'
      PROVE  answer'[c] = (IF Waiting(c)' THEN "waiting" ELSE "accepted")
  <2>1. Routed(c) /\ Same(c) /\ (Waiting(c)' <=> Waiting(c))
    BY <1>2, <1>6
  <2>2. QED
    BY <1>1, <2>1 DEF RouteMatchesAnswer, Same
<1>7. ASSUME NEW c \in Calls
      PROVE  Same(c) \/ GivenUp(c) \/ Advances(c) \/ (c \in S /\ Ended(c))
  OBVIOUS
<1>8. ASSUME NEW c \in Calls, answer'[c] = "waiting"
      PROVE  Waiting(c)' \/ ends'[c] = 1
  <2>1. Same(c) \/ ends'[c] = 1
    BY <1>7, <1>8 DEF GivenUp, Advances, Ended, Refusals
  <2>2. CASE c \in S
    BY <1>8, <2>2 DEF Ended, Refusals
  <2>3. CASE c \notin S
    BY <1>1, <1>2, <1>8, <2>1, <2>3 DEF WaitingIsRegistered, Same
  <2>4. QED
    BY <2>2, <2>3
<1>9. ASSUME NEW c \in Calls, answer'[c] \in {"looking", "found"}
      PROVE  fence'[c] # 0
  <2>1. Same(c) \/ Advances(c)
    BY <1>7, <1>9 DEF GivenUp, Ended, Refusals
  <2>2. QED
    BY <1>1, <1>9, <2>1 DEF FenceKnown, Same, Advances
<1>10. ASSUME NEW c \in Calls, Routed(c)' \/ answer'[c] \in {"none", "looking", "found"}
       PROVE  ends'[c] = 0
  <2>1. CASE Routed(c)'
    <3>1. Routed(c) /\ Same(c)
      BY <1>2, <2>1
    <3>2. QED
      BY <1>1, <3>1 DEF NotTold, Same
  <2>2. CASE answer'[c] \in {"none", "looking", "found"}
    <3>1. Same(c) \/ Advances(c)
      BY <1>7, <2>2 DEF GivenUp, Ended, Refusals
    <3>2. QED
      BY <1>1, <2>2, <3>1 DEF NotTold, Same, Advances
  <2>3. QED
    BY <1>10, <2>1, <2>2
<1>11. /\ RouteOnCurrentLink' /\ RouteOnOwnStream' /\ RouteMatchesAnswer'
       /\ WaitingIsRegistered' /\ FenceKnown' /\ NotTold'
  BY <1>4, <1>5, <1>6, <1>8, <1>9, <1>10
     DEF RouteOnCurrentLink, RouteOnOwnStream, RouteMatchesAnswer,
         WaitingIsRegistered, FenceKnown, NotTold
<1>12. QED
  BY <1>2, <1>11 DEF Sound
-----------------------------------------------------------------------------
(* Final frames, each written for a call that had none.                    *)
LEMMA ToldEffect ==
  ASSUME TypeOK, Sound, NEW S \in SUBSET Calls, ends' = Told(S),
         \A c \in S : Routed(c) \/ answer[c] = "found"
  PROVE  /\ ends' \in [Calls -> {0, 1}]
         /\ \A c \in Calls : c \notin S => ends'[c] = ends[c]
         /\ \A c \in S : Routed(c) => ends'[c] = 1
<1>1. ends' = [c \in Calls |->
                IF c \in S /\ link[c.device] = fence[c] THEN ends[c] + 1 ELSE ends[c]]
  BY DEF Told
<1>2. \A c \in Calls : ends[c] \in {0, 1}
  BY DEF TypeOK
<1>3. \A c \in S : ends[c] = 0
  BY DEF Sound, NotTold
<1>4. \A c \in S : Routed(c) => link[c.device] = fence[c]
  BY DEF Sound, RouteOnCurrentLink
<1>5. QED
  BY <1>1, <1>2, <1>3, <1>4

(* The calls of a set of routes when those that wait are answered.         *)
LEMMA ResolvedEffect ==
  ASSUME TypeOK, Sound, NEW S \in SUBSET Calls, NEW code \in Refusals,
         \A c \in S : Routed(c), answer' = Resolved(S, code)
  PROVE  /\ answer' \in [Calls -> Refusals \cup {"none", "looking", "found", "waiting", "accepted"}]
         /\ \A c \in Calls : c \notin S => answer'[c] = answer[c]
         /\ \A c \in S : answer'[c] \in Refusals \cup {"accepted"}
<1>1. answer' = [c \in Calls |-> IF c \in S /\ Waiting(c) THEN code ELSE answer[c]]
  BY DEF Resolved
<1>2. \A c \in S : ~Waiting(c) => answer[c] = "accepted"
  BY DEF Sound, RouteMatchesAnswer
<1>3. answer \in [Calls -> Refusals \cup {"none", "looking", "found", "waiting", "accepted"}]
  BY DEF TypeOK
<1>4. QED
  BY <1>1, <1>2, <1>3

(* A stream goes, and its routes with it.                                  *)
LEMMA FencedSound ==
  ASSUME TypeOK, Sound, NEW e \in Executors, FenceExecutor(e),
         \A f \in Executors : f # e => stream'[f] = stream[f]
  PROVE  Sound'
<1> DEFINE S == RoutesTo(e)
<1>1. S \in SUBSET Calls /\ \A c \in S : Routed(c)
  BY DEF RoutesTo
<1>2. /\ RemoveRoutes(S) /\ ends' = Told(S) /\ answer' = Resolved(S, "executor-offline")
      /\ link' = link /\ fence' = fence /\ sentOn' = sentOn
  BY DEF FenceExecutor, linkVars, callVars
<1>3. \A c \in Calls : Routed(c) /\ c \notin S => c.target # e /\ c.target \in Executors
  BY CallFacts DEF RoutesTo
<1>4. "executor-offline" \in Refusals
  BY DEF Refusals
<1> HIDE DEF S
<1>5. /\ \A c \in Calls : c \notin S => ends'[c] = ends[c] /\ answer'[c] = answer[c]
      /\ \A c \in S : answer'[c] \in Refusals \cup {"accepted"}
  BY <1>1, <1>2, <1>4, ToldEffect, ResolvedEffect
<1>6. \A c \in Calls : c \notin S => Same(c)
  BY <1>2, <1>5 DEF Same
<1>7. \A c \in S : Ended(c)
  BY <1>5 DEF Ended
<1>8. \A c \in Calls : Routed(c) /\ c \notin S =>
        /\ Same(c) /\ link'[c.device] = link[c.device]
        /\ stream'[c.target] = stream[c.target]
  BY <1>2, <1>3, <1>6
<1>9. \A c \in Calls : ~Routed(c) => Same(c) \/ GivenUp(c) \/ Advances(c)
  BY <1>1, <1>6
<1>10. QED
  BY <1>1, <1>2, <1>7, <1>8, <1>9, RemovalKeeps

(* Links go, and their routes with them.                                   *)
LEMMA LostSound ==
  ASSUME TypeOK, Sound, NEW D \in SUBSET Desktops, LinksLost(D),
         \A d \in Desktops : d \notin D /\ link[d] # 0 => link'[d] = link[d],
         stream' = stream
  PROVE  Sound'
<1> DEFINE S == RoutesOn(D)
<1>1. S \in SUBSET Calls /\ \A c \in S : Routed(c)
  BY DEF RoutesOn
<1>2. /\ RemoveRoutes(S) /\ ends' = ends /\ answer' = Resolved(S, "unauthorized")
      /\ fence' = fence /\ sentOn' = sentOn
  BY DEF LinksLost, callVars
<1>3. \A c \in Calls : Routed(c) /\ c \notin S => link'[c.device] = link[c.device]
  BY CallFacts DEF RoutesOn, Sound, RouteOnCurrentLink
<1>4. "unauthorized" \in Refusals
  BY DEF Refusals
<1> HIDE DEF S
<1>5. /\ \A c \in Calls : c \notin S => answer'[c] = answer[c]
      /\ \A c \in S : answer'[c] \in Refusals \cup {"accepted"}
  BY <1>1, <1>2, <1>4, ResolvedEffect
<1>6. \A c \in Calls : c \notin S => Same(c)
  BY <1>2, <1>5 DEF Same
<1>7. \A c \in S : Ended(c)
  BY <1>5 DEF Ended
<1>8. \A c \in Calls : Routed(c) /\ c \notin S =>
        /\ Same(c) /\ link'[c.device] = link[c.device]
        /\ stream'[c.target] = stream[c.target]
  BY <1>3, <1>6
<1>9. \A c \in Calls : ~Routed(c) => Same(c) \/ GivenUp(c) \/ Advances(c)
  BY <1>1, <1>6
<1>10. QED
  BY <1>1, <1>2, <1>7, <1>8, <1>9, RemovalKeeps
-----------------------------------------------------------------------------
(* Steps that leave the routes as they are.                                *)
LEMMA QuietSound ==
  ASSUME TypeOK, Sound,
         UNCHANGED <<byCommand, byCorrelation, pending, link, sentOn>>,
         \A c \in Calls : Routed(c) => Same(c) /\ stream'[c.target] = stream[c.target],
         \A c \in Calls : ~Routed(c) => Same(c) \/ GivenUp(c) \/ Advances(c)
  PROVE  Sound'
<1>1. RemoveRoutes({})
  <2>1. /\ Without(byCommand, {}) = byCommand
        /\ Without(byCorrelation, {}) = byCorrelation
        /\ Without(pending, {}) = pending
    BY DEF Without, TypeOK
  <2>2. QED
    BY <2>1 DEF RemoveRoutes
<1>2. \A c \in Calls : Routed(c) /\ c \notin {} =>
        /\ Same(c) /\ link'[c.device] = link[c.device]
        /\ stream'[c.target] = stream[c.target]
  OBVIOUS
<1>3. {} \in SUBSET Calls /\ \A c \in {} : Ended(c)
  OBVIOUS
<1>4. QED
  BY <1>1, <1>2, <1>3, RemovalKeeps

LEMMA StreamSound ==
  ASSUME TypeOK, Sound, NEW e \in Executors,
         OpenStream(e) \/ StreamStale(e) \/ StreamQuiet(e)
  PROVE  Sound'
<1>1. CASE StreamQuiet(e)
  <2>1. stream' = stream /\ UNCHANGED relayVars
    BY <1>1 DEF StreamQuiet, ReceiveHeartbeat, ReceiveHello, Touch, Cut, GoQuiet,
               HelloExpires, TombstoneExpires
  <2>2. QED
    BY <2>1, QuietSound DEF relayVars, linkVars, routeVars, callVars, Same
<1>2. CASE OpenStream(e) \/ StreamStale(e)
  <2>1. Notified(e) /\ \A f \in Executors : f # e => stream'[f] = stream[f]
    BY <1>2 DEF OpenStream, StreamStale, Open, FindStale, Unregister, TypeOK, RegistryTypeOK
  <2>2. CASE Registered(e)
    BY <2>1, <2>2, FencedSound DEF Notified
  <2>3. CASE ~Registered(e)
    <3>1. UNCHANGED relayVars
      BY <2>1, <2>3 DEF Notified
    <3>2. \A c \in Calls : Routed(c) => c.target # e /\ c.target \in Executors
      BY <2>3, CallFacts DEF Registered, Sound, RouteOnOwnStream
    <3>3. QED
      BY <2>1, <3>1, <3>2, QuietSound DEF relayVars, linkVars, routeVars, callVars, Same
  <2>4. QED
    BY <2>2, <2>3
<1>3. QED
  BY <1>1, <1>2

LEMMA LinkSound ==
  ASSUME TypeOK, Sound, NEW d \in Desktops,
         (\E row \in Rows : OpenLink(d, row)) \/ CloseLink(d) \/ RevokeDesktop(d)
  PROVE  Sound'
<1>1. CASE CloseLink(d) \/ RevokeDesktop(d)
  <2>1. /\ LinksLost({d}) /\ Unlinked({d}) /\ stream' = stream
    BY <1>1 DEF CloseLink, RevokeDesktop, registryVars
  <2>2. \A o \in Desktops : o \notin {d} => link'[o] = link[o]
    BY <2>1 DEF Unlinked
  <2>3. QED
    BY <2>1, <2>2, LostSound
<1>2. CASE \E row \in Rows : OpenLink(d, row)
  <2> DEFINE lost == Evicted(d) \cup ({d} \cap LinkedDesktops)
  <2>1. /\ LinksLost(lost) /\ stream' = stream
        /\ link' = [o \in Desktops |->
                     IF o = d THEN linked + 1 ELSE IF o \in lost THEN 0 ELSE link[o]]
    BY <1>2 DEF OpenLink, registryVars
  <2>2. lost \in SUBSET Desktops /\ (link[d] # 0 => d \in lost)
    BY DEF Evicted, LinkedDesktops
  <2> HIDE DEF lost
  <2>3. \A o \in Desktops : o \notin lost /\ link[o] # 0 => link'[o] = link[o]
    BY <2>1, <2>2
  <2>4. QED
    BY <2>1, <2>2, <2>3, LostSound
<1>3. QED
  BY <1>1, <1>2

LEMMA RevokeExecutorSound ==
  ASSUME TypeOK, Sound, NEW e \in Executors, RevokeExecutor(e)
  PROVE  Sound'
<1> DEFINE admitted == {d \in LinkedDesktops : authority[d] = e}
           S == RoutesTo(e) \cup RoutesOn(admitted)
<1>1. S \in SUBSET Calls /\ RoutesTo(e) \in SUBSET Calls /\ \A c \in S : Routed(c)
  BY DEF RoutesOn, RoutesTo
<1>2. /\ RemoveRoutes(S) /\ ends' = Told(RoutesTo(e))
      /\ answer' = [c \in Calls |->
           IF c \notin S \/ ~Waiting(c) THEN answer[c]
           ELSE IF c.target = e THEN "executor-offline" ELSE "unauthorized"]
      /\ link' = [d \in Desktops |-> IF d \in admitted THEN 0 ELSE link[d]]
      /\ fence' = fence /\ sentOn' = sentOn
      /\ stream' = [stream EXCEPT ![e] = 0]
  BY DEF RevokeExecutor, Unlinked, callVars, Revoke, Unregister
<1>3. \A c \in Calls : Routed(c) /\ c \notin S =>
        link'[c.device] = link[c.device] /\ stream'[c.target] = stream[c.target]
  <2>1. SUFFICES ASSUME NEW c \in Calls, Routed(c), c \notin S
                 PROVE  link'[c.device] = link[c.device] /\ stream'[c.target] = stream[c.target]
    OBVIOUS
  <2>2. c.target # e /\ c.target \in Executors /\ c.device \in Desktops
    BY <2>1, CallFacts DEF RoutesTo
  <2>3. c.device \notin admitted
    BY <2>1 DEF RoutesOn, Sound, RouteOnCurrentLink
  <2>4. QED
    BY <1>2, <2>2, <2>3 DEF TypeOK, RegistryTypeOK
<1>4. \A c \in S : ~Waiting(c) => answer[c] = "accepted"
  BY <1>1 DEF Sound, RouteMatchesAnswer
<1>5. RoutesTo(e) \subseteq S
  OBVIOUS
<1> HIDE DEF S, admitted
<1>6. \A c \in Calls : c \notin S => ends'[c] = ends[c] /\ answer'[c] = answer[c]
  <2>1. \A c \in RoutesTo(e) : Routed(c)
    BY <1>1, <1>5
  <2>2. QED
    BY <1>1, <1>2, <1>5, <2>1, ToldEffect
<1>7. \A c \in S : answer'[c] \in Refusals \cup {"accepted"}
  BY <1>1, <1>2, <1>4 DEF Refusals
<1>8. \A c \in Calls : c \notin S => Same(c)
  BY <1>2, <1>6 DEF Same
<1>9. \A c \in S : Ended(c)
  BY <1>7 DEF Ended
<1>10. \A c \in Calls : Routed(c) /\ c \notin S =>
         /\ Same(c) /\ link'[c.device] = link[c.device]
         /\ stream'[c.target] = stream[c.target]
  BY <1>3, <1>8
<1>11. \A c \in Calls : ~Routed(c) => Same(c) \/ GivenUp(c) \/ Advances(c)
  BY <1>1, <1>8
<1>12. QED
  BY <1>1, <1>2, <1>9, <1>10, <1>11, RemovalKeeps

LEMMA RevocationSound ==
  ASSUME TypeOK, Sound, NEW row \in Rows, RevocationCommits(row) \/ RevocationFails(row)
  PROVE  Sound'
BY QuietSound DEF RevocationCommits, RevocationFails, linkVars, routeVars, callVars,
                  registryVars, Same
-----------------------------------------------------------------------------
(* A call that only changes its own answer, before it has a route.         *)
LEMMA AnswerSound ==
  ASSUME TypeOK, Sound, NEW c \in Calls, NEW code,
         answer[c] \in {"none", "looking", "found"},
         Answer(c, code),
         fence' = fence \/ fence' = [fence EXCEPT ![c] = link[c.device]],
         code \in Refusals
           \/ (answer[c] \in {"none", "looking"} /\ code \in {"looking", "found"} /\ fence'[c] # 0),
         UNCHANGED <<byCommand, byCorrelation, pending, link, sentOn, ends, stream>>
  PROVE  Sound'
<1>1. ~Routed(c)
  BY DEF Sound, RouteMatchesAnswer
<1>2. \A o \in Calls : o # c => Same(o)
  BY DEF Answer, Same, TypeOK
<1>3. GivenUp(c) \/ Advances(c)
  BY DEF Answer, GivenUp, Advances, TypeOK
<1>4. QED
  BY <1>1, <1>2, <1>3, QuietSound

LEMMA CommandSound ==
  ASSUME TypeOK, Sound, NEW c \in Calls, Command(c) \/ Lookup(c) \/ RefuseRoute(c)
  PROVE  Sound'
<1>1. UNCHANGED <<byCommand, byCorrelation, pending, link, sentOn, ends, stream>>
  BY DEF Command, Lookup, RefuseRoute, linkVars, routeVars, callVars, registryVars
<1>2. CASE Command(c)
  <2>1. answer[c] = "none"
    BY <1>2 DEF Command
  <2>2. CASE fence' = fence /\ \E code \in Refusals : Answer(c, code)
    BY <1>1, <2>1, <2>2, AnswerSound
  <2>3. CASE /\ fence' = [fence EXCEPT ![c] = link[c.device]]
             /\ link[c.device] # 0 /\ Answer(c, "looking")
    <3>1. fence'[c] # 0
      BY <2>3 DEF TypeOK
    <3>2. QED
      BY <1>1, <2>1, <2>3, <3>1, AnswerSound
  <2>4. QED
    BY <1>2, <2>2, <2>3 DEF Command, Refusals
<1>3. CASE Lookup(c)
  <2>1. answer[c] = "looking" /\ fence' = fence /\ fence[c] # 0
    BY <1>3 DEF Lookup, callVars, Sound, FenceKnown
  <2>2. \E code \in Refusals \cup {"found"} : Answer(c, code)
    BY <1>3 DEF Lookup, Refusals
  <2>3. QED
    BY <1>1, <2>1, <2>2, AnswerSound
<1>4. CASE RefuseRoute(c)
  <2>1. answer[c] = "found" /\ fence' = fence
    BY <1>4 DEF RefuseRoute, callVars
  <2>2. \E code \in Refusals : Answer(c, code)
    BY <1>4 DEF RefuseRoute, Refusals
  <2>3. QED
    BY <1>1, <2>1, <2>2, AnswerSound
<1>5. QED
  BY <1>2, <1>3, <1>4

LEMMA RouteFailsSound ==
  ASSUME TypeOK, Sound, NEW c \in Calls, RouteFails(c)
  PROVE  Sound'
<1> DEFINE e == c.target
           S == RoutesTo(e)
<1>1. S \in SUBSET Calls /\ \A o \in S : Routed(o)
  BY DEF RoutesTo
<1>2. answer[c] = "found" /\ ~Routed(c) /\ c \notin S /\ e \in Executors
  BY <1>1, CallFacts DEF RouteFails, Sound, RouteMatchesAnswer
<1>3. /\ RemoveRoutes(S)
      /\ answer' = [Resolved(S, "executor-offline") EXCEPT ![c] = "executor-offline"]
      /\ ends' = Told(S) \/ ends' = Told(S \cup {c})
      /\ link' = link /\ fence' = fence /\ sentOn' = sentOn
      /\ stream' = [stream EXCEPT ![e] = 0]
  BY DEF RouteFails, linkVars, callVars, FindStale, WriteFails, Unregister
<1>4. \A o \in Calls : Routed(o) /\ o \notin S => stream'[o.target] = stream[o.target]
  BY <1>3, CallFacts DEF RoutesTo, TypeOK, RegistryTypeOK
<1>5. \A o \in S : ~Waiting(o) => answer[o] = "accepted"
  BY <1>1 DEF Sound, RouteMatchesAnswer
<1> HIDE DEF S
<1>6. /\ \A o \in Calls : o \notin S /\ o # c => answer'[o] = answer[o]
      /\ \A o \in S : answer'[o] \in Refusals \cup {"accepted"}
      /\ answer'[c] \in Refusals
  BY <1>1, <1>2, <1>3, <1>5 DEF Resolved, Refusals
<1>7. \A o \in Calls : o \notin S /\ o # c => ends'[o] = ends[o]
  <2>1. CASE ends' = Told(S)
    BY <1>1, <2>1, ToldEffect
  <2>2. CASE ends' = Told(S \cup {c})
    <3>1. S \cup {c} \in SUBSET Calls
          /\ \A o \in S \cup {c} : Routed(o) \/ answer[o] = "found"
      BY <1>1, <1>2
    <3>2. \A o \in Calls : o \notin S \cup {c} => ends'[o] = ends[o]
      BY <2>2, <3>1, ToldEffect
    <3>3. QED
      BY <3>2
  <2>3. QED
    BY <1>3, <2>1, <2>2
<1>8. \A o \in Calls : o \notin S /\ o # c => Same(o)
  BY <1>3, <1>6, <1>7 DEF Same
<1>9. \A o \in S : Ended(o)
  BY <1>6 DEF Ended
<1>10. \A o \in Calls : Routed(o) /\ o \notin S =>
         /\ Same(o) /\ link'[o.device] = link[o.device]
         /\ stream'[o.target] = stream[o.target]
  BY <1>2, <1>3, <1>4, <1>8
<1>11. \A o \in Calls : ~Routed(o) => Same(o) \/ GivenUp(o) \/ Advances(o)
  BY <1>1, <1>6, <1>8 DEF GivenUp
<1>12. QED
  BY <1>1, <1>3, <1>9, <1>10, <1>11, RemovalKeeps

LEMMA AcceptTimeoutSound ==
  ASSUME TypeOK, Sound, NEW c \in Calls, AcceptTimeout(c)
  PROVE  Sound'
<1>1. /\ RemoveRoutes({c}) /\ Answer(c, "accept-timeout")
      /\ UNCHANGED <<link, ends, fence, sentOn, stream>>
  BY DEF AcceptTimeout, linkVars, callVars, registryVars
<1>2. Routed(c)
  BY RoutesAreFound DEF AcceptTimeout, Sound
<1>3. \A o \in Calls : o \notin {c} => Same(o)
  BY <1>1 DEF Answer, Same, TypeOK
<1>4. \A o \in {c} : Ended(o)
  BY <1>1 DEF Answer, Ended, Refusals, TypeOK
<1>5. \A o \in Calls : Routed(o) /\ o \notin {c} =>
        /\ Same(o) /\ link'[o.device] = link[o.device]
        /\ stream'[o.target] = stream[o.target]
  BY <1>1, <1>3
<1>6. \A o \in Calls : ~Routed(o) => Same(o) \/ GivenUp(o) \/ Advances(o)
  BY <1>2, <1>3
<1>7. QED
  BY <1>1, <1>4, <1>5, <1>6, RemovalKeeps

LEMMA OutputSound ==
  ASSUME TypeOK, Sound, NEW c \in Calls, Output(c)
  PROVE  Sound'
<1>1. PICK r \in RoutesFor(c) : RemoveRoutes({r}) /\ ends' = Told({r})
  BY DEF Output
<1>2. UNCHANGED <<link, answer, fence, sentOn, stream>>
  BY DEF Output, linkVars, callVars, registryVars
<1>3. r \in Calls /\ Routed(r)
  <2>1. c.command \in CommandIds /\ c.correlation \in CorrelationIds
    BY CallFacts
  <2>2. r # NoCall /\ (r = byCommand[c.command] \/ r = byCorrelation[c.correlation])
    BY <1>1 DEF RoutesFor
  <2>3. r \in Calls
    BY <2>1, <2>2 DEF TypeOK
  <2>4. QED
    BY <2>1, <2>2, <2>3, RoutesAreFound DEF Sound
<1>4. /\ \A o \in Calls : o \notin {r} => ends'[o] = ends[o]
      /\ ends'[r] = 1
  BY <1>1, <1>3, ToldEffect
<1>5. \A o \in Calls : o \notin {r} => Same(o)
  BY <1>2, <1>4 DEF Same
<1>6. answer[r] \in {"waiting", "accepted"}
  BY <1>3 DEF Sound, RouteMatchesAnswer
<1>7. \A o \in {r} : Ended(o)
  BY <1>2, <1>4, <1>6 DEF Ended
<1>8. \A o \in Calls : Routed(o) /\ o \notin {r} =>
        /\ Same(o) /\ link'[o.device] = link[o.device]
        /\ stream'[o.target] = stream[o.target]
  BY <1>2, <1>5
<1>9. \A o \in Calls : ~Routed(o) => Same(o) \/ GivenUp(o) \/ Advances(o)
  BY <1>3, <1>5
<1>10. QED
  BY <1>1, <1>2, <1>3, <1>7, <1>8, <1>9, RemovalKeeps

(* A route is added for a call that has none, its ids being free.          *)
LEMMA RouteSound ==
  ASSUME TypeOK, Sound, NEW c \in Calls, Route(c)
  PROVE  Sound'
<1>1. /\ RouteOnCurrentLink /\ RouteOnOwnStream /\ IndexesAgree /\ RouteMatchesAnswer
      /\ WaitingIsRegistered /\ FenceKnown /\ NotTold
  BY DEF Sound
<1>2. /\ answer[c] = "found" /\ link[c.device] = fence[c]
      /\ byCommand[c.command] = NoCall /\ byCorrelation[c.correlation] = NoCall
      /\ stream[c.target] # 0
      /\ byCommand' = [byCommand EXCEPT ![c.command] = c]
      /\ byCorrelation' = [byCorrelation EXCEPT ![c.correlation] = c]
      /\ pending' = [pending EXCEPT ![c.command] = c]
      /\ sentOn' = [sentOn EXCEPT ![c] = stream[c.target]]
      /\ answer' = [answer EXCEPT ![c] = "waiting"]
      /\ UNCHANGED <<link, ends, fence, stream>>
  BY DEF Route, HasRoom, SameLink, Fresh, Registered, Answer, linkVars, registryVars
<1>3. c.command \in CommandIds /\ c.correlation \in CorrelationIds /\ c # NoCall
  BY CallFacts
<1>4. ASSUME NEW o \in Calls
      PROVE  /\ (byCommand'[o.command] = o) <=> (byCommand[o.command] = o \/ o = c)
             /\ (byCorrelation'[o.correlation] = o) <=> (byCorrelation[o.correlation] = o \/ o = c)
             /\ (pending'[o.command] = o) <=> (pending[o.command] = o \/ o = c)
  <2>1. o.command \in CommandIds /\ o.correlation \in CorrelationIds /\ o # NoCall
    BY CallFacts
  <2>2. pending[c.command] = NoCall
    BY <1>1, <1>2, <1>3 DEF IndexesAgree
  <2>3. (byCommand'[o.command] = o) <=> (byCommand[o.command] = o \/ o = c)
    BY <1>2, <1>3, <2>1 DEF TypeOK
  <2>4. (byCorrelation'[o.correlation] = o) <=> (byCorrelation[o.correlation] = o \/ o = c)
    BY <1>2, <1>3, <2>1 DEF TypeOK
  <2>5. (pending'[o.command] = o) <=> (pending[o.command] = o \/ o = c)
    BY <1>2, <1>3, <2>1, <2>2 DEF TypeOK
  <2>6. QED
    BY <2>3, <2>4, <2>5
<1>5. \A o \in Calls : o # c => sentOn'[o] = sentOn[o] /\ answer'[o] = answer[o]
  BY <1>2 DEF TypeOK
<1>6. sentOn'[c] = stream[c.target] /\ answer'[c] = "waiting" /\ fence[c] # 0 /\ ends[c] = 0
  BY <1>1, <1>2 DEF TypeOK, FenceKnown, NotTold
<1>7. RouteOnCurrentLink'
  BY <1>1, <1>2, <1>4, <1>6 DEF RouteOnCurrentLink, Routed
<1>8. RouteOnOwnStream'
  BY <1>1, <1>2, <1>4, <1>5, <1>6 DEF RouteOnOwnStream, Routed
<1>9. IndexesAgree'
  <2>1. \A o \in Calls : (byCommand'[o.command] = o) <=> (byCorrelation'[o.correlation] = o)
    BY <1>1, <1>4 DEF IndexesAgree, Routed
  <2>2. \A m \in CommandIds : byCommand'[m] # NoCall => byCommand'[m].command = m
    BY <1>1, <1>2, <1>3 DEF IndexesAgree, TypeOK
  <2>3. \A k \in CorrelationIds :
          byCorrelation'[k] # NoCall => byCorrelation'[k].correlation = k
    BY <1>1, <1>2, <1>3 DEF IndexesAgree, TypeOK
  <2>4. \A m \in CommandIds : pending'[m] # NoCall => pending'[m] = byCommand'[m]
    BY <1>1, <1>2, <1>3 DEF IndexesAgree, TypeOK
  <2>5. QED
    BY <2>1, <2>2, <2>3, <2>4 DEF IndexesAgree, Routed
<1>10. RouteMatchesAnswer'
  BY <1>1, <1>4, <1>5, <1>6 DEF RouteMatchesAnswer, Routed, Waiting
<1>11. WaitingIsRegistered'
  BY <1>1, <1>2, <1>4, <1>5 DEF WaitingIsRegistered, Waiting
<1>12. FenceKnown'
  BY <1>1, <1>2, <1>5, <1>6 DEF FenceKnown
<1>13. NotTold'
  BY <1>1, <1>2, <1>4, <1>5, <1>6 DEF NotTold, Routed
<1>14. QED
  BY <1>7, <1>8, <1>9, <1>10, <1>11, <1>12, <1>13 DEF Sound

LEMMA AcceptSound ==
  ASSUME TypeOK, Sound, NEW c \in Calls, Accept(c)
  PROVE  Sound'
<1>1. /\ RouteOnCurrentLink /\ RouteOnOwnStream /\ IndexesAgree /\ RouteMatchesAnswer
      /\ WaitingIsRegistered /\ FenceKnown /\ NotTold
  BY DEF Sound
<1>2. PICK w \in Calls : /\ pending[c.command] = w
                        /\ pending' = Without(pending, {w})
                        /\ Answer(w, "accepted")
  BY DEF Accept
<1>3. UNCHANGED <<link, byCommand, byCorrelation, ends, fence, sentOn, stream>>
  BY DEF Accept, linkVars, callVars, registryVars
<1>4. Routed(w) /\ Waiting(w)
  BY <1>1, <1>2, CallFacts, RoutesAreFound
<1>5. pending' = [m \in CommandIds |-> IF pending[m] = w THEN NoCall ELSE pending[m]]
  BY <1>2 DEF Without, TypeOK
<1>6. ASSUME NEW o \in Calls
      PROVE  (pending'[o.command] = o) <=> (pending[o.command] = o /\ o # w)
  BY <1>5, CallFacts
<1>7. answer'[w] = "accepted" /\ \A o \in Calls : o # w => answer'[o] = answer[o]
  BY <1>2 DEF Answer, TypeOK
<1>8. RouteOnCurrentLink' /\ RouteOnOwnStream'
  BY <1>1, <1>3 DEF RouteOnCurrentLink, RouteOnOwnStream, Routed
<1>9. IndexesAgree'
  BY <1>1, <1>3, <1>5 DEF IndexesAgree, Routed
<1>10. RouteMatchesAnswer'
  BY <1>1, <1>3, <1>6, <1>7 DEF RouteMatchesAnswer, Routed, Waiting
<1>11. WaitingIsRegistered'
  BY <1>1, <1>3, <1>6, <1>7 DEF WaitingIsRegistered, Waiting
<1>12. FenceKnown'
  BY <1>1, <1>3, <1>7 DEF FenceKnown
<1>13. NotTold'
  BY <1>1, <1>3, <1>4, <1>7 DEF NotTold, Routed
<1>14. QED
  BY <1>8, <1>9, <1>10, <1>11, <1>12, <1>13 DEF Sound
-----------------------------------------------------------------------------
(* Every step of the relay is a step of the registry or leaves it alone.   *)
LEMMA RegistryStep == [Next]_vars => [RegistryNext]_registryVars
<1> SUFFICES ASSUME [Next]_vars PROVE [RegistryNext]_registryVars
  OBVIOUS
<1>1. CASE UNCHANGED vars
  BY <1>1 DEF vars
<1>2. ASSUME NEW e \in Executors,
             OpenStream(e) \/ StreamStale(e) \/ StreamQuiet(e) \/ RevokeExecutor(e)
      PROVE  RegistryNext
  BY <1>2 DEF OpenStream, StreamStale, StreamQuiet, RevokeExecutor, RegistryNext
<1>3. ASSUME NEW d \in Desktops,
             (\E row \in Rows : OpenLink(d, row)) \/ CloseLink(d) \/ RevokeDesktop(d)
      PROVE  UNCHANGED registryVars
  BY <1>3 DEF OpenLink, CloseLink, RevokeDesktop
<1>4. ASSUME NEW row \in Rows, RevocationCommits(row) \/ RevocationFails(row)
      PROVE  UNCHANGED registryVars
  BY <1>4 DEF RevocationCommits, RevocationFails
<1>5. ASSUME NEW c \in Calls, RouteFails(c)
      PROVE  RegistryNext
  <2>1. c.target \in Executors
    BY CallFacts
  <2>2. FindStale(c.target) \/ WriteFails(c.target)
    BY <1>5 DEF RouteFails
  <2>3. QED
    BY <2>1, <2>2 DEF RegistryNext
<1>6. ASSUME NEW c \in Calls,
             Command(c) \/ Lookup(c) \/ RefuseRoute(c) \/ Route(c)
               \/ AcceptTimeout(c) \/ Accept(c) \/ Output(c)
      PROVE  UNCHANGED registryVars
  BY <1>6 DEF Command, Lookup, RefuseRoute, Route, AcceptTimeout, Accept, Output
<1>7. QED
  BY <1>1, <1>2, <1>3, <1>4, <1>5, <1>6 DEF Next

(* A stream has been opened when it is registered.                         *)
StreamsOpened == \A e \in Executors : stream[e] <= opened

RegistryInv == RegistryTypeOK /\ StreamsOpened /\ OpenIsRegistered /\ TombstoneIsOfAbsent

LEMMA RegistryTyped == RegistryTypeOK /\ [RegistryNext]_registryVars => RegistryTypeOK'
<1> SUFFICES ASSUME RegistryTypeOK, [RegistryNext]_registryVars PROVE RegistryTypeOK'
  OBVIOUS
<1> USE RegistryAssumption DEF RegistryAssumption, RegistryTypeOK, Streams
<1>1. CASE UNCHANGED registryVars
  BY <1>1 DEF registryVars
<1>2. ASSUME NEW e \in Executors, Open(e) PROVE RegistryTypeOK'
  <2>1. /\ opened + 1 \in 1..MaxStreams /\ TakenOver(e) \subseteq 1..MaxStreams
        /\ opened + 1 \in 0..MaxStreams
    BY <1>2 DEF Open, TakenOver
  <2>2. /\ opened' = opened + 1 /\ stream' = [stream EXCEPT ![e] = opened + 1]
        /\ ended' = ended \cup TakenOver(e) /\ quiet' = quiet \ {e}
        /\ tombstones' = tombstones \ {e} /\ hello' = hello \ {e}
    BY <1>2 DEF Open
  <2>3. stream' \in [Executors -> {0} \cup 1..MaxStreams]
    BY <2>1, <2>2
  <2>4. ended' \subseteq 1..MaxStreams
    BY <2>1, <2>2
  <2>5. opened' \in 0..MaxStreams
    BY <2>1, <2>2
  <2>6. quiet' \subseteq Executors /\ tombstones' \subseteq Executors /\ hello' \subseteq Executors
    BY <2>2
  <2>7. QED
    BY <2>3, <2>4, <2>5, <2>6
<1>3. ASSUME NEW e \in Executors, ReceiveHeartbeat(e) \/ ReceiveHello(e) PROVE RegistryTypeOK'
  BY <1>3 DEF ReceiveHeartbeat, ReceiveHello, Touch
<1>4. ASSUME NEW e \in Executors, Cut(e) \/ GoQuiet(e) PROVE RegistryTypeOK'
  BY <1>4 DEF Cut, GoQuiet, Registered
<1>5. ASSUME NEW e \in Executors, HelloExpires(e) \/ TombstoneExpires(e) PROVE RegistryTypeOK'
  BY <1>5 DEF HelloExpires, TombstoneExpires
<1>6. ASSUME NEW e \in Executors, FindStale(e) \/ WriteFails(e) \/ Revoke(e) PROVE RegistryTypeOK'
  <2>1. /\ opened' = opened /\ stream' = [stream EXCEPT ![e] = 0]
        /\ ended' = ended \cup ({stream[e]} \ {0}) /\ quiet' \subseteq quiet
        /\ tombstones' \subseteq tombstones \cup {e} /\ hello' \subseteq hello
    BY <1>6 DEF FindStale, WriteFails, Revoke, Unregister
  <2>2. stream' \in [Executors -> {0} \cup 1..MaxStreams]
    BY <2>1
  <2>3. ended' \subseteq 1..MaxStreams
    BY <2>1
  <2>4. quiet' \subseteq Executors /\ tombstones' \subseteq Executors /\ hello' \subseteq Executors
    BY <2>1
  <2>5. QED
    BY <2>1, <2>2, <2>3, <2>4
<1>7. QED
  BY <1>1, <1>2, <1>3, <1>4, <1>5, <1>6 DEF RegistryNext

LEMMA RegistryInductive == RegistryInv /\ [RegistryNext]_registryVars => RegistryInv'
<1> SUFFICES ASSUME RegistryInv, [RegistryNext]_registryVars PROVE RegistryInv'
  OBVIOUS
<1>1. RegistryTypeOK'
  BY RegistryTyped DEF RegistryInv
<1>2. /\ opened \in Nat /\ \A e \in Executors : stream[e] \in Nat /\ stream[e] <= opened
      /\ \A s \in 1..opened : s \notin ended => \E e \in Executors : stream[e] = s
      /\ \A e, f \in Executors : stream[e] # 0 /\ stream[e] = stream[f] => e = f
      /\ \A e \in tombstones : stream[e] = 0
      /\ stream = [e \in Executors |-> stream[e]] /\ tombstones \subseteq Executors
  BY RegistryAssumption
     DEF RegistryAssumption, RegistryInv, RegistryTypeOK, StreamsOpened, OpenIsRegistered,
         TombstoneIsOfAbsent, Registered, Streams
<1> USE DEF StreamsOpened, OpenIsRegistered, TombstoneIsOfAbsent, Registered
<1>3. CASE UNCHANGED registryVars
  BY <1>1, <1>2, <1>3 DEF RegistryInv, registryVars
<1>4. ASSUME NEW e \in Executors, Open(e) PROVE RegistryInv'
  <2>1. /\ opened' = opened + 1 /\ stream' = [stream EXCEPT ![e] = opened + 1]
        /\ ended' = ended \cup ({stream[e]} \ {0}) /\ tombstones' = tombstones \ {e}
    BY <1>4 DEF Open, TakenOver
  <2>2. stream'[e] = opened + 1 /\ \A f \in Executors : f # e => stream'[f] = stream[f]
    BY <1>2, <2>1
  <2>3. StreamsOpened' /\ TombstoneIsOfAbsent'
    <3>1. \A f \in Executors : stream'[f] <= opened + 1
      BY <1>2, <2>2
    <3>2. \A f \in tombstones' : stream'[f] = 0
      BY <1>2, <2>1, <2>2
    <3>3. QED
      BY <2>1, <3>1, <3>2
  <2>4. \A s \in 1..(opened + 1) : s \notin ended' => \E f \in Executors : stream'[f] = s
    <3>1. SUFFICES ASSUME NEW s \in 1..(opened + 1), s \notin ended'
                   PROVE  \E f \in Executors : stream'[f] = s
      OBVIOUS
    <3>2. CASE s = opened + 1
      BY <2>2, <3>2
    <3>3. CASE s # opened + 1
      <4>1. s \in 1..opened /\ s \notin ended /\ s # 0
        BY <1>2, <2>1, <3>1, <3>3
      <4>2. PICK f \in Executors : stream[f] = s
        BY <1>2, <4>1
      <4>3. f # e
        BY <2>1, <3>1, <4>1, <4>2
      <4>4. QED
        BY <2>2, <4>2, <4>3
    <3>4. QED
      BY <3>2, <3>3
  <2>5. \A f, g \in Executors : stream'[f] # 0 /\ stream'[f] = stream'[g] => f = g
    BY <1>2, <2>2
  <2>6. QED
    BY <1>1, <2>1, <2>3, <2>4, <2>5 DEF RegistryInv
<1>5. ASSUME NEW e \in Executors,
             ReceiveHeartbeat(e) \/ ReceiveHello(e) \/ HelloExpires(e)
               \/ TombstoneExpires(e) \/ GoQuiet(e) \/ Cut(e)
      PROVE  RegistryInv'
  <2>1. /\ opened' = opened /\ stream' = stream /\ ended \subseteq ended'
        /\ tombstones' \subseteq tombstones
    BY <1>5 DEF ReceiveHeartbeat, ReceiveHello, Touch, HelloExpires, TombstoneExpires,
               GoQuiet, Cut
  <2>2. QED
    BY <1>1, <1>2, <2>1 DEF RegistryInv
<1>6. ASSUME NEW e \in Executors, FindStale(e) \/ WriteFails(e) \/ Revoke(e)
      PROVE  RegistryInv'
  <2>1. /\ opened' = opened /\ stream' = [stream EXCEPT ![e] = 0]
        /\ ended' = ended \cup ({stream[e]} \ {0})
        /\ tombstones' \subseteq tombstones \cup {e}
    BY <1>6 DEF FindStale, WriteFails, Revoke, Unregister
  <2>2. stream'[e] = 0 /\ \A f \in Executors : f # e => stream'[f] = stream[f]
    BY <1>2, <2>1
  <2>3. StreamsOpened' /\ TombstoneIsOfAbsent'
    BY <1>2, <2>1, <2>2
  <2>4. ASSUME NEW s \in 1..opened, s \notin ended'
        PROVE  \E f \in Executors : stream'[f] = s
    <3>1. s # 0 /\ s \notin ended /\ s # stream[e]
      BY <1>2, <2>1, <2>4
    <3>2. PICK f \in Executors : stream[f] = s
      BY <1>2, <3>1
    <3>3. QED
      BY <2>2, <3>1, <3>2
  <2>5. \A f, g \in Executors : stream'[f] # 0 /\ stream'[f] = stream'[g] => f = g
    BY <1>2, <2>2
  <2>6. QED
    BY <1>1, <2>1, <2>3, <2>4, <2>5 DEF RegistryInv
<1>7. QED
  BY <1>3, <1>4, <1>5, <1>6 DEF RegistryNext
-----------------------------------------------------------------------------
Answers == Refusals \cup {"none", "looking", "found", "waiting", "accepted"}

(* The types, in four parts that steps disturb separately.                 *)
LinkTypes  == /\ linked \in 0..MaxLinks /\ link \in [Desktops -> 0..MaxLinks]
              /\ authority \in [Desktops -> Rows \cup {NoRow}]
RouteTypes == /\ byCommand \in [CommandIds -> Calls \cup {NoCall}]
              /\ byCorrelation \in [CorrelationIds -> Calls \cup {NoCall}]
              /\ pending \in [CommandIds -> Calls \cup {NoCall}]
CallTypes  == fence \in [Calls -> 0..MaxLinks] /\ sentOn \in [Calls -> {0} \cup Streams]
AnswerTypes == answer \in [Calls -> Answers] /\ ends \in [Calls -> {0, 1}]
RateTypes  == rate \in [Desktops -> 0..MaxRate]
RowTypes   == revoking \subseteq Rows /\ revoked \subseteq Rows

LEMMA TypeParts ==
  TypeOK <=> /\ RegistryTypeOK /\ LinkTypes /\ RouteTypes /\ CallTypes
             /\ AnswerTypes /\ RateTypes /\ RowTypes
BY DEF TypeOK, LinkTypes, RouteTypes, CallTypes, AnswerTypes, RateTypes, RowTypes, Answers

LEMMA TypePartsNext ==
  RegistryTypeOK' /\ LinkTypes' /\ RouteTypes' /\ CallTypes' /\ AnswerTypes' /\ RateTypes' /\ RowTypes'
    => TypeOK'
BY DEF TypeOK, LinkTypes, RouteTypes, CallTypes, AnswerTypes, RateTypes, RowTypes, Answers

LEMMA FencedTyped ==
  ASSUME TypeOK, Sound, NEW e \in Executors, FenceExecutor(e)
  PROVE  /\ LinkTypes' /\ RouteTypes' /\ CallTypes' /\ AnswerTypes' /\ RateTypes' /\ RowTypes'
<1>1. RoutesTo(e) \in SUBSET Calls /\ \A c \in RoutesTo(e) : Routed(c)
  BY DEF RoutesTo
<1>2. RouteTypes'
  BY <1>1, RemovalEffect DEF FenceExecutor, RouteTypes, Sound
<1>3. AnswerTypes'
  <2>1. ends' \in [Calls -> {0, 1}]
    BY <1>1, ToldEffect DEF FenceExecutor
  <2>2. answer' \in [Calls -> Answers]
    BY <1>1, ResolvedEffect DEF FenceExecutor, Answers, Refusals
  <2>3. QED
    BY <2>1, <2>2 DEF AnswerTypes
<1>4. QED
  BY <1>2, <1>3, TypeParts
     DEF FenceExecutor, linkVars, callVars, rowVars, LinkTypes, CallTypes, RateTypes, RowTypes

LEMMA LostTyped ==
  ASSUME TypeOK, Sound, NEW D \in SUBSET Desktops, LinksLost(D)
  PROVE  RouteTypes' /\ CallTypes' /\ AnswerTypes' /\ RateTypes'
<1>1. RoutesOn(D) \in SUBSET Calls /\ \A c \in RoutesOn(D) : Routed(c)
  BY DEF RoutesOn
<1>2. RouteTypes'
  BY <1>1, RemovalEffect DEF LinksLost, RouteTypes, Sound
<1>3. answer' \in [Calls -> Answers] /\ ends' = ends
  BY <1>1, ResolvedEffect DEF LinksLost, Answers, Refusals
<1>4. rate' \in [Desktops -> 0..MaxRate]
  BY CallFacts DEF LinksLost, TypeOK
<1>5. QED
  BY <1>2, <1>3, <1>4 DEF LinksLost, callVars, AnswerTypes, CallTypes, RateTypes, TypeOK

LEMMA UnlinkedTyped ==
  ASSUME TypeOK, NEW D, Unlinked(D)
  PROVE  LinkTypes'
BY CallFacts DEF Unlinked, LinkTypes, TypeOK

LEMMA StreamTyped ==
  ASSUME TypeOK, Sound, NEW e \in Executors,
         OpenStream(e) \/ StreamStale(e) \/ StreamQuiet(e) \/ RevokeExecutor(e)
  PROVE  /\ LinkTypes' /\ RouteTypes' /\ CallTypes' /\ AnswerTypes' /\ RateTypes' /\ RowTypes'
<1>1. CASE OpenStream(e) \/ StreamStale(e) \/ StreamQuiet(e)
  <2>1. FenceExecutor(e) \/ UNCHANGED relayVars
    BY <1>1 DEF OpenStream, StreamStale, StreamQuiet, Notified
  <2>2. CASE UNCHANGED relayVars
    BY <2>2, TypeParts
       DEF relayVars, linkVars, routeVars, callVars, rowVars, LinkTypes, RouteTypes, CallTypes,
           AnswerTypes, RateTypes, RowTypes
  <2>3. QED
    BY <2>1, <2>2, FencedTyped
<1>2. CASE RevokeExecutor(e)
  <2> DEFINE admitted == {d \in LinkedDesktops : authority[d] = e}
             S == RoutesTo(e) \cup RoutesOn(admitted)
  <2>1. /\ S \in SUBSET Calls /\ RoutesTo(e) \in SUBSET Calls
        /\ \A c \in RoutesTo(e) : Routed(c)
    BY DEF RoutesOn, RoutesTo
  <2>2. /\ RemoveRoutes(S) /\ ends' = Told(RoutesTo(e)) /\ Unlinked(admitted)
        /\ answer' = [c \in Calls |->
             IF c \notin S \/ ~Waiting(c) THEN answer[c]
             ELSE IF c.target = e THEN "executor-offline" ELSE "unauthorized"]
        /\ rate' = [d \in Desktops |-> IF d \in admitted THEN 0 ELSE rate[d]]
        /\ revoking' = revoking \cup {e} /\ UNCHANGED <<fence, sentOn, revoked>>
    BY <1>2 DEF RevokeExecutor, callVars
  <2> HIDE DEF S, admitted
  <2>3. RouteTypes'
    BY <2>1, <2>2, RemovalEffect DEF RouteTypes, Sound
  <2>4. LinkTypes'
    BY <2>2, UnlinkedTyped
  <2>5. answer' \in [Calls -> Answers]
    BY <2>2 DEF Answers, Refusals, TypeOK
  <2>6. ends' \in [Calls -> {0, 1}]
    BY <2>1, <2>2, ToldEffect
  <2>7. rate' \in [Desktops -> 0..MaxRate]
    BY <2>2, CallFacts DEF TypeOK
  <2>8. revoking' \subseteq Rows
    BY <2>2 DEF TypeOK, Rows
  <2>9. QED
    BY <2>2, <2>3, <2>4, <2>5, <2>6, <2>7, <2>8
       DEF AnswerTypes, CallTypes, RateTypes, RowTypes, TypeOK
<1>3. QED
  BY <1>1, <1>2

LEMMA LinkTyped ==
  ASSUME TypeOK, Sound, NEW d \in Desktops,
         (\E row \in Rows : OpenLink(d, row)) \/ CloseLink(d) \/ RevokeDesktop(d)
  PROVE  /\ LinkTypes' /\ RouteTypes' /\ CallTypes' /\ AnswerTypes' /\ RateTypes' /\ RowTypes'
<1>1. CASE CloseLink(d) \/ RevokeDesktop(d)
  <2>1. LinksLost({d}) /\ Unlinked({d})
    BY <1>1 DEF CloseLink, RevokeDesktop
  <2>2. RowTypes'
    BY <1>1 DEF CloseLink, RevokeDesktop, rowVars, RowTypes, TypeOK, Rows
  <2>3. QED
    BY <2>1, <2>2, LostTyped, UnlinkedTyped
<1>2. CASE \E row \in Rows : OpenLink(d, row)
  <2> DEFINE lost == Evicted(d) \cup ({d} \cap LinkedDesktops)
  <2>1. PICK row \in Rows :
          /\ linked < MaxLinks /\ linked' = linked + 1
          /\ link' = [o \in Desktops |->
               IF o = d THEN linked + 1 ELSE IF o \in lost THEN 0 ELSE link[o]]
          /\ authority' = [o \in Desktops |->
               IF o = d THEN row ELSE IF o \in lost THEN NoRow ELSE authority[o]]
          /\ LinksLost(lost) /\ UNCHANGED rowVars
    BY <1>2 DEF OpenLink
  <2>2. lost \in SUBSET Desktops
    BY DEF Evicted, LinkedDesktops
  <2> HIDE DEF lost
  <2>3. linked + 1 \in 0..MaxLinks /\ 0 \in 0..MaxLinks
    BY <2>1, CallFacts DEF TypeOK
  <2>4. LinkTypes'
    BY <2>1, <2>3 DEF LinkTypes, TypeOK
  <2>5. RowTypes'
    BY <2>1 DEF rowVars, RowTypes, TypeOK
  <2>6. QED
    BY <2>1, <2>2, <2>4, <2>5, LostTyped
<1>3. QED
  BY <1>1, <1>2

LEMMA AnswerTyped ==
  ASSUME TypeOK, NEW c \in Calls, NEW code \in Answers, Answer(c, code), ends' = ends
  PROVE  AnswerTypes'
BY DEF Answer, AnswerTypes, TypeOK, Answers

LEMMA CallTyped ==
  ASSUME TypeOK, Sound, NEW c \in Calls,
         Command(c) \/ Lookup(c) \/ RefuseRoute(c) \/ RouteFails(c) \/ Route(c)
           \/ AcceptTimeout(c) \/ Accept(c) \/ Output(c)
  PROVE  /\ LinkTypes' /\ RouteTypes' /\ CallTypes' /\ AnswerTypes' /\ RateTypes' /\ RowTypes'
<1>0. LinkTypes /\ RouteTypes /\ CallTypes /\ AnswerTypes /\ RateTypes /\ RowTypes
  BY TypeParts
<1>1. LinkTypes' /\ RowTypes'
  BY <1>0 DEF Command, Lookup, RefuseRoute, RouteFails, Route, AcceptTimeout, Accept, Output,
              linkVars, rowVars, LinkTypes, RowTypes
<1>2. RateTypes'
  <2>1. CASE rate' = rate
    BY <1>0, <2>1 DEF RateTypes
  <2>2. CASE TakeRate(c.device)
    BY <1>0, <2>2, CallFacts DEF TakeRate, RateTypes
  <2>3. QED
    BY <2>1, <2>2 DEF Command, Lookup, RefuseRoute, RouteFails, Route, AcceptTimeout, Accept,
                      Output, linkVars
<1>3. CallTypes'
  <2>1. link[c.device] \in 0..MaxLinks /\ stream[c.target] \in {0} \cup Streams
    BY CallFacts DEF TypeOK, RegistryTypeOK
  <2>2. fence' = fence \/ fence' = [fence EXCEPT ![c] = link[c.device]]
    BY DEF Command, Lookup, RefuseRoute, RouteFails, Route, AcceptTimeout, Accept, Output, callVars
  <2>3. sentOn' = sentOn \/ sentOn' = [sentOn EXCEPT ![c] = stream[c.target]]
    BY DEF Command, Lookup, RefuseRoute, RouteFails, Route, AcceptTimeout, Accept, Output, callVars
  <2>4. QED
    BY <1>0, <2>1, <2>2, <2>3 DEF CallTypes
<1>4. CASE Command(c) \/ Lookup(c) \/ RefuseRoute(c)
  <2>1. UNCHANGED routeVars
    BY <1>4 DEF Command, Lookup, RefuseRoute
  <2>2. \E code \in Answers : Answer(c, code)
    BY <1>4 DEF Command, Lookup, RefuseRoute, Answers, Refusals
  <2>3. QED
    BY <1>0, <1>1, <1>2, <1>3, <2>1, <2>2, AnswerTyped DEF routeVars, RouteTypes
<1>5. CASE RouteFails(c)
  <2> DEFINE S == RoutesTo(c.target)
  <2>1. S \in SUBSET Calls /\ \A o \in S : Routed(o)
    BY DEF RoutesTo
  <2>2. /\ RemoveRoutes(S)
        /\ ends' = Told(S) \/ ends' = Told(S \cup {c})
        /\ answer[c] = "found"
        /\ answer' = [Resolved(S, "executor-offline") EXCEPT ![c] = "executor-offline"]
    BY <1>5 DEF RouteFails
  <2> HIDE DEF S
  <2>3. ends' \in [Calls -> {0, 1}]
    <3>1. S \cup {c} \in SUBSET Calls /\ \A o \in S \cup {c} : Routed(o) \/ answer[o] = "found"
      BY <2>1, <2>2
    <3>2. CASE ends' = Told(S)
      BY <2>1, <3>2, ToldEffect
    <3>3. CASE ends' = Told(S \cup {c})
      BY <3>1, <3>3, ToldEffect
    <3>4. QED
      BY <2>2, <3>2, <3>3
  <2>4. answer' \in [Calls -> Answers]
    <3>1. Resolved(S, "executor-offline") \in [Calls -> Answers]
      BY DEF Resolved, Answers, Refusals, TypeOK
    <3>2. "executor-offline" \in Answers
      BY DEF Answers, Refusals
    <3>3. QED
      BY <2>2, <3>1, <3>2
  <2>5. RouteTypes'
    BY <2>1, <2>2, RemovalEffect DEF RouteTypes, Sound
  <2>6. QED
    BY <1>1, <1>2, <1>3, <2>3, <2>4, <2>5 DEF AnswerTypes
<1>6. CASE Route(c)
  <2>1. RouteTypes'
    BY <1>0, <1>6 DEF Route, RouteTypes
  <2>2. AnswerTypes'
    BY <1>6, AnswerTyped DEF Route, Answers
  <2>3. QED
    BY <1>1, <1>2, <1>3, <2>1, <2>2
<1>7. CASE AcceptTimeout(c)
  <2>1. RouteTypes'
    BY <1>7, RemovalEffect DEF AcceptTimeout, RouteTypes, Sound
  <2>2. AnswerTypes'
    BY <1>7, AnswerTyped DEF AcceptTimeout, Answers, Refusals
  <2>3. QED
    BY <1>1, <1>2, <1>3, <2>1, <2>2
<1>8. CASE Accept(c)
  <2>1. PICK w \in Calls : pending' = Without(pending, {w}) /\ Answer(w, "accepted")
    BY <1>8 DEF Accept
  <2>2. pending' = [m \in CommandIds |-> IF pending[m] = w THEN NoCall ELSE pending[m]]
    BY <2>1 DEF Without, TypeOK
  <2>3. RouteTypes'
    BY <1>0, <1>8, <2>2 DEF Accept, RouteTypes
  <2>4. AnswerTypes'
    BY <1>8, <2>1, AnswerTyped DEF Accept, Answers
  <2>5. QED
    BY <1>1, <1>2, <1>3, <2>3, <2>4
<1>9. CASE Output(c)
  <2>1. PICK r \in RoutesFor(c) : RemoveRoutes({r}) /\ ends' = Told({r})
    BY <1>9 DEF Output
  <2>2. r \in Calls /\ Routed(r)
    <3>1. c.command \in CommandIds /\ c.correlation \in CorrelationIds
      BY CallFacts
    <3>2. r # NoCall /\ (r = byCommand[c.command] \/ r = byCorrelation[c.correlation])
      BY <2>1 DEF RoutesFor
    <3>3. r \in Calls
      BY <3>1, <3>2 DEF TypeOK
    <3>4. QED
      BY <3>1, <3>2, <3>3, RoutesAreFound DEF Sound
  <2>3. RouteTypes'
    BY <2>1, <2>2, RemovalEffect DEF RouteTypes, Sound
  <2>4. ends' \in [Calls -> {0, 1}]
    BY <2>1, <2>2, ToldEffect
  <2>5. answer' = answer
    BY <1>9 DEF Output
  <2>6. QED
    BY <1>0, <1>1, <1>2, <1>3, <2>3, <2>4, <2>5 DEF AnswerTypes
<1>10. QED
  BY <1>4, <1>5, <1>6, <1>7, <1>8, <1>9

LEMMA RelayInductive == IInv /\ [Next]_vars => IInv'
<1> SUFFICES ASSUME IInv, [Next]_vars PROVE TypeOK' /\ Sound'
  BY DEF IInv, Sound
<1>1. TypeOK /\ Sound /\ RegistryTypeOK
  BY TypeParts DEF IInv, Sound
<1>2. RegistryTypeOK'
  BY <1>1, RegistryStep, RegistryTyped
<1> DEFINE Types == LinkTypes /\ RouteTypes /\ CallTypes /\ AnswerTypes /\ RateTypes /\ RowTypes
<1>3. CASE UNCHANGED vars
  <2>1. Types'
    BY <1>1, <1>3, TypeParts
       DEF vars, relayVars, linkVars, routeVars, callVars, rowVars, LinkTypes, RouteTypes,
           CallTypes, AnswerTypes, RateTypes, RowTypes
  <2>2. Sound'
    BY <1>1, <1>3, QuietSound
       DEF vars, registryVars, relayVars, linkVars, routeVars, callVars, Same
  <2>3. QED
    BY <1>2, <2>1, <2>2, TypePartsNext
<1>4. ASSUME NEW e \in Executors,
             OpenStream(e) \/ StreamStale(e) \/ StreamQuiet(e) \/ RevokeExecutor(e)
      PROVE  Types' /\ Sound'
  BY <1>1, <1>4, StreamTyped, StreamSound, RevokeExecutorSound
<1>5. ASSUME NEW d \in Desktops,
             (\E row \in Rows : OpenLink(d, row)) \/ CloseLink(d) \/ RevokeDesktop(d)
      PROVE  Types' /\ Sound'
  BY <1>1, <1>5, LinkTyped, LinkSound
<1>6. ASSUME NEW row \in Rows, RevocationCommits(row) \/ RevocationFails(row)
      PROVE  Types' /\ Sound'
  <2>1. Types'
    BY <1>1, <1>6, TypeParts
       DEF RevocationCommits, RevocationFails, linkVars, routeVars, callVars, LinkTypes,
           RouteTypes, CallTypes, AnswerTypes, RateTypes, RowTypes
  <2>2. QED
    BY <1>1, <1>6, <2>1, RevocationSound
<1>7. ASSUME NEW c \in Calls,
             Command(c) \/ Lookup(c) \/ RefuseRoute(c) \/ RouteFails(c) \/ Route(c)
               \/ AcceptTimeout(c) \/ Accept(c) \/ Output(c)
      PROVE  Types' /\ Sound'
  BY <1>1, <1>7, CallTyped, CommandSound, RouteFailsSound, RouteSound, AcceptTimeoutSound,
     AcceptSound, OutputSound
<1>8. (Types' /\ Sound') \/ UNCHANGED vars
  <2> HIDE DEF Types
  <2>1. QED
    BY <1>4, <1>5, <1>6, <1>7 DEF Next
<1>9. QED
  BY <1>2, <1>3, <1>8, TypePartsNext
-----------------------------------------------------------------------------
LEMMA InitSound == Init => IInv /\ RegistryInv
<1> SUFFICES ASSUME Init PROVE IInv /\ RegistryInv
  OBVIOUS
<1>0. PICK load \in Loads : answer = [c \in Calls |-> IF c \in load THEN "none" ELSE "refused"]
  BY DEF Init
<1>a. answer \in [Calls -> {"none", "refused"}]
  BY <1>0
<1>1. TypeOK
  BY <1>a, CallFacts DEF Init, RegistryInit, TypeOK, RegistryTypeOK, Streams, Refusals
<1>2. /\ answer \in [Calls -> {"none", "refused"}] /\ ends = [c \in Calls |-> 0]
      /\ byCommand = [m \in CommandIds |-> NoCall] /\ pending = [m \in CommandIds |-> NoCall]
      /\ byCorrelation = [k \in CorrelationIds |-> NoCall]
  BY <1>a DEF Init
<1>3. \A c \in Calls : ~Routed(c) /\ byCorrelation[c.correlation] # c
  BY <1>2, CallFacts DEF Routed
<1>4. RouteOnCurrentLink /\ RouteOnOwnStream /\ RouteMatchesAnswer
  BY <1>3 DEF RouteOnCurrentLink, RouteOnOwnStream, RouteMatchesAnswer
<1>5. IndexesAgree
  BY <1>2, <1>3 DEF IndexesAgree
<1>6. WaitingIsRegistered /\ FenceKnown /\ NotTold
  BY <1>2, <1>3 DEF WaitingIsRegistered, FenceKnown, NotTold
<1>7. /\ opened = 0 /\ stream = [e \in Executors |-> 0] /\ tombstones = {}
  BY DEF Init, RegistryInit
<1>8. StreamsOpened /\ OpenIsRegistered /\ TombstoneIsOfAbsent
  BY <1>7 DEF StreamsOpened, OpenIsRegistered, TombstoneIsOfAbsent, Registered
<1>9. QED
  BY <1>1, <1>4, <1>5, <1>6, <1>8 DEF IInv, RegistryInv, TypeOK

LEMMA AlwaysSound == Spec => [](IInv /\ RegistryInv)
<1>1. Init => IInv /\ RegistryInv
  BY InitSound
<1>2. IInv /\ RegistryInv /\ [Next]_vars => (IInv /\ RegistryInv)'
  BY RelayInductive, RegistryStep, RegistryInductive
<1>3. QED
  BY <1>1, <1>2, PTL DEF Spec

(* The variables have their types, in particular no call is ever told      *)
(* twice how its command ended.                                            *)
THEOREM TypeCorrect == Spec => []TypeOK
<1>1. IInv => TypeOK
  BY DEF IInv
<1>2. QED
  BY <1>1, AlwaysSound, PTL

(* command() registers a route after awaiting two lookups: the route it    *)
(* registers is on the link that its desktop has at that moment, and no    *)
(* route outlives its link.                                                *)
THEOREM RoutesDieWithLink == Spec => []RouteOnCurrentLink
<1>1. IInv => RouteOnCurrentLink
  BY DEF IInv
<1>2. QED
  BY <1>1, AlwaysSound, PTL

(* No route outlives the executor's stream that its command was written    *)
(* to, however that stream was lost.                                       *)
THEOREM RoutesDieWithStream == Spec => []RouteOnOwnStream
<1>1. IInv => RouteOnOwnStream
  BY DEF IInv
<1>2. QED
  BY <1>1, AlwaysSound, PTL

(* The three maps of routes never disagree, and a route is waiting for its *)
(* acceptance exactly as long as its call has no answer.                   *)
THEOREM IndexesConsistent == Spec => [](IndexesAgree /\ RouteMatchesAnswer)
<1>1. IInv => IndexesAgree /\ RouteMatchesAnswer
  BY DEF IInv
<1>2. QED
  BY <1>1, AlwaysSound, PTL

(* No removal of a route, in whichever order links, streams, timers and    *)
(* revocations come, forgets a caller of command() that waits, but the one *)
(* whose final output has been written already.                            *)
THEOREM NoWaiterForgotten == Spec => []WaitingIsRegistered
<1>1. IInv => WaitingIsRegistered
  BY DEF IInv
<1>2. QED
  BY <1>1, AlwaysSound, PTL

(* Every stream that has not ended is registered for one executor.         *)
THEOREM NoOrphanStream == Spec => []OpenIsRegistered
<1>1. RegistryInv => OpenIsRegistered
  BY DEF RegistryInv
<1>2. QED
  BY <1>1, AlwaysSound, PTL

(* An executor with a stream is never remembered as stale.                 *)
THEOREM NoStaleTombstone == Spec => []TombstoneIsOfAbsent
<1>1. RegistryInv => TombstoneIsOfAbsent
  BY DEF RegistryInv
<1>2. QED
  BY <1>1, AlwaysSound, PTL

(* The registry keeps its own specification inside the relay: nothing the  *)
(* relay does changes its state in a way of its own.                       *)
THEOREM RelayKeepsRegistry == Spec => RegistrySpec
<1>1. Init => RegistryInit
  BY DEF Init
<1>2. QED
  BY <1>1, RegistryStep, PTL DEF Spec, RegistrySpec
-----------------------------------------------------------------------------
(* A link has been opened when a desktop has it.                           *)
LinksOpened == \A d \in Desktops : link[d] <= linked

LEMMA LinksOpenedKept == TypeOK /\ LinksOpened /\ [Next]_vars => LinksOpened'
<1> SUFFICES ASSUME TypeOK, LinksOpened, [Next]_vars PROVE LinksOpened'
  OBVIOUS
<1>1. linked \in Nat /\ \A d \in Desktops : link[d] \in Nat /\ link[d] <= linked
  BY CallFacts DEF TypeOK, LinksOpened
<1>2. CASE UNCHANGED <<linked, link>>
  BY <1>1, <1>2 DEF LinksOpened
<1>3. CASE \E D : Unlinked(D)
  BY <1>1, <1>3 DEF Unlinked, LinksOpened
<1>4. ASSUME NEW d \in Desktops, NEW row \in Rows, OpenLink(d, row) PROVE LinksOpened'
  <2>1. linked' = linked + 1 /\ \A o \in Desktops : link'[o] \in {linked + 1, 0, link[o]}
    BY <1>4 DEF OpenLink
  <2>2. QED
    BY <1>1, <2>1 DEF LinksOpened
<1>5. UNCHANGED <<linked, link>> \/ (\E D : Unlinked(D))
        \/ \E d \in Desktops, row \in Rows : OpenLink(d, row)
  <2>1. CASE UNCHANGED vars
    BY <2>1 DEF vars, relayVars, linkVars
  <2>2. ASSUME NEW e \in Executors, OpenStream(e) \/ StreamStale(e) \/ StreamQuiet(e)
        PROVE  UNCHANGED <<linked, link>>
    BY <2>2 DEF OpenStream, StreamStale, StreamQuiet, Notified, FenceExecutor, relayVars, linkVars
  <2>3. ASSUME NEW e \in Executors, RevokeExecutor(e) PROVE \E D : Unlinked(D)
    BY <2>3 DEF RevokeExecutor
  <2>4. ASSUME NEW d \in Desktops, CloseLink(d) \/ RevokeDesktop(d) PROVE \E D : Unlinked(D)
    BY <2>4 DEF CloseLink, RevokeDesktop
  <2>5. ASSUME NEW row \in Rows, RevocationCommits(row) \/ RevocationFails(row)
        PROVE  UNCHANGED <<linked, link>>
    BY <2>5 DEF RevocationCommits, RevocationFails, linkVars
  <2>6. ASSUME NEW c \in Calls,
               Command(c) \/ Lookup(c) \/ RefuseRoute(c) \/ RouteFails(c) \/ Route(c)
                 \/ AcceptTimeout(c) \/ Accept(c) \/ Output(c)
        PROVE  UNCHANGED <<linked, link>>
    BY <2>6 DEF Command, Lookup, RefuseRoute, RouteFails, Route, AcceptTimeout, Accept, Output,
                linkVars
  <2>7. QED
    BY <2>1, <2>2, <2>3, <2>4, <2>5, <2>6 DEF Next
<1>6. QED
  BY <1>2, <1>3, <1>4, <1>5

(* A call is made on a link that its row has admitted, and no later link   *)
(* has that number.                                                        *)
FenceOfOwnRow(c) == fence[c] # 0 /\ link[c.device] = fence[c] => authority[c.device] = c.authority
AuthorityInv == \A c \in Calls : fence[c] <= linked /\ FenceOfOwnRow(c)

(* What a step does to the links, their rows and the links of the calls.   *)
LEMMA AuthorityMoves ==
  ASSUME [Next]_vars
  PROVE  \/ UNCHANGED <<linked, link, authority, fence>>
         \/ UNCHANGED fence /\ \E D : Unlinked(D)
         \/ UNCHANGED fence /\ \E d \in Desktops, row \in Rows : OpenLink(d, row)
         \/ UNCHANGED <<linked, link, authority>> /\ \E c \in Calls : Command(c)
<1>1. CASE UNCHANGED vars
  BY <1>1 DEF vars, relayVars, linkVars, callVars
<1>2. ASSUME NEW e \in Executors, OpenStream(e) \/ StreamStale(e) \/ StreamQuiet(e)
      PROVE  UNCHANGED <<linked, link, authority, fence>>
  BY <1>2 DEF OpenStream, StreamStale, StreamQuiet, Notified, FenceExecutor, relayVars, linkVars,
              callVars
<1>3. ASSUME NEW e \in Executors, RevokeExecutor(e) PROVE UNCHANGED fence /\ \E D : Unlinked(D)
  BY <1>3 DEF RevokeExecutor, callVars
<1>4. ASSUME NEW d \in Desktops, CloseLink(d) \/ RevokeDesktop(d)
      PROVE  UNCHANGED fence /\ \E D : Unlinked(D)
  BY <1>4 DEF CloseLink, RevokeDesktop, LinksLost, callVars
<1>5. ASSUME NEW d \in Desktops, NEW row \in Rows, OpenLink(d, row) PROVE UNCHANGED fence
  BY <1>5 DEF OpenLink, LinksLost, callVars
<1>6. ASSUME NEW row \in Rows, RevocationCommits(row) \/ RevocationFails(row)
      PROVE  UNCHANGED <<linked, link, authority, fence>>
  BY <1>6 DEF RevocationCommits, RevocationFails, linkVars, callVars
<1>7. ASSUME NEW c \in Calls, Command(c) PROVE UNCHANGED <<linked, link, authority>>
  BY <1>7 DEF Command
<1>8. ASSUME NEW c \in Calls,
             Lookup(c) \/ RefuseRoute(c) \/ RouteFails(c) \/ Route(c)
               \/ AcceptTimeout(c) \/ Accept(c) \/ Output(c)
      PROVE  UNCHANGED <<linked, link, authority, fence>>
  BY <1>8 DEF Lookup, RefuseRoute, RouteFails, Route, AcceptTimeout, Accept, Output, linkVars,
              callVars
<1>9. QED
  BY <1>1, <1>2, <1>3, <1>4, <1>5, <1>6, <1>7, <1>8 DEF Next

LEMMA AuthorityStep ==
  TypeOK /\ LinksOpened /\ AuthorityInv /\ [Next]_vars => AuthorityInv'
<1> SUFFICES ASSUME TypeOK, LinksOpened, AuthorityInv, [Next]_vars, NEW c \in Calls
             PROVE  (fence[c] <= linked /\ FenceOfOwnRow(c))'
  BY DEF AuthorityInv
<1>1. /\ linked \in Nat /\ fence[c] \in Nat /\ fence[c] <= linked /\ FenceOfOwnRow(c)
      /\ c.device \in Desktops /\ link[c.device] \in Nat /\ link[c.device] <= linked
      /\ fence \in [Calls -> 0..MaxLinks]
  BY CallFacts DEF TypeOK, LinksOpened, AuthorityInv
<1>2. CASE UNCHANGED <<linked, link, authority, fence>>
  BY <1>1, <1>2 DEF FenceOfOwnRow
<1>3. ASSUME UNCHANGED fence, NEW D, Unlinked(D)
      PROVE  (fence[c] <= linked /\ FenceOfOwnRow(c))'
  <2>1. /\ UNCHANGED linked
        /\ link'[c.device] = 0 \/ UNCHANGED <<link[c.device], authority[c.device]>>
    BY <1>1, <1>3 DEF Unlinked, TypeOK
  <2>2. QED
    BY <1>1, <1>3, <2>1 DEF FenceOfOwnRow
<1>4. ASSUME UNCHANGED fence, NEW d \in Desktops, NEW row \in Rows, OpenLink(d, row)
      PROVE  (fence[c] <= linked /\ FenceOfOwnRow(c))'
  <2>1. /\ linked' = linked + 1
        /\ \/ link'[c.device] \in {0, linked + 1}
           \/ UNCHANGED <<link[c.device], authority[c.device]>>
    BY <1>1, <1>4 DEF OpenLink, TypeOK
  <2>2. QED
    BY <1>1, <1>4, <2>1 DEF FenceOfOwnRow
<1>5. ASSUME UNCHANGED <<linked, link, authority>>, NEW p \in Calls, Command(p)
      PROVE  (fence[c] <= linked /\ FenceOfOwnRow(c))'
  <2>1. \/ UNCHANGED fence
        \/ fence' = [fence EXCEPT ![p] = link[p.device]] /\ authority[p.device] = p.authority
    BY <1>5 DEF Command
  <2>2. \/ fence'[c] = fence[c]
        \/ fence'[c] = link[c.device] /\ authority[c.device] = c.authority
    BY <1>1, <2>1
  <2>3. QED
    BY <1>1, <1>5, <2>2 DEF FenceOfOwnRow
<1>6. QED
  BY <1>2, <1>3, <1>4, <1>5, AuthorityMoves

(* A route answers to a link that the row of its command has admitted:     *)
(* command() looks at the link again after its lookups, and whatever takes *)
(* a link away takes its routes with it.                                   *)
THEOREM RoutesKeepAuthority == Spec => []RouteOfOwnAuthority
<1>1. Init => LinksOpened /\ AuthorityInv
  BY CallFacts DEF Init, LinksOpened, AuthorityInv, FenceOfOwnRow
<1>2. AuthorityInv /\ RouteOnCurrentLink => RouteOfOwnAuthority
  BY DEF AuthorityInv, FenceOfOwnRow, RouteOnCurrentLink, RouteOfOwnAuthority
<1>3. QED
  BY <1>1, <1>2, LinksOpenedKept, AuthorityStep, TypeCorrect, RoutesDieWithLink, PTL DEF Spec
-----------------------------------------------------------------------------
(* The end of c's route is announced on its link, or its link has gone.    *)
Heard(c) == ends'[c] = 1 \/ link'[c.device] # fence[c]

(* A route that a step removes is one of the set it names.                 *)
LEMMA OnlyRemoved ==
  ASSUME TypeOK, Sound, NEW S \in SUBSET Calls, RemoveRoutes(S),
         NEW c \in Calls, Routed(c), byCommand'[c.command] # c
  PROVE  c \in S
<1>1. Routed(c)' <=> Routed(c) /\ c \notin S
  BY RemovalEffect DEF Sound
<1>2. ~Routed(c)'
  BY DEF Routed
<1>3. QED
  BY <1>1, <1>2

LEMMA HeardStep ==
  ASSUME TypeOK, Sound, LinksOpened, [Next]_vars,
         NEW c \in Calls, Routed(c), answer[c] = "accepted", byCommand'[c.command] # c
  PROVE  Heard(c)
<1>1. /\ c.device \in Desktops /\ c.command \in CommandIds
      /\ link[c.device] = fence[c] /\ fence[c] # 0
      /\ fence[c] \in Nat /\ linked \in Nat /\ fence[c] <= linked
      /\ byCommand[c.command] = c /\ c # NoCall /\ ~Waiting(c)
  BY CallFacts DEF Sound, RouteOnCurrentLink, RouteMatchesAnswer, LinksOpened, TypeOK, Routed
<1>2. byCommand' # byCommand
  BY <1>1
<1>3. ASSUME NEW e \in Executors, OpenStream(e) \/ StreamStale(e) \/ StreamQuiet(e)
      PROVE  Heard(c)
  <2>1. FenceExecutor(e)
    BY <1>2, <1>3 DEF OpenStream, StreamStale, StreamQuiet, Notified, relayVars, routeVars
  <2>2. /\ RoutesTo(e) \in SUBSET Calls /\ \A o \in RoutesTo(e) : Routed(o)
        /\ RemoveRoutes(RoutesTo(e)) /\ ends' = Told(RoutesTo(e))
    BY <2>1 DEF RoutesTo, FenceExecutor
  <2>3. c \in RoutesTo(e)
    BY <2>2, OnlyRemoved
  <2>4. ends'[c] = 1
    BY <2>2, <2>3, ToldEffect
  <2>5. QED
    BY <2>4 DEF Heard
<1>4. ASSUME NEW e \in Executors, RevokeExecutor(e) PROVE Heard(c)
  <2> DEFINE admitted == {d \in LinkedDesktops : authority[d] = e}
             S == RoutesTo(e) \cup RoutesOn(admitted)
  <2>1. /\ S \in SUBSET Calls /\ RemoveRoutes(S)
        /\ RoutesTo(e) \in SUBSET Calls /\ \A o \in RoutesTo(e) : Routed(o)
        /\ ends' = Told(RoutesTo(e))
        /\ link' = [d \in Desktops |-> IF d \in admitted THEN 0 ELSE link[d]]
    BY <1>4 DEF RoutesTo, RoutesOn, RevokeExecutor, Unlinked
  <2>2. c \in RoutesTo(e) \/ c.device \in admitted
    <3>1. c \in RoutesTo(e) \/ c \in RoutesOn(admitted)
      <4> HIDE DEF admitted
      <4>1. QED
        BY <2>1, OnlyRemoved
    <3>2. QED
      BY <3>1 DEF RoutesOn
  <2> HIDE DEF admitted
  <2>3. CASE c \in RoutesTo(e)
    <3>1. ends'[c] = 1
      BY <2>1, <2>3, ToldEffect
    <3>2. QED
      BY <3>1 DEF Heard
  <2>4. CASE c.device \in admitted
    BY <1>1, <2>1, <2>4 DEF Heard
  <2>5. QED
    BY <2>2, <2>3, <2>4
<1>5. ASSUME NEW d \in Desktops, CloseLink(d) \/ RevokeDesktop(d) PROVE Heard(c)
  <2>1. /\ RoutesOn({d}) \in SUBSET Calls /\ RemoveRoutes(RoutesOn({d}))
        /\ link' = [o \in Desktops |-> IF o \in {d} THEN 0 ELSE link[o]]
    BY <1>5 DEF CloseLink, RevokeDesktop, LinksLost, RoutesOn, Unlinked
  <2>2. c.device = d
    BY <2>1, OnlyRemoved DEF RoutesOn
  <2>3. QED
    BY <1>1, <2>1, <2>2 DEF Heard
<1>6. ASSUME NEW d \in Desktops, NEW row \in Rows, OpenLink(d, row) PROVE Heard(c)
  <2> DEFINE lost == Evicted(d) \cup ({d} \cap LinkedDesktops)
  <2>1. /\ RemoveRoutes(RoutesOn(lost))
        /\ link' = [o \in Desktops |->
             IF o = d THEN linked + 1 ELSE IF o \in lost THEN 0 ELSE link[o]]
    BY <1>6 DEF OpenLink, LinksLost
  <2> HIDE DEF lost
  <2>2. RoutesOn(lost) \in SUBSET Calls
    BY DEF RoutesOn
  <2>3. c.device \in lost
    BY <2>1, <2>2, OnlyRemoved DEF RoutesOn
  <2>4. QED
    BY <1>1, <2>1, <2>3 DEF Heard
<1>7. ASSUME NEW o \in Calls, RouteFails(o) PROVE Heard(c)
  <2> DEFINE S == RoutesTo(o.target)
  <2>1. S \in SUBSET Calls /\ \A r \in S : Routed(r)
    BY DEF RoutesTo
  <2>2. RemoveRoutes(S) /\ (ends' = Told(S) \/ ends' = Told(S \cup {o})) /\ answer[o] = "found"
    BY <1>7 DEF RouteFails
  <2> HIDE DEF S
  <2>3. c \in S
    BY <2>1, <2>2, OnlyRemoved
  <2>4. ends'[c] = 1
    <3>1. CASE ends' = Told(S)
      BY <2>1, <2>3, <3>1, ToldEffect
    <3>2. CASE ends' = Told(S \cup {o})
      <4>1. S \cup {o} \in SUBSET Calls /\ \A r \in S \cup {o} : Routed(r) \/ answer[r] = "found"
        BY <2>1, <2>2
      <4>2. QED
        BY <2>3, <3>2, <4>1, ToldEffect
    <3>3. QED
      BY <2>2, <3>1, <3>2
  <2>5. QED
    BY <2>4 DEF Heard
<1>8. ASSUME NEW o \in Calls, Route(o) PROVE FALSE
  BY <1>1, <1>8, CallFacts DEF Route, HasRoom, TypeOK
<1>9. ASSUME NEW o \in Calls, AcceptTimeout(o) PROVE FALSE
  <2>1. RemoveRoutes({o}) /\ Waiting(o)
    BY <1>9 DEF AcceptTimeout
  <2>2. c = o
    BY <2>1, OnlyRemoved
  <2>3. QED
    BY <1>1, <2>1, <2>2
<1>10. ASSUME NEW o \in Calls, Output(o) PROVE Heard(c)
  <2>1. PICK r \in RoutesFor(o) : RemoveRoutes({r}) /\ ends' = Told({r})
    BY <1>10 DEF Output
  <2>2. r \in Calls
    BY CallFacts DEF RoutesFor, TypeOK
  <2>3. c = r
    BY <2>1, <2>2, OnlyRemoved
  <2>4. ends'[c] = 1
    BY <2>1, <2>2, <2>3, ToldEffect
  <2>5. QED
    BY <2>4 DEF Heard
<1>11. ASSUME NEW o \in Calls, Command(o) \/ Lookup(o) \/ RefuseRoute(o) \/ Accept(o)
       PROVE  FALSE
  BY <1>2, <1>11 DEF Command, Lookup, RefuseRoute, Accept, routeVars
<1>12. ASSUME NEW row \in Rows, RevocationCommits(row) \/ RevocationFails(row) PROVE FALSE
  BY <1>2, <1>12 DEF RevocationCommits, RevocationFails, routeVars
<1>13. ~UNCHANGED vars
  BY <1>2 DEF vars, relayVars, routeVars
<1>14. QED
  BY <1>3, <1>4, <1>5, <1>6, <1>7, <1>8, <1>9, <1>10, <1>11, <1>12, <1>13 DEF Next

(* The desktop of an accepted command learns how it ends: whenever its     *)
(* route goes, a final frame is written to its link or the link goes too.  *)
THEOREM EndIsAnnounced == Spec => AcceptedHearsEnd
<1> DEFINE A == \A c \in Calls :
                  Routed(c) /\ answer[c] = "accepted" /\ byCommand'[c.command] # c =>
                    ends'[c] = 1 \/ link'[c.device] # fence[c]
<1>1. TypeOK /\ Sound /\ LinksOpened /\ [Next]_vars => [A]_vars
  BY HeardStep DEF Heard
<1>2. IInv => TypeOK /\ Sound
  BY DEF IInv, Sound
<1>3. Init => LinksOpened
  BY DEF Init, LinksOpened
<1>4. Spec => []LinksOpened
  BY <1>3, TypeCorrect, LinksOpenedKept, PTL DEF Spec
<1>5. QED
  BY <1>1, <1>2, <1>4, AlwaysSound, PTL DEF Spec, AcceptedHearsEnd
=============================================================================
