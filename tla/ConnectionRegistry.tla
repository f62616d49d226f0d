------------------------ MODULE ConnectionRegistry ------------------------
(***************************************************************************)
(* ConnectExecutorConnectionRegistry: the event streams over which the     *)
(* website, without Durable Objects, sends commands to executors.          *)
(*                                                                         *)
(* Streams are numbered in the order in which they are opened; the number  *)
(* stands for the stream and for its fence. An executor credential has one *)
(* generation while it is valid, so generations are left out. Whoever      *)
(* depends on a stream is told by notifyDisconnected() when it is          *)
(* unregistered: a composing module adds what its listener does.           *)
(***************************************************************************)
EXTENDS Naturals, FiniteSets

CONSTANTS
  Executors,
  MaxStreams     \* bound: streams opened in a behaviour

ASSUME RegistryAssumption == MaxStreams \in Nat

VARIABLES
  opened,      \* number of streams opened so far
  stream,      \* connections: the stream registered for each executor, or 0
  ended,       \* streams that have ended, from either side
  quiet,       \* executors not heard of for STALE_AFTER_MS
  tombstones,  \* staleExecutors
  hello        \* pendingHello

registryVars == <<opened, stream, ended, quiet, tombstones, hello>>
-----------------------------------------------------------------------------
Streams == 1..MaxStreams

RegistryTypeOK ==
  /\ opened \in 0..MaxStreams
  /\ stream \in [Executors -> {0} \cup Streams]
  /\ ended \subseteq Streams
  /\ quiet \subseteq Executors
  /\ tombstones \subseteq Executors
  /\ hello \subseteq Executors

RegistryInit ==
  /\ opened = 0
  /\ stream = [e \in Executors |-> 0]
  /\ ended = {} /\ quiet = {} /\ tombstones = {} /\ hello = {}

Registered(e) == stream[e] # 0

(* The executor's stream has been registered and recently heard of.        *)
Fresh(e) == Registered(e) /\ e \notin quiet
-----------------------------------------------------------------------------
(* The stream of an executor ends and is unregistered.                     *)
Unregister(e) ==
  /\ stream' = [stream EXCEPT ![e] = 0]
  /\ ended' = ended \cup ({stream[e]} \ {0})
  /\ quiet' = quiet \ {e}
  /\ UNCHANGED opened

TakenOver(e) == {stream[e]} \ {0}

(* open(): an older stream of the executor is taken over; a hello waiting  *)
(* for the stream is acknowledged on it.                                   *)
Open(e) ==
  /\ opened < MaxStreams
  /\ opened' = opened + 1
  /\ stream' = [stream EXCEPT ![e] = opened + 1]
  /\ ended' = ended \cup TakenOver(e)
  /\ quiet' = quiet \ {e}
  /\ tombstones' = tombstones \ {e}
  /\ hello' = hello \ {e}

(* touch(), for a heartbeat (or a hello, which is also kept until a stream *)
(* is opened).                                                             *)
Touch(e) ==
  /\ quiet' = quiet \ {e}
  /\ tombstones' = IF Registered(e) THEN tombstones \ {e} ELSE tombstones
  /\ UNCHANGED <<opened, stream, ended>>

ReceiveHeartbeat(e) == Touch(e) /\ UNCHANGED hello
ReceiveHello(e)     == Touch(e) /\ hello' = hello \cup {e}

(* The executor's side of the stream goes away: the stream stays           *)
(* registered, and only refuses what is written to it.                     *)
Cut(e) ==
  /\ Registered(e)
  /\ ended' = ended \cup {stream[e]}
  /\ UNCHANGED <<opened, stream, quiet, tombstones, hello>>

(* STALE_AFTER_MS pass, which is longer than a hello is kept.              *)
GoQuiet(e) ==
  /\ Registered(e) /\ e \notin hello
  /\ quiet' = quiet \cup {e}
  /\ UNCHANGED <<opened, stream, ended, tombstones, hello>>

(* Time limits of a hello and of a tombstone.                              *)
HelloExpires(e) ==
  /\ e \in hello /\ hello' = hello \ {e}
  /\ UNCHANGED <<opened, stream, ended, quiet, tombstones>>

TombstoneExpires(e) ==
  /\ e \in tombstones /\ tombstones' = tombstones \ {e}
  /\ UNCHANGED <<opened, stream, ended, quiet, hello>>

(* presence() finds the stream of a quiet executor stale. Asked for any    *)
(* other executor it changes nothing.                                      *)
FindStale(e) ==
  /\ Registered(e) /\ e \in quiet
  /\ Unregister(e)
  /\ tombstones' = tombstones \cup {e}
  /\ UNCHANGED hello

(* dispatch() on a stream that has ended.                                  *)
WriteFails(e) ==
  /\ Fresh(e) /\ stream[e] \in ended
  /\ Unregister(e)
  /\ UNCHANGED <<tombstones, hello>>

(* revoke(), whether or not there is a stream.                             *)
Revoke(e) ==
  /\ Unregister(e)
  /\ hello' = hello \ {e}
  /\ tombstones' = tombstones \ {e}
-----------------------------------------------------------------------------
RegistryNext ==
  \E e \in Executors :
    \/ Open(e) \/ ReceiveHeartbeat(e) \/ ReceiveHello(e) \/ Cut(e) \/ GoQuiet(e)
    \/ HelloExpires(e) \/ TombstoneExpires(e)
    \/ FindStale(e) \/ WriteFails(e) \/ Revoke(e)

RegistrySpec == RegistryInit /\ [][RegistryNext]_registryVars
-----------------------------------------------------------------------------
(* No stream is left open without being registered for an executor, and no *)
(* two executors share one: every stream that can still be written to is   *)
(* reached by dispatch() and by revoke().                                  *)
OpenIsRegistered ==
  /\ \A s \in 1..opened : s \notin ended => \E e \in Executors : stream[e] = s
  /\ \A e, f \in Executors : Registered(e) /\ stream[e] = stream[f] => e = f

(* An executor with a registered stream has no tombstone: presence() never *)
(* goes on reporting "stale" for one that has come back.                   *)
TombstoneIsOfAbsent == \A e \in tombstones : ~Registered(e)
============================================================================
