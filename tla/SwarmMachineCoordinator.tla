---------------------- MODULE SwarmMachineCoordinator ----------------------
(***************************************************************************)
(* One SwarmMachineCoordinator Durable Object: the runtime-control channel *)
(* of one swarm machine, the stored presence record and the bounded replay *)
(* buffer that owners read page by page with GET /events.                  *)
(*                                                                         *)
(* Channels are numbered in the order they are accepted and a channel's    *)
(* fence is its number, 0 standing for "no record". The frames of the head *)
(* are numbered in the order in which the object receives them. The        *)
(* runtime delivers no event while a handler waits for its storage, so a   *)
(* handler is one action; but its writes are separate puts, and the object *)
(* may be lost between the two puts of appendFrame().                      *)
(***************************************************************************)
EXTENDS Naturals, Sequences, FiniteSets

CONSTANTS
  Commands,      \* calls of POST /send and POST /liveness
  EventLimit,    \* SWARM_EVENT_LIMIT
  PageLimit,     \* the largest page of GET /events
  AskedLimits,   \* values of ?limit= a reader asks for
  MaxChannels,   \* bound: channels accepted in a behaviour
  MaxFrames      \* bound: buffered frames received in a behaviour

ASSUME ConstantsAssumption ==
  /\ {EventLimit, PageLimit} \subseteq Nat \ {0}
  /\ AskedLimits \subseteq Nat
  /\ MaxChannels \in Nat /\ MaxFrames \in Nat

VARIABLES
  accepted,    \* number of channels accepted so far
  link,        \* what the object sees of each channel
  presence,    \* the fence of the record in storage
  headState,   \* the heartbeat its headState comes from, 0 for "booting"
  cursor,      \* SWARM_CURSOR_KEY
  events,      \* SWARM_EVENTS_KEY
  received,    \* history: number of frames received
  origin,      \* history: the channel each frame came on
  answer,      \* the response of each command
  sentOn,      \* the channel each command was sent on
  after,       \* the reader's ?after=, the last nextCursor it was given
  page,        \* the frames of the last page it was given
  seen         \* the frames of all its pages

vars == <<accepted, link, presence, headState, cursor, events, received, origin,
          answer, sentOn, after, page, seen>>

channelVars == <<accepted, link, presence, headState>>
bufferVars  == <<cursor, events, received, origin>>
clientVars  == <<answer, sentOn, after, page, seen>>
-----------------------------------------------------------------------------
Channels == 1..MaxChannels
Frames   == 1..MaxFrames
Entries  == [cursor : Frames, frame : Frames]

TypeOK ==
  /\ accepted \in 0..MaxChannels
  /\ link \in [Channels -> {"unused", "open", "closing", "closed", "lost"}]
  /\ presence \in 0..MaxChannels
  /\ headState \in 0..MaxFrames
  /\ cursor \in 0..MaxFrames
  /\ events \in Seq(Entries) /\ Len(events) <= EventLimit
  /\ received \in 0..MaxFrames
  /\ origin \in [Frames -> 0..MaxChannels]
  /\ answer \in [Commands -> {"none", "ok", "MACHINE_OFFLINE", "failed"}]
  /\ sentOn \in [Commands -> 0..MaxChannels]
  /\ after \in 0..MaxFrames
  /\ page \subseteq Frames /\ seen \subseteq Frames

Init ==
  /\ accepted = 0 /\ link = [s \in Channels |-> "unused"]
  /\ presence = 0 /\ headState = 0
  /\ cursor = 0 /\ events = << >>
  /\ received = 0 /\ origin = [n \in Frames |-> 0]
  /\ answer = [c \in Commands |-> "none"]
  /\ sentOn = [c \in Commands |-> 0]
  /\ after = 0 /\ page = {} /\ seen = {}
-----------------------------------------------------------------------------
Listed == {s \in Channels : link[s] \in {"open", "closing"}}

(* Slip: the channel a new one replaces stays open.                        *)
DisplacedNone == {}

(* What a new channel closes: every channel there is.                      *)
Displaced == Channels

AcceptChannel ==
  /\ accepted < MaxChannels
  /\ accepted' = accepted + 1
  /\ link' = [s \in Channels |->
               IF s = accepted + 1 THEN "open"
               ELSE IF s \in Displaced /\ link[s] = "open" THEN "closing" ELSE link[s]]
  /\ UNCHANGED <<presence, headState>>
  /\ UNCHANGED bufferVars /\ UNCHANGED clientVars

(* head.hello: the record becomes this channel's and its head is booting.  *)
OnHello(s) ==
  /\ s \in Listed
  /\ presence' = s /\ headState' = 0
  /\ UNCHANGED <<accepted, link>>
  /\ UNCHANGED bufferVars /\ UNCHANGED clientVars

(* Slip: a heartbeat is believed whichever channel it comes on.            *)
OwnsPresenceAlways(s) == presence # 0

OwnsPresence(s) == presence = s

(* touchPresence() with the state of the heartbeat that is frame n.        *)
Touch(s, n) == headState' = IF OwnsPresence(s) THEN n ELSE headState

(* The last EventLimit entries.                                            *)
Newest(entries) ==
  IF Len(entries) <= EventLimit THEN entries
  ELSE SubSeq(entries, Len(entries) - EventLimit + 1, Len(entries))

(* The frame that arrives next, on channel s.                              *)
Arrives(s) ==
  /\ s \in Listed /\ received < MaxFrames
  /\ received' = received + 1
  /\ origin' = [origin EXCEPT ![received + 1] = s]

PutCursor == cursor' = cursor + 1
PutEvents ==
  events' = Newest(Append(events, [cursor |-> cursor + 1, frame |-> received + 1]))

(* A frame to be buffered, from whichever channel is listed: a heartbeat,   *)
(* or a thread or credential frame.                                         *)
OnFrame(s) ==
  /\ Arrives(s)
  /\ Touch(s, received + 1) \/ UNCHANGED headState
  /\ PutCursor /\ PutEvents
  /\ UNCHANGED <<accepted, link, presence>> /\ UNCHANGED clientVars

Lost == link' = [s \in Channels |->
                  IF link[s] \in {"open", "closing"} THEN "lost" ELSE link[s]]

(* Slip: the buffer is written before the cursor.                          *)
InterruptedEvents == (PutEvents \/ UNCHANGED events) /\ UNCHANGED cursor

(* What appendFrame() has stored before the last of its two puts.          *)
Interrupted == (PutCursor \/ UNCHANGED cursor) /\ UNCHANGED events

(* The object is lost before the handler's last put.                       *)
CrashInFrame(s) ==
  /\ Arrives(s)
  /\ Touch(s, received + 1) \/ UNCHANGED headState
  /\ Interrupted /\ Lost
  /\ UNCHANGED <<accepted, presence>> /\ UNCHANGED clientVars

(* A frame that is not a head's: an error frame, then close().             *)
FrameRefused(s) ==
  /\ link[s] = "open"
  /\ link' = [link EXCEPT ![s] = "closing"]
  /\ UNCHANGED <<accepted, presence, headState>>
  /\ UNCHANGED bufferVars /\ UNCHANGED clientVars

(* The close event: the record stays, only its lastSeenAt is refreshed.    *)
ChannelClosed(s) ==
  /\ s \in Listed
  /\ link' = [link EXCEPT ![s] = "closed"]
  /\ UNCHANGED <<accepted, presence, headState>>
  /\ UNCHANGED bufferVars /\ UNCHANGED clientVars

(* A deploy or a fault: every socket is gone, storage remains.             *)
Restart ==
  /\ Lost
  /\ UNCHANGED <<accepted, presence, headState>>
  /\ UNCHANGED bufferVars /\ UNCHANGED clientVars
-----------------------------------------------------------------------------
Answered(c, code) ==
  /\ answer[c] = "none"
  /\ answer' = [answer EXCEPT ![c] = code]
  /\ UNCHANGED <<after, page, seen>>
  /\ UNCHANGED channelVars /\ UNCHANGED bufferVars

(* The listed channel with the record's fence, if any, is the live socket. *)
Live(s) == s \in Listed /\ presence = s

(* POST /send or POST /liveness, sent on the live socket.                  *)
Sent(c) ==
  \E s \in Channels :
    /\ Live(s) /\ link[s] = "open"
    /\ sentOn' = [sentOn EXCEPT ![c] = s]
    /\ Answered(c, "ok")

(* No live socket, or one that is closing: send() answers MACHINE_OFFLINE, *)
(* liveness() lets the exception of a closing socket fail the call.        *)
NotSent(c) ==
  /\ \/ (\A s \in Channels : ~Live(s)) /\ Answered(c, "MACHINE_OFFLINE")
     \/ \E s \in Channels : /\ Live(s) /\ link[s] = "closing"
                            /\ Answered(c, "MACHINE_OFFLINE") \/ Answered(c, "failed")
  /\ UNCHANGED sentOn

(* Slips: an entry at the reader's own cursor is given again; a limit of 0 *)
(* is taken as it is.                                                      *)
FreshFrom(from) == {k \in 1..Len(events) : events[k].cursor >= from}
ClampLow(asked) == IF asked > PageLimit THEN PageLimit ELSE asked

(* GET /events?after=from&limit=asked: the positions of the entries after  *)
(* the cursor, and the first of them up to the limit.                      *)
Fresh(from) == {k \in 1..Len(events) : events[k].cursor > from}

Clamp(asked) ==
  IF asked > PageLimit THEN PageLimit ELSE IF asked < 1 THEN 1 ELSE asked

Page(from, limit) ==
  {k \in Fresh(from) : Cardinality({j \in Fresh(from) : j <= k}) <= limit}

(* Slip: the reader is sent on to the newest cursor there is.              *)
NextCursorNewest(from, given) == cursor

NextCursor(from, given) ==
  IF given = {} THEN from
  ELSE events[CHOOSE k \in given : \A j \in given : j <= k].cursor

(* The reader takes a page and remembers its nextCursor.                   *)
ReadEvents(asked) ==
  LET given == Page(after, Clamp(asked)) IN
  /\ page' = {events[k].frame : k \in given}
  /\ seen' = seen \cup page'
  /\ after' = NextCursor(after, given)
  /\ UNCHANGED <<answer, sentOn>>
  /\ UNCHANGED channelVars /\ UNCHANGED bufferVars
-----------------------------------------------------------------------------
Next ==
  \/ AcceptChannel \/ Restart
  \/ \E s \in Channels : OnHello(s) \/ OnFrame(s) \/ CrashInFrame(s) \/ FrameRefused(s)
                         \/ ChannelClosed(s)
  \/ \E c \in Commands : Sent(c) \/ NotSent(c)
  \/ \E asked \in AskedLimits : ReadEvents(asked)

Spec == Init /\ [][Next]_vars

(* A client of the owner keeps reading, if only the smallest of the pages. *)
Smallest == {asked \in AskedLimits : \A other \in AskedLimits : asked <= other}

FairSpec == Spec /\ WF_vars(\E asked \in Smallest : ReadEvents(asked))
-----------------------------------------------------------------------------
(* Cursors grow along the buffer and stay below the stored cursor, also    *)
(* when the object is lost half way through an append: no two frames ever  *)
(* share a cursor.                                                         *)
CursorOrder ==
  /\ \A j, k \in 1..Len(events) : j < k => events[j].cursor < events[k].cursor
  /\ \A k \in 1..Len(events) : events[k].cursor <= cursor

(* The reader has been given every entry of the buffer up to its cursor:   *)
(* following nextCursor skips nothing that is still stored.                *)
NothingSkipped ==
  \A k \in 1..Len(events) : events[k].cursor <= after => events[k].frame \in seen

(* No page gives the reader a frame it has been given before.              *)
SeenOnce == [][page' # page => page' \cap seen = {}]_vars

(* The head state of the record comes from a heartbeat of the channel that *)
(* said the last hello, not from a head it has replaced.                   *)
HeadStateFromOwner == headState # 0 => origin[headState] = presence

(* A command that is acknowledged has been sent on the newest channel, the *)
(* machine's own: no replaced channel is given one.                        *)
CommandOnNewestChannel ==
  [][\A c \in Commands :
       answer[c] = "none" /\ answer'[c] = "ok" => \A s \in Channels :
         link[s] # "unused" => s <= sentOn'[c]]_vars

Stored(n) == \E k \in 1..Len(events) : events[k].frame = n

(* A frame in the buffer is read in the end, or pushed out by newer ones,  *)
(* even for a reader that asks for pages of no entries.                    *)
FrameIsRead == \A n \in Frames : Stored(n) ~> n \in seen \/ ~Stored(n)
=============================================================================
