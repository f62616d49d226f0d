------------------- MODULE SwarmMachineCoordinator_proofs -------------------
(* Theorems about SwarmMachineCoordinator, for every value of its          *)
(* constants.                                                              *)
EXTENDS SwarmMachineCoordinator, FiniteSetTheorems, SequenceTheorems, WellFoundedInduction,
        TLAPS

LEMMA ConstantFacts ==
  /\ EventLimit \in Nat /\ EventLimit >= 1
  /\ PageLimit \in Nat /\ PageLimit >= 1
  /\ MaxChannels \in Nat /\ MaxFrames \in Nat
  /\ AskedLimits \subseteq Nat
BY ConstantsAssumption DEF ConstantsAssumption

(* A set of positions of a finite sequence has a last one.                 *)
LEMMA LastPosition ==
  ASSUME NEW n \in Nat, NEW T \in SUBSET (1..n), T # {}
  PROVE  \E k \in T : \A j \in T : j <= k
<1> DEFINE U == {m \in Nat : n - m \in T}
<1>1. IsWellFoundedOn(OpToRel(<, Nat), Nat)
  BY NatLessThanWellFounded
<1>2. \A k \in T : k \in Nat /\ n - k \in Nat /\ n - (n - k) = k
  OBVIOUS
<1>3. U \subseteq Nat /\ U # {}
  BY <1>2
<1>4. PICK x \in U : \A y \in U : ~(<<y, x>> \in OpToRel(<, Nat))
  <2> HIDE DEF U
  <2>1. QED
    BY <1>1, <1>3, WFMin
<1>5. \A y \in U : ~(y < x)
  BY <1>3, <1>4 DEF OpToRel
<1>6. n - x \in T
  BY <1>4
<1>7. \A j \in T : j <= n - x
  <2> SUFFICES ASSUME NEW j \in T PROVE j <= n - x
    OBVIOUS
  <2>1. n - j \in U /\ n - j \in Nat /\ j \in Nat /\ x \in Nat
    BY <1>2, <1>3
  <2>2. ~(n - j < x)
    BY <1>5, <2>1
  <2> HIDE DEF U
  <2>3. QED
    BY <2>1, <2>2
<1>8. QED
  BY <1>6, <1>7
-----------------------------------------------------------------------------
(* Newest(all) is a last part of all, of at most EventLimit entries.       *)
LEMMA NewestPart ==
  ASSUME NEW E, NEW all \in Seq(E)
  PROVE  /\ Newest(all) \in Seq(E) /\ Len(Newest(all)) <= EventLimit
         /\ \E d \in Nat : /\ Len(Newest(all)) + d = Len(all)
                           /\ \A k \in 1..Len(Newest(all)) : Newest(all)[k] = all[k + d]
<1> USE ConstantFacts
<1>1. Len(all) \in Nat
  OBVIOUS
<1>2. CASE Len(all) <= EventLimit
  <2>1. Newest(all) = all
    BY <1>2 DEF Newest
  <2>2. Len(all) + 0 = Len(all) /\ \A k \in 1..Len(all) : all[k] = all[k + 0]
    BY <1>1
  <2>3. QED
    BY <1>2, <2>1, <2>2
<1>3. CASE Len(all) > EventLimit
  <2> DEFINE d == Len(all) - EventLimit
             part == SubSeq(all, d + 1, Len(all))
  <2>1. Newest(all) = part
    BY <1>1, <1>3 DEF Newest
  <2>2. d \in Nat /\ d + 1 \in 1..Len(all) /\ EventLimit + d = Len(all)
    BY <1>1, <1>3
  <2>3. \A k \in (d + 1)..Len(all) : all[k] \in E
    BY <1>1, <2>2
  <2>4. part \in Seq(E) /\ Len(part) = EventLimit
    BY <1>1, <2>2, <2>3, SubSeqProperties
  <2>5. \A k \in 1..Len(part) : part[k] = all[k + d]
    BY <1>1, <2>2, <2>4
  <2> HIDE DEF d, part
  <2>6. QED
    BY <2>1, <2>2, <2>4, <2>5
<1>4. QED
  BY <1>1, <1>2, <1>3

(* The cursor handed out with a page is that of its last entry.            *)
LEMMA NextCursorOfLast ==
  ASSUME TypeOK, NEW from, NEW given \in SUBSET (1..Len(events)), given # {}
  PROVE  \E k \in given : /\ \A j \in given : j <= k
                          /\ NextCursor(from, given) = events[k].cursor
<1>1. Len(events) \in Nat
  BY DEF TypeOK
<1>2. \E k \in given : \A j \in given : j <= k
  BY <1>1, LastPosition
<1>3. QED
  BY <1>2 DEF NextCursor

-----------------------------------------------------------------------------
(* The strengthening: cursors and frames grow along the buffer, and the    *)
(* reader has seen exactly the entries up to its cursor.                   *)
BufferInv ==
  /\ cursor <= received /\ after <= cursor
  /\ \A n \in seen : n <= received
  /\ CursorOrder
  /\ \A j, k \in 1..Len(events) : j < k => events[j].frame < events[k].frame
  /\ \A k \in 1..Len(events) : /\ events[k].frame <= received
                               /\ events[k].cursor <= after <=> events[k].frame \in seen

Inv == TypeOK /\ BufferInv

LEMMA BufferKept ==
  ASSUME Inv, UNCHANGED bufferVars, UNCHANGED <<after, seen>>
  PROVE  BufferInv'
BY DEF Inv, BufferInv, CursorOrder, bufferVars

LEMMA EntryFacts ==
  ASSUME Inv
  PROVE  /\ Len(events) \in Nat
         /\ cursor \in Nat /\ received \in Nat /\ after \in Nat /\ seen \subseteq Nat
         /\ \A k \in 1..Len(events) :
              /\ events[k].cursor \in Nat /\ events[k].frame \in Nat
              /\ events[k].cursor <= cursor /\ events[k].frame <= received
<1>1. events \in Seq(Entries) /\ Len(events) \in Nat
  BY DEF Inv, TypeOK
<1>2. \A k \in 1..Len(events) : events[k] \in Entries
  BY <1>1, ElementOfSeq
<1>3. \A k \in 1..Len(events) : events[k].cursor \in Nat /\ events[k].frame \in Nat
  BY <1>2, ConstantFacts DEF Entries, Frames
<1>4. cursor \in Nat /\ received \in Nat /\ after \in Nat /\ seen \subseteq Nat
  BY ConstantFacts DEF Inv, TypeOK, Frames
<1>5. QED
  BY <1>1, <1>3, <1>4 DEF Inv, BufferInv, CursorOrder

LEMMA FrameStep ==
  ASSUME Inv, NEW s \in Channels, OnFrame(s)
  PROVE  BufferInv' /\ events' \in Seq(Entries) /\ Len(events') <= EventLimit
<1> DEFINE e == [cursor |-> cursor + 1, frame |-> received + 1]
<1>1. /\ events' = Newest(Append(events, e)) /\ cursor' = cursor + 1
      /\ received' = received + 1 /\ UNCHANGED <<after, seen>> /\ received < MaxFrames
  BY DEF OnFrame, Arrives, PutCursor, PutEvents, clientVars
<1>2. /\ cursor \in Nat /\ received \in Nat /\ after \in Nat /\ cursor <= received
      /\ after <= cursor /\ seen \subseteq Nat /\ \A n \in seen : n <= received
  BY EntryFacts DEF Inv, BufferInv
<1>3. e.cursor = cursor + 1 /\ e.frame = received + 1 /\ e \in Entries
  BY <1>1, <1>2, ConstantFacts DEF Entries, Frames
<1> HIDE DEF e
<1>4. events \in Seq(Entries) /\ Len(events) <= EventLimit
  BY DEF Inv, TypeOK
<1> DEFINE all == Append(events, e)
<1>5. /\ all \in Seq(Entries) /\ Len(all) = Len(events) + 1 /\ Len(events) \in Nat
      /\ \A k \in 1..Len(all) : all[k] = IF k <= Len(events) THEN events[k] ELSE e
  BY <1>3, <1>4
<1> HIDE DEF all
<1>6. PICK d \in Nat : /\ events' \in Seq(Entries) /\ Len(events') <= EventLimit
                       /\ Len(events') + d = Len(all)
                       /\ \A k \in 1..Len(events') : events'[k] = all[k + d]
  <2>1. events' = Newest(all)
    BY <1>1 DEF all
  <2>2. QED
    BY <1>5, <2>1, NewestPart
<1>7. Len(events') \in Nat /\
      \A k \in 1..Len(events') :
        \/ k + d \in 1..Len(events) /\ events'[k] = events[k + d]
        \/ k + d = Len(events) + 1 /\ events'[k] = e
  <2>1. Len(events') \in Nat
    BY <1>6
  <2> SUFFICES ASSUME NEW k \in 1..Len(events')
               PROVE  \/ k + d \in 1..Len(events) /\ events'[k] = events[k + d]
                      \/ k + d = Len(events) + 1 /\ events'[k] = e
    BY <2>1
  <2>2. k + d \in 1..Len(all)
    BY <1>5, <1>6, <2>1
  <2>3. QED
    BY <1>5, <1>6, <2>2
<1>8. \A j, k \in 1..Len(events') :
        j < k => events'[j].cursor < events'[k].cursor /\ events'[j].frame < events'[k].frame
  <2> SUFFICES ASSUME NEW j \in 1..Len(events'), NEW k \in 1..Len(events'), j < k
               PROVE  events'[j].cursor < events'[k].cursor /\ events'[j].frame < events'[k].frame
    OBVIOUS
  <2>1. j + d \in 1..Len(events) /\ events'[j] = events[j + d]
    BY <1>5, <1>6, <1>7
  <2>2. CASE k + d \in 1..Len(events) /\ events'[k] = events[k + d]
    <3>1. j + d < k + d
      BY <1>6
    <3>2. QED
      BY <2>1, <2>2, <3>1 DEF Inv, BufferInv, CursorOrder
  <2>3. CASE events'[k] = e
    BY <1>2, <1>3, <2>1, <2>3, EntryFacts
  <2>4. QED
    BY <1>7, <2>2, <2>3
<1>9. \A k \in 1..Len(events') :
        /\ events'[k].cursor <= cursor' /\ events'[k].frame <= received'
        /\ events'[k].cursor <= after <=> events'[k].frame \in seen
  <2> SUFFICES ASSUME NEW k \in 1..Len(events')
               PROVE  /\ events'[k].cursor <= cursor' /\ events'[k].frame <= received'
                      /\ events'[k].cursor <= after <=> events'[k].frame \in seen
    OBVIOUS
  <2>1. CASE k + d \in 1..Len(events) /\ events'[k] = events[k + d]
    <3>1. /\ events[k + d].cursor \in Nat /\ events[k + d].cursor <= cursor
          /\ events[k + d].frame \in Nat /\ events[k + d].frame <= received
          /\ events[k + d].cursor <= after <=> events[k + d].frame \in seen
      BY <2>1, EntryFacts DEF Inv, BufferInv
    <3>2. QED
      BY <1>1, <1>2, <2>1, <3>1
  <2>2. CASE events'[k] = e
    BY <1>1, <1>2, <1>3, <2>2
  <2>3. QED
    BY <1>7, <2>1, <2>2
<1>10. cursor' <= received' /\ after' <= cursor' /\ \A n \in seen' : n <= received'
  BY <1>1, <1>2
<1>11. QED
  BY <1>1, <1>6, <1>8, <1>9, <1>10 DEF BufferInv, CursorOrder

LEMMA CrashStep ==
  ASSUME Inv, NEW s \in Channels, CrashInFrame(s)
  PROVE  BufferInv' /\ UNCHANGED events /\ cursor' <= received'
<1>1. /\ UNCHANGED <<events, after, seen>> /\ cursor' \in {cursor, cursor + 1}
      /\ received' = received + 1
  BY DEF CrashInFrame, Arrives, Interrupted, PutCursor, clientVars
<1>2. cursor' <= received' /\ after' <= cursor' /\ \A n \in seen' : n <= received'
  BY <1>1, EntryFacts DEF Inv, BufferInv
<1>3. CursorOrder'
  BY <1>1, EntryFacts DEF Inv, BufferInv, CursorOrder
<1>4. \A k \in 1..Len(events) : events[k].frame <= received'
  BY <1>1, EntryFacts
<1>5. QED
  BY <1>1, <1>2, <1>3, <1>4 DEF Inv, BufferInv

(* A page is the first part of the entries after the reader's cursor.      *)
LEMMA PageIsFirst ==
  ASSUME Inv, NEW limit \in Nat
  PROVE  LET given == Page(after, limit) IN
           /\ given \subseteq Fresh(after)
           /\ \A k \in given : \A j \in Fresh(after) : j <= k => j \in given
<1> USE DEF Page
<1>1. Fresh(after) \subseteq 1..Len(events) /\ Len(events) \in Nat
  BY DEF Fresh, Inv, TypeOK
<1>2. IsFiniteSet(Fresh(after))
  <2>1. IsFiniteSet(1..Len(events))
    BY <1>1, FS_Interval
  <2>2. QED
    BY <1>1, <2>1, FS_Subset
<1>3. ASSUME NEW k \in Page(after, limit), NEW j \in Fresh(after), j <= k
      PROVE  j \in Page(after, limit)
  <2> DEFINE upTo(x) == {i \in Fresh(after) : i <= x}
  <2>1. upTo(j) \subseteq upTo(k)
    BY <1>1, <1>3
  <2>2. IsFiniteSet(upTo(k)) /\ IsFiniteSet(upTo(j))
    BY <1>2, FS_Subset
  <2>3. Cardinality(upTo(j)) <= Cardinality(upTo(k))
    BY <2>1, <2>2, FS_Subset
  <2>4. Cardinality(upTo(j)) \in Nat /\ Cardinality(upTo(k)) \in Nat
    BY <2>2, FS_CardinalityType
  <2>5. Cardinality(upTo(k)) <= limit
    OBVIOUS
  <2>6. Cardinality(upTo(j)) <= limit
    BY <2>3, <2>4, <2>5
  <2>7. QED
    BY <2>6
<1>4. QED
  BY <1>3

LEMMA ReadStep ==
  ASSUME Inv, NEW asked \in AskedLimits, ReadEvents(asked)
  PROVE  BufferInv' /\ page' \cap seen = {} /\ page' \subseteq Frames /\ after' \in 0..cursor
<1> DEFINE limit == Clamp(asked)
           given == Page(after, limit)
<1>1. /\ UNCHANGED <<cursor, events, received>>
      /\ page' = {events[k].frame : k \in given}
      /\ seen' = seen \cup page'
      /\ after' = NextCursor(after, given)
  BY DEF ReadEvents, bufferVars
<1>2. limit \in Nat
  BY ConstantFacts DEF Clamp
<1> HIDE DEF limit
<1>3. /\ given \subseteq Fresh(after)
      /\ \A k \in given : \A j \in Fresh(after) : j <= k => j \in given
  BY <1>2, PageIsFirst
<1> HIDE DEF given
<1>4. Fresh(after) \subseteq 1..Len(events)
        /\ \A k \in 1..Len(events) : k \in Fresh(after) <=> ~(events[k].cursor <= after)
  BY EntryFacts DEF Fresh
<1>5. \A k \in 1..Len(events) : /\ events[k].cursor \in Nat /\ events[k].cursor <= cursor
                                /\ events[k].frame \in Nat /\ events[k].frame <= received
                                /\ events[k].cursor <= after <=> events[k].frame \in seen
  BY EntryFacts DEF Inv, BufferInv
<1>6. page' \cap seen = {}
  BY <1>1, <1>3, <1>4, <1>5
<1>7. page' \subseteq Frames
  <2>1. \A k \in 1..Len(events) : events[k] \in Entries
    BY ElementOfSeq, EntryFacts DEF Inv, TypeOK
  <2>2. QED
    BY <1>1, <1>3, <1>4, <2>1 DEF Entries
<1>8. CASE given = {}
  <2>1. page' = {} /\ seen' = seen /\ after' = after
    BY <1>1, <1>8 DEF NextCursor
  <2>2. BufferInv'
    BY <1>1, <2>1 DEF Inv, BufferInv, CursorOrder
  <2>3. after \in 0..cursor
    BY EntryFacts DEF Inv, BufferInv
  <2>4. QED
    BY <1>6, <1>7, <2>1, <2>2, <2>3
<1>9. CASE given # {}
  <2>1. PICK k \in given : (\A j \in given : j <= k) /\ after' = events[k].cursor
    BY <1>1, <1>3, <1>4, <1>9, NextCursorOfLast DEF Inv
  <2>2. k \in 1..Len(events) /\ after' \in Nat /\ after < after' /\ after' <= cursor
    BY <1>3, <1>4, <1>5, <2>1, EntryFacts
  <2>3. \A i \in 1..Len(events) : events[i].cursor <= after' <=> i <= k
    <3> SUFFICES ASSUME NEW i \in 1..Len(events)
                 PROVE  events[i].cursor <= events[k].cursor <=> i <= k
      BY <2>1
    <3>1. i < k => events[i].cursor < events[k].cursor
      BY <2>2 DEF Inv, BufferInv, CursorOrder
    <3>2. k < i => events[k].cursor < events[i].cursor
      BY <2>2 DEF Inv, BufferInv, CursorOrder
    <3>3. events[i].cursor \in Nat /\ events[k].cursor \in Nat /\ i \in Nat /\ k \in Nat
      BY <1>5, <2>2, EntryFacts
    <3>4. QED
      BY <3>1, <3>2, <3>3
  <2>4. ASSUME NEW i \in 1..Len(events), i <= k PROVE events[i].frame \in seen'
    BY <1>1, <1>3, <1>4, <1>5, <2>1, <2>4
  <2>5. ASSUME NEW i \in 1..Len(events), events[i].frame \in seen' PROVE i <= k
    <3>1. CASE events[i].frame \in seen
      <4>1. events[i].cursor <= after
        BY <1>5, <3>1
      <4>2. events[i].cursor <= after'
        BY <1>5, <2>2, <4>1, EntryFacts
      <4>3. QED
        BY <2>3, <4>2
    <3>2. CASE events[i].frame \in page'
      <4>1. PICK j \in given : events[j].frame = events[i].frame
        BY <1>1, <3>2
      <4>2. j \in 1..Len(events) /\ j \in Nat /\ i \in Nat
        BY <1>3, <1>4, <4>1, EntryFacts
      <4>3. ~(i < j) /\ ~(j < i)
        BY <1>5, <4>1, <4>2 DEF Inv, BufferInv
      <4>4. i = j
        BY <4>2, <4>3
      <4>5. QED
        BY <2>1, <4>4
    <3>3. QED
      BY <1>1, <2>5, <3>1, <3>2
  <2>6. \A i \in 1..Len(events) : events[i].cursor <= after' <=> events[i].frame \in seen'
    BY <2>3, <2>4, <2>5
  <2>7. \A n \in seen' : n <= received
    BY <1>1, <1>3, <1>4, <1>5 DEF Inv, BufferInv
  <2>8. CursorOrder' /\ cursor' <= received' /\ after' <= cursor'
    BY <1>1, <2>2 DEF Inv, BufferInv, CursorOrder
  <2>9. BufferInv'
    BY <1>1, <2>6, <2>7, <2>8 DEF Inv, BufferInv
  <2>10. QED
    BY <1>6, <1>7, <2>2, <2>9, EntryFacts
<1>10. QED
  BY <1>6, <1>7, <1>8, <1>9

-----------------------------------------------------------------------------
(* A frame that arrives keeps the counters within their bound.             *)
LEMMA CountersStay ==
  ASSUME Inv, NEW s \in Channels, Arrives(s)
  PROVE  /\ received + 1 \in 0..MaxFrames /\ cursor + 1 \in 0..MaxFrames
         /\ cursor \in 0..MaxFrames /\ headState \in 0..MaxFrames
<1>1. received \in 0..MaxFrames /\ cursor \in 0..MaxFrames /\ headState \in 0..MaxFrames
  BY DEF Inv, TypeOK
<1>2. received < MaxFrames /\ cursor <= received
  BY DEF Arrives, Inv, BufferInv
<1>3. QED
  BY <1>1, <1>2, ConstantFacts

LEMMA InvStep == Inv /\ [Next]_vars => Inv'
<1> SUFFICES ASSUME Inv, [Next]_vars PROVE Inv'
  OBVIOUS
<1> USE ConstantFacts DEF Channels, channelVars, bufferVars, clientVars
<1>1. CASE AcceptChannel
  BY <1>1, BufferKept DEF AcceptChannel, Inv, TypeOK
<1>2. CASE Restart
  BY <1>2, BufferKept DEF Restart, Lost, Inv, TypeOK
<1>3. ASSUME NEW s \in Channels, OnHello(s) \/ FrameRefused(s) \/ ChannelClosed(s) PROVE Inv'
  <2>1. UNCHANGED bufferVars /\ UNCHANGED clientVars /\ UNCHANGED accepted
    BY <1>3 DEF OnHello, FrameRefused, ChannelClosed
  <2>2. BufferInv'
    BY <2>1, BufferKept
  <2>3. link' \in [Channels -> {"unused", "open", "closing", "closed", "lost"}]
    BY <1>3 DEF OnHello, FrameRefused, ChannelClosed, Inv, TypeOK
  <2>4. presence' \in 0..MaxChannels /\ headState' \in 0..MaxFrames
    BY <1>3 DEF OnHello, FrameRefused, ChannelClosed, Inv, TypeOK
  <2>5. QED
    BY <2>1, <2>2, <2>3, <2>4 DEF Inv, TypeOK
<1>4. ASSUME NEW s \in Channels, OnFrame(s) PROVE Inv'
  <2>1. BufferInv' /\ events' \in Seq(Entries) /\ Len(events') <= EventLimit
    BY <1>4, FrameStep
  <2>2. received' \in 0..MaxFrames /\ cursor' \in 0..MaxFrames /\ headState' \in 0..MaxFrames
    <3>1. received' = received + 1 /\ cursor' = cursor + 1
      BY <1>4 DEF OnFrame, Arrives, PutCursor
    <3>2. headState' \in {headState, received + 1}
      BY <1>4 DEF OnFrame, Touch
    <3>3. Arrives(s)
      BY <1>4 DEF OnFrame
    <3>4. /\ received + 1 \in 0..MaxFrames /\ cursor + 1 \in 0..MaxFrames
          /\ cursor \in 0..MaxFrames /\ headState \in 0..MaxFrames
      BY <3>3, CountersStay
    <3>5. QED
      BY <3>1, <3>2, <3>4
  <2>3. origin' \in [Frames -> 0..MaxChannels]
    <3>1. origin' = [origin EXCEPT ![received + 1] = s] /\ s \in 0..MaxChannels
      BY <1>4 DEF OnFrame, Arrives
    <3>2. origin \in [Frames -> 0..MaxChannels]
      BY DEF Inv, TypeOK
    <3>3. QED
      BY <3>1, <3>2
  <2>4. QED
    BY <1>4, <2>1, <2>2, <2>3 DEF OnFrame, Inv, TypeOK
<1>5. ASSUME NEW s \in Channels, CrashInFrame(s) PROVE Inv'
  <2>1. BufferInv' /\ UNCHANGED events
    BY <1>5, CrashStep
  <2>2. received' \in 0..MaxFrames /\ cursor' \in 0..MaxFrames /\ headState' \in 0..MaxFrames
    <3>1. received' = received + 1 /\ cursor' \in {cursor, cursor + 1}
      BY <1>5 DEF CrashInFrame, Arrives, Interrupted, PutCursor
    <3>2. headState' \in {headState, received + 1}
      BY <1>5 DEF CrashInFrame, Touch
    <3>3. Arrives(s)
      BY <1>5 DEF CrashInFrame
    <3>4. /\ received + 1 \in 0..MaxFrames /\ cursor + 1 \in 0..MaxFrames
          /\ cursor \in 0..MaxFrames /\ headState \in 0..MaxFrames
      BY <3>3, CountersStay
    <3>5. QED
      BY <3>1, <3>2, <3>4
  <2>3. origin' \in [Frames -> 0..MaxChannels]
    <3>1. origin' = [origin EXCEPT ![received + 1] = s] /\ s \in 0..MaxChannels
      BY <1>5 DEF CrashInFrame, Arrives
    <3>2. origin \in [Frames -> 0..MaxChannels]
      BY DEF Inv, TypeOK
    <3>3. QED
      BY <3>1, <3>2
  <2>4. link' \in [Channels -> {"unused", "open", "closing", "closed", "lost"}]
    BY <1>5 DEF CrashInFrame, Lost, Inv, TypeOK
  <2>5. QED
    BY <1>5, <2>1, <2>2, <2>3, <2>4 DEF CrashInFrame, Inv, TypeOK
<1>6. ASSUME NEW c \in Commands, Sent(c) \/ NotSent(c) PROVE Inv'
  <2>1. /\ answer' \in [Commands -> {"none", "ok", "MACHINE_OFFLINE", "failed"}]
        /\ UNCHANGED <<after, page, seen>> /\ UNCHANGED channelVars /\ UNCHANGED bufferVars
    BY <1>6 DEF Sent, NotSent, Answered, Inv, TypeOK
  <2>2. sentOn' \in [Commands -> 0..MaxChannels]
    <3>1. sentOn' = sentOn \/ \E s \in Channels : sentOn' = [sentOn EXCEPT ![c] = s]
      BY <1>6 DEF Sent, NotSent
    <3>2. sentOn \in [Commands -> 0..MaxChannels] /\ Channels \subseteq 0..MaxChannels
      BY DEF Inv, TypeOK
    <3>3. QED
      BY <3>1, <3>2
  <2>3. QED
    BY <2>1, <2>2, BufferKept DEF Inv, TypeOK
<1>7. ASSUME NEW asked \in AskedLimits, ReadEvents(asked) PROVE Inv'
  <2>1. BufferInv' /\ page' \subseteq Frames /\ after' \in 0..cursor
    BY <1>7, ReadStep
  <2>2. seen' \subseteq Frames /\ after' \in 0..MaxFrames
    BY <1>7, <2>1 DEF ReadEvents, Inv, TypeOK
  <2>3. QED
    BY <1>7, <2>1, <2>2 DEF ReadEvents, Inv, TypeOK
<1>8. CASE UNCHANGED vars
  BY <1>8, BufferKept DEF vars, Inv, TypeOK
<1>9. QED
  BY <1>1, <1>2, <1>3, <1>4, <1>5, <1>6, <1>7, <1>8 DEF Next

LEMMA InvInit == Init => Inv
BY ConstantFacts DEF Init, Inv, TypeOK, BufferInv, CursorOrder, Channels

(* The types, and with them the bound on the replay buffer, hold always.   *)
THEOREM TypeCorrect == Spec => []TypeOK
<1>1. Inv => TypeOK
  BY DEF Inv
<1>2. QED
  BY <1>1, InvInit, InvStep, PTL DEF Spec

(* Whatever is lost between two puts, no two stored frames share a cursor. *)
THEOREM CursorsGrow == Spec => []CursorOrder
<1>1. Inv => CursorOrder
  BY DEF Inv, BufferInv
<1>2. QED
  BY <1>1, InvInit, InvStep, PTL DEF Spec

(* Following nextCursor, a reader misses no frame that is still stored.    *)
THEOREM ReaderMissesNothing == Spec => []NothingSkipped
<1>1. Inv => NothingSkipped
  BY DEF Inv, BufferInv, NothingSkipped
<1>2. QED
  BY <1>1, InvInit, InvStep, PTL DEF Spec

(* Nor is it given any frame twice.                                        *)
THEOREM ReaderSeesOnce == Spec => SeenOnce
<1>1. Inv /\ [Next]_vars => [page' # page => page' \cap seen = {}]_vars
  <2> SUFFICES ASSUME Inv, [Next]_vars, page' # page PROVE page' \cap seen = {}
    OBVIOUS
  <2>1. PICK asked \in AskedLimits : ReadEvents(asked)
    BY DEF Next, AcceptChannel, Restart, OnHello, OnFrame, CrashInFrame, FrameRefused,
           ChannelClosed, Sent, NotSent, Answered, clientVars, vars
  <2>2. QED
    BY <2>1, ReadStep
<1>2. QED
  BY <1>1, InvInit, InvStep, PTL DEF Spec, SeenOnce
-----------------------------------------------------------------------------
(* Only a hello gives the record to another channel, and it resets the     *)
(* head state; frames already received keep the channel they came on.      *)
HeadInv == headState <= received /\ HeadStateFromOwner

LEMMA HeadStep == Inv /\ HeadInv /\ [Next]_vars => HeadInv'
<1> SUFFICES ASSUME Inv, HeadInv, [Next]_vars PROVE HeadInv'
  OBVIOUS
<1> USE DEF HeadInv, HeadStateFromOwner
<1>1. /\ headState \in 0..MaxFrames /\ received \in 0..MaxFrames
      /\ origin \in [Frames -> 0..MaxChannels] /\ presence \in 0..MaxChannels
  BY DEF Inv, TypeOK
<1>2. ASSUME UNCHANGED <<presence, headState, received, origin>> PROVE HeadInv'
  BY <1>2
<1>3. ASSUME NEW s \in Channels, OnHello(s) PROVE HeadInv'
  BY <1>1, <1>3 DEF OnHello, bufferVars
<1>4. ASSUME NEW s \in Channels, Arrives(s), Touch(s, received + 1) \/ UNCHANGED headState,
             UNCHANGED presence
      PROVE  HeadInv'
  <2>1. /\ received < MaxFrames /\ received' = received + 1
        /\ origin' = [origin EXCEPT ![received + 1] = s]
    BY <1>4 DEF Arrives
  <2>2. received + 1 \in Frames
    BY <1>1, <2>1, ConstantFacts DEF Frames
  <2>3. CASE UNCHANGED headState
    <3>1. headState # 0 => headState \in Frames /\ headState # received + 1
      BY <1>1 DEF Frames
    <3>2. headState # 0 => origin'[headState] = origin[headState]
      BY <1>1, <2>1, <3>1
    <3>3. QED
      BY <1>1, <1>4, <2>1, <2>3, <3>2
  <2>4. CASE OwnsPresence(s) /\ headState' = received + 1
    <3>1. presence = s /\ origin'[received + 1] = s
      BY <1>1, <2>1, <2>2, <2>4 DEF OwnsPresence
    <3>2. QED
      BY <1>1, <1>4, <2>1, <2>4, <3>1
  <2>5. QED
    BY <1>4, <2>3, <2>4 DEF Touch
<1>5. ASSUME NEW s \in Channels, OnFrame(s) \/ CrashInFrame(s) PROVE HeadInv'
  BY <1>4, <1>5 DEF OnFrame, CrashInFrame
<1>6. CASE AcceptChannel \/ Restart \/ UNCHANGED vars
  BY <1>2, <1>6 DEF AcceptChannel, Restart, bufferVars, vars
<1>7. ASSUME NEW s \in Channels, FrameRefused(s) \/ ChannelClosed(s) PROVE HeadInv'
  BY <1>2, <1>7 DEF FrameRefused, ChannelClosed, bufferVars
<1>8. ASSUME NEW c \in Commands, Sent(c) \/ NotSent(c) PROVE HeadInv'
  BY <1>2, <1>8 DEF Sent, NotSent, Answered, channelVars, bufferVars
<1>9. ASSUME NEW asked \in AskedLimits, ReadEvents(asked) PROVE HeadInv'
  BY <1>2, <1>9 DEF ReadEvents, channelVars, bufferVars
<1>10. QED
  BY <1>3, <1>5, <1>6, <1>7, <1>8, <1>9 DEF Next

(* The record's head state is the report of the channel that said the last *)
(* hello: touchPresence() drops the heartbeats of a head it has replaced.  *)
THEOREM HeadStateIsOwners == Spec => []HeadStateFromOwner
<1>1. Init => HeadInv
  BY DEF Init, HeadInv, HeadStateFromOwner
<1>2. HeadInv => HeadStateFromOwner
  BY DEF HeadInv
<1>3. QED
  BY <1>1, <1>2, InvInit, InvStep, HeadStep, PTL DEF Spec
-----------------------------------------------------------------------------
(* Channels are numbered as they are accepted, and the object closes every *)
(* other one when it accepts a new one.                                    *)
ChannelInv ==
  \A s \in Channels : /\ link[s] # "unused" => s <= accepted
                      /\ link[s] = "open" => s = accepted

LEMMA ChannelStep == Inv /\ ChannelInv /\ [Next]_vars => ChannelInv'
<1> SUFFICES ASSUME Inv, ChannelInv, [Next]_vars PROVE ChannelInv'
  OBVIOUS
<1> USE DEF ChannelInv
<1>1. /\ accepted \in 0..MaxChannels /\ \A s \in Channels : s \in Nat
      /\ link \in [Channels -> {"unused", "open", "closing", "closed", "lost"}]
  BY ConstantFacts DEF Inv, TypeOK, Channels
<1>2. CASE AcceptChannel
  BY <1>1, <1>2 DEF AcceptChannel, Displaced
<1>3. ASSUME UNCHANGED accepted,
             \A s \in Channels : \/ link'[s] = link[s]
                                 \/ link[s] # "unused" /\ link'[s] # "open"
      PROVE  ChannelInv'
  BY <1>3
<1>4. ASSUME UNCHANGED <<accepted, link>> PROVE ChannelInv'
  BY <1>4
<1>5. CASE Restart
  BY <1>1, <1>3, <1>5 DEF Restart, Lost
<1>6. ASSUME NEW s \in Channels, CrashInFrame(s) PROVE ChannelInv'
  BY <1>1, <1>3, <1>6 DEF CrashInFrame, Lost
<1>7. ASSUME NEW s \in Channels, FrameRefused(s) \/ ChannelClosed(s) PROVE ChannelInv'
  BY <1>1, <1>3, <1>7 DEF FrameRefused, ChannelClosed, Listed
<1>8. ASSUME NEW s \in Channels, OnHello(s) \/ OnFrame(s) PROVE ChannelInv'
  BY <1>4, <1>8 DEF OnHello, OnFrame
<1>9. ASSUME NEW c \in Commands, Sent(c) \/ NotSent(c) PROVE ChannelInv'
  BY <1>4, <1>9 DEF Sent, NotSent, Answered, channelVars
<1>10. ASSUME NEW asked \in AskedLimits, ReadEvents(asked) PROVE ChannelInv'
  BY <1>4, <1>10 DEF ReadEvents, channelVars
<1>11. CASE UNCHANGED vars
  BY <1>4, <1>11 DEF vars
<1>12. QED
  BY <1>2, <1>5, <1>6, <1>7, <1>8, <1>9, <1>10, <1>11 DEF Next

(* A command that is acknowledged went to the newest channel: send() asks   *)
(* for a socket with the record's fence that is still open.                 *)
THEOREM CommandsGoToNewest == Spec => CommandOnNewestChannel
<1> DEFINE Acknowledged(c) ==
      answer[c] = "none" /\ answer'[c] = "ok" =>
        \A s \in Channels : link[s] # "unused" => s <= sentOn'[c]
<1>1. Init => ChannelInv
  BY DEF Init, ChannelInv
<1>2. Inv /\ ChannelInv /\ [Next]_vars => [\A c \in Commands : Acknowledged(c)]_vars
  <2> SUFFICES ASSUME Inv, ChannelInv, [Next]_vars, NEW c \in Commands,
                      answer[c] = "none", answer'[c] = "ok",
                      NEW s \in Channels, link[s] # "unused"
               PROVE  s <= sentOn'[c]
    OBVIOUS
  <2>1. /\ answer \in [Commands -> {"none", "ok", "MACHINE_OFFLINE", "failed"}]
        /\ sentOn \in [Commands -> 0..MaxChannels]
    BY DEF Inv, TypeOK
  <2>2. PICK d \in Commands : Sent(d) \/ NotSent(d)
    BY DEF Next, AcceptChannel, Restart, OnHello, OnFrame, CrashInFrame, FrameRefused,
           ChannelClosed, ReadEvents, clientVars, vars
  <2>3. d = c /\ Sent(c)
    BY <2>1, <2>2 DEF Sent, NotSent, Answered
  <2>4. PICK t \in Channels : link[t] = "open" /\ sentOn' = [sentOn EXCEPT ![c] = t]
    BY <2>3 DEF Sent
  <2>5. sentOn'[c] = t
    BY <2>1, <2>4
  <2>6. QED
    BY <2>4, <2>5 DEF ChannelInv
<1>3. QED
  BY <1>1, <1>2, InvInit, InvStep, ChannelStep, PTL DEF Spec, CommandOnNewestChannel
=============================================================================
