------------------------ MODULE ExportRelay_proofs ------------------------
(* Theorems about ExportRelay, for every value of its constants.           *)
EXTENDS ExportRelay, SequenceTheorems, TLAPS

(* What has been admitted: what KaziQuery holds, and then what it does not *)
(* hold yet.                                                               *)
Admitted == stored \o Outstanding

(* The batch that is being delivered is a part of the queue, and has the   *)
(* newest key there is.                                                    *)
BatchInv ==
  queue.inflight # NoBatch =>
    queue.inflight.id \in 1..batches /\ queue.inflight.count \in 1..Len(queue.pending)

(* A post that KaziQuery has not seen is one of that batch, whose records  *)
(* have not changed since.                                                 *)
PostInv ==
  /\ accepted \subseteq 1..batches
  /\ \A p \in posted :
       /\ p.id \in 1..batches
       /\ p.id \notin accepted => queue.inflight # NoBatch /\ p.id = queue.inflight.id
       /\ queue.inflight # NoBatch /\ p.id = queue.inflight.id =>
            p.entries = Front(queue, queue.inflight.count)

NumberInv == queue.next = Len(Admitted)

(* A record has a receipt, or is too old to be taken, once it is admitted. *)
ReceiptInv ==
  /\ \A k \in DOMAIN Admitted : Admitted[k].record \in receipts \cup aged
  /\ \A r \in receipts : Holds(Admitted, r)
  /\ \A r \in Records : sent[r] = "admitted" => Holds(Admitted, r)

IInv == TypeOK /\ BatchInv /\ PostInv /\ NumberInv /\ ReceiptInv

Queues == [destination: Destinations \cup {NoDestination}, next: Nat, pending: Seq(Entries),
           blocked: BOOLEAN, inflight: Batches \cup {NoBatch}]
-----------------------------------------------------------------------------
LEMMA Constants ==
  /\ BatchRecords \in Nat /\ BatchRecords >= 1
  /\ NoDestination \notin Destinations /\ NoBatch \notin Batches
  /\ Environments \subseteq Destinations \cup {NoDestination}
BY RelayAssumption DEF RelayAssumption

(* A sequence is cut in two, and put together again.                       *)
LEMMA Cut ==
  ASSUME NEW S, NEW s \in Seq(S), NEW n \in 0..Len(s)
  PROVE  /\ SubSeq(s, 1, n) \in Seq(S) /\ Len(SubSeq(s, 1, n)) = n
         /\ SubSeq(s, n + 1, Len(s)) \in Seq(S)
         /\ SubSeq(s, 1, n) \o SubSeq(s, n + 1, Len(s)) = s
<1>1. Len(s) \in Nat /\ n \in Nat /\ n <= Len(s) /\ s \in [1..Len(s) -> S]
  BY LenProperties
<1>2. SubSeq(s, 1, n) \in Seq(S) /\ Len(SubSeq(s, 1, n)) = n
  <2>1. \A i \in 1..n : s[i] \in S
    BY <1>1
  <2>2. 1 \in Int /\ n \in Int
    BY <1>1
  <2>3. SubSeq(s, 1, n) \in Seq(S) /\ Len(SubSeq(s, 1, n)) = IF 1 <= n THEN n - 1 + 1 ELSE 0
    BY <2>1, <2>2, SubSeqProperties
  <2>4. QED
    BY <1>1, <2>3
<1>3. SubSeq(s, n + 1, Len(s)) \in Seq(S)
  <2>1. \A i \in (n + 1)..Len(s) : s[i] \in S
    BY <1>1
  <2>2. n + 1 \in Int /\ Len(s) \in Int
    BY <1>1
  <2>3. QED
    BY <2>1, <2>2, SubSeqProperties
<1>4. SubSeq(s, 1, n) \o SubSeq(s, n + 1, Len(s)) = SubSeq(s, 1, Len(s))
  <2>1. 1 \in 1..Len(s) + 1 /\ n \in (1 - 1)..Len(s) /\ Len(s) \in n..Len(s)
    BY <1>1
  <2>2. QED
    BY <2>1, ConcatAdjacentSubSeq
<1>5. QED
  BY <1>2, <1>3, <1>4, SubSeqFull

(* The parts of a sequence that grows.                                     *)
LEMMA CutGrown ==
  ASSUME NEW S, NEW s \in Seq(S), NEW n \in 0..Len(s), NEW e \in S
  PROVE  /\ SubSeq(Append(s, e), 1, n) = SubSeq(s, 1, n)
         /\ SubSeq(Append(s, e), n + 1, Len(Append(s, e)))
              = Append(SubSeq(s, n + 1, Len(s)), e)
<1> DEFINE t == Append(s, e)
<1>1. Len(s) \in Nat /\ n \in Nat /\ n <= Len(s) /\ s \in [1..Len(s) -> S]
  BY LenProperties
<1>2. /\ t \in Seq(S) /\ Len(t) = Len(s) + 1
      /\ \A i \in 1..Len(s) : t[i] = s[i]
      /\ t[Len(s) + 1] = e
  BY AppendProperties
<1> HIDE DEF t
<1>3. n \in 0..Len(t)
  BY <1>1, <1>2
<1>4. SubSeq(t, 1, n) = SubSeq(s, 1, n)
  <2>1. SubSeq(t, 1, n) \in Seq(S) /\ Len(SubSeq(t, 1, n)) = n
    BY <1>2, <1>3, Cut
  <2>2. SubSeq(s, 1, n) \in Seq(S) /\ Len(SubSeq(s, 1, n)) = n
    BY Cut
  <2>3. \A i \in 1..n - 1 + 1 : SubSeq(t, 1, n)[i] = t[1 + i - 1]
    <3>1. 1 \in Int /\ n \in Int /\ \A i \in 1..n : t[i] \in S
      BY <1>1, <1>2
    <3>2. QED
      BY <3>1, SubSeqProperties
  <2>4. \A i \in 1..n - 1 + 1 : SubSeq(s, 1, n)[i] = s[1 + i - 1]
    <3>1. 1 \in Int /\ n \in Int /\ \A i \in 1..n : s[i] \in S
      BY <1>1
    <3>2. QED
      BY <3>1, SubSeqProperties
  <2>5. \A i \in 1..Len(SubSeq(t, 1, n)) : SubSeq(t, 1, n)[i] = SubSeq(s, 1, n)[i]
    BY <1>1, <1>2, <2>1, <2>3, <2>4
  <2>6. QED
    BY <2>1, <2>2, <2>5, SeqEqual
<1>5. SubSeq(t, n + 1, Len(s)) = SubSeq(s, n + 1, Len(s))
  <2>1. /\ n + 1 \in Int /\ Len(s) \in Int
        /\ \A i \in (n + 1)..Len(s) : s[i] \in S /\ t[i] \in S
    BY <1>1, <1>2
  <2>2. /\ SubSeq(t, n + 1, Len(s)) \in Seq(S)
        /\ Len(SubSeq(t, n + 1, Len(s))) = IF n + 1 <= Len(s) THEN Len(s) - (n + 1) + 1 ELSE 0
        /\ \A i \in 1..Len(s) - (n + 1) + 1 : SubSeq(t, n + 1, Len(s))[i] = t[n + 1 + i - 1]
    BY <2>1, SubSeqProperties
  <2>3. /\ SubSeq(s, n + 1, Len(s)) \in Seq(S)
        /\ Len(SubSeq(s, n + 1, Len(s))) = IF n + 1 <= Len(s) THEN Len(s) - (n + 1) + 1 ELSE 0
        /\ \A i \in 1..Len(s) - (n + 1) + 1 : SubSeq(s, n + 1, Len(s))[i] = s[n + 1 + i - 1]
    BY <2>1, SubSeqProperties
  <2>4. \A i \in 1..Len(SubSeq(t, n + 1, Len(s))) :
          SubSeq(t, n + 1, Len(s))[i] = SubSeq(s, n + 1, Len(s))[i]
    BY <1>1, <1>2, <2>2, <2>3
  <2>5. QED
    BY <2>2, <2>3, <2>4, SeqEqual
<1>6. SubSeq(t, n + 1, Len(t)) = SubSeq(t, n + 1, Len(t) - 1) \o <<t[Len(t)]>>
  <2>1. n + 1 \in 1..Len(t) /\ Len(t) \in (n + 1)..Len(t)
    BY <1>1, <1>2
  <2>2. QED
    BY <1>2, <2>1, SubSeqRecursiveSecond
<1>7. Append(SubSeq(s, n + 1, Len(s)), e) = SubSeq(s, n + 1, Len(s)) \o <<e>>
  <2>1. \A rest \in Seq(S) : Append(rest, e) = rest \o <<e>>
    BY AppendIsConcat
  <2>2. SubSeq(s, n + 1, Len(s)) \in Seq(S)
    BY Cut
  <2>3. QED
    BY <2>1, <2>2
<1>8. Len(t) - 1 = Len(s) /\ t[Len(t)] = e
  BY <1>1, <1>2
<1>9. SubSeq(t, n + 1, Len(t)) = Append(SubSeq(s, n + 1, Len(s)), e)
  BY <1>5, <1>6, <1>7, <1>8
<1>10. QED
  BY <1>4, <1>9 DEF t

LEMMA ConcatAppend ==
  ASSUME NEW S, NEW s \in Seq(S), NEW t \in Seq(S), NEW e \in S
  PROVE  s \o Append(t, e) = Append(s \o t, e)
<1>1. <<e>> \in Seq(S)
  OBVIOUS
<1>2. s \o t \in Seq(S)
  BY ConcatProperties
<1>3. Append(t, e) = t \o <<e>> /\ Append(s \o t, e) = (s \o t) \o <<e>>
  BY <1>2, AppendIsConcat
<1>4. QED
  BY <1>1, <1>3, ConcatAssociative

LEMMA ConcatStarts ==
  ASSUME NEW S, NEW s \in Seq(S), NEW t \in Seq(S)
  PROVE  s = SubSeq(s \o t, 1, Len(s)) /\ Len(s) \in 0..Len(s \o t)
<1>1. /\ s \o t \in Seq(S) /\ Len(s \o t) = Len(s) + Len(t)
      /\ \A i \in 1..Len(s) + Len(t) : (s \o t)[i] = IF i <= Len(s) THEN s[i] ELSE t[i - Len(s)]
  BY ConcatProperties
<1>2. Len(s) \in Nat /\ Len(t) \in Nat
  BY LenProperties
<1>3. Len(s) \in 0..Len(s \o t)
  BY <1>1, <1>2
<1>4. SubSeq(s \o t, 1, Len(s)) \in Seq(S) /\ Len(SubSeq(s \o t, 1, Len(s))) = Len(s)
  BY <1>1, <1>3, Cut
<1>5. \A i \in 1..Len(s) : SubSeq(s \o t, 1, Len(s))[i] = (s \o t)[i]
  <2>1. 1 \in Int /\ Len(s) \in Int /\ \A i \in 1..Len(s) : (s \o t)[i] \in S
    BY <1>1, <1>2, LenProperties
  <2>2. \A i \in 1..Len(s) - 1 + 1 : SubSeq(s \o t, 1, Len(s))[i] = (s \o t)[1 + i - 1]
    BY <2>1, SubSeqProperties
  <2>3. QED
    BY <1>2, <2>2
<1>6. \A i \in 1..Len(s) : s[i] = SubSeq(s \o t, 1, Len(s))[i]
  BY <1>1, <1>2, <1>5
<1>7. s = SubSeq(s \o t, 1, Len(s))
  BY <1>4, <1>6, SeqEqual
<1>8. QED
  BY <1>3, <1>7
-----------------------------------------------------------------------------
(* The fields of the relay's queue, as the handlers write them.            *)
LEMMA QueueFields ==
  ASSUME NEW q \in Queues
  PROVE  /\ q.pending \in Seq(Entries) /\ Len(q.pending) \in Nat /\ q.next \in Nat
         /\ q.inflight \in Batches \cup {NoBatch}
         /\ q.inflight # NoBatch =>
              q.inflight.id \in Nat \ {0} /\ q.inflight.count \in Nat \ {0}
BY LenProperties DEF Queues, Batches

LEMMA ShortenedFields ==
  ASSUME NEW q \in Queues, q.inflight # NoBatch, q.inflight.count \in 1..Len(q.pending)
  PROVE  /\ Shortened(q) \in Queues
         /\ Shortened(q).pending = SubSeq(q.pending, q.inflight.count + 1, Len(q.pending))
         /\ Shortened(q).inflight = NoBatch /\ Shortened(q).next = q.next
<1> DEFINE rest == SubSeq(q.pending, q.inflight.count + 1, Len(q.pending))
<1>1. q.pending \in Seq(Entries) /\ q.inflight.count \in 0..Len(q.pending)
  BY QueueFields
<1>2. rest \in Seq(Entries)
  BY <1>1, Cut
<1>3. Shortened(q) = [q EXCEPT !.pending = rest, !.inflight = NoBatch]
  BY DEF Shortened
<1> HIDE DEF rest
<1>4. Shortened(q) \in Queues /\ Shortened(q).pending = rest
      /\ Shortened(q).inflight = NoBatch /\ Shortened(q).next = q.next
  BY <1>2, <1>3 DEF Queues
<1>5. QED
  BY <1>4 DEF rest

LEMMA EnqueueFields ==
  ASSUME TypeOK, NEW r \in Records, deployed # NoDestination
  PROVE  /\ Enqueue(r) \in Queues
         /\ Enqueue(r).pending = Append(queue.pending, [record |-> r, sequence |-> queue.next])
         /\ Enqueue(r).inflight = queue.inflight /\ Enqueue(r).next = queue.next + 1
         /\ [record |-> r, sequence |-> queue.next] \in Entries
<1> DEFINE e == [record |-> r, sequence |-> queue.next]
           more == Append(queue.pending, e)
<1>1. queue \in Queues /\ deployed \in Destinations
  BY Constants DEF TypeOK, Queues
<1>2. e \in Entries
  BY <1>1, QueueFields DEF Entries
<1>3. more \in Seq(Entries) /\ queue.next + 1 \in Nat
  BY <1>1, <1>2, QueueFields, AppendProperties
<1>4. Enqueue(r) = [queue EXCEPT !.destination = deployed, !.next = queue.next + 1, !.pending = more]
  BY DEF Enqueue
<1> HIDE DEF more, e
<1>5. /\ Enqueue(r) \in Queues /\ Enqueue(r).pending = more
      /\ Enqueue(r).inflight = queue.inflight /\ Enqueue(r).next = queue.next + 1
  BY <1>1, <1>3, <1>4 DEF Queues
<1>6. QED
  BY <1>2, <1>5 DEF more, e

LEMMA BatchFields ==
  ASSUME TypeOK, BatchInv, queue.pending # <<>>
  PROVE  /\ Batch \in Batches /\ Batch.count \in 1..Len(queue.pending)
         /\ queue.inflight # NoBatch => Batch = queue.inflight /\ Batch.id \in 1..batches
         /\ queue.inflight = NoBatch => Batch.id = batches + 1
         /\ [queue EXCEPT !.inflight = Batch] \in Queues
         /\ [queue EXCEPT !.inflight = Batch].pending = queue.pending
         /\ [queue EXCEPT !.inflight = Batch].inflight = Batch
         /\ [queue EXCEPT !.inflight = Batch].next = queue.next
<1>1. queue \in Queues /\ batches \in Nat
  BY DEF TypeOK, Queues
<1>2. queue.pending \in Seq(Entries) /\ Len(queue.pending) \in Nat \ {0}
  BY <1>1, QueueFields, EmptySeq
<1>3. CASE queue.inflight # NoBatch
  <2>1. Batch = queue.inflight
    BY <1>3 DEF Batch
  <2>2. Batch \in Batches /\ Batch.count \in 1..Len(queue.pending) /\ Batch.id \in 1..batches
    BY <1>1, <1>3, <2>1, QueueFields DEF BatchInv
  <2>3. QED
    BY <1>1, <1>3, <2>1, <2>2 DEF Queues
<1>4. CASE queue.inflight = NoBatch
  <2>1. PICK n \in 1..Len(queue.pending) : Batch = [id |-> batches + 1, count |-> n]
    BY <1>2, <1>4, Constants DEF Batch
  <2>2. Batch \in Batches /\ Batch.id = batches + 1 /\ Batch.count = n
    BY <1>1, <2>1 DEF Batches
  <2>3. QED
    BY <1>1, <1>4, <2>1, <2>2 DEF Queues
<1>5. QED
  BY <1>3, <1>4

(* What KaziQuery does not hold, in terms of the queue's fields.           *)
Rest(q) == SubSeq(q.pending, q.inflight.count + 1, Len(q.pending))

LEMMA OutstandingIs ==
  ASSUME TypeOK, BatchInv
  PROVE  /\ Outstanding = IF queue.inflight # NoBatch /\ queue.inflight.id \in accepted
                          THEN Rest(queue) ELSE queue.pending
         /\ Outstanding \in Seq(Entries) /\ stored \in Seq(Entries) /\ Admitted \in Seq(Entries)
<1>1. queue \in Queues /\ stored \in Seq(Entries)
  BY DEF TypeOK, Queues
<1>2. CASE queue.inflight # NoBatch /\ queue.inflight.id \in accepted
  <2>1. queue.inflight.count \in 1..Len(queue.pending) /\ queue.pending \in Seq(Entries)
    BY <1>1, <1>2, QueueFields DEF BatchInv
  <2>2. Outstanding = Rest(queue)
    BY <1>1, <1>2, <2>1, ShortenedFields DEF Outstanding, Rest
  <2>3. queue.inflight.count \in 0..Len(queue.pending)
    BY <2>1
  <2>4. Rest(queue) \in Seq(Entries)
    BY <2>1, <2>3, Cut DEF Rest
  <2>5. QED
    BY <1>1, <1>2, <2>2, <2>4, ConcatProperties DEF Admitted
<1>3. CASE ~(queue.inflight # NoBatch /\ queue.inflight.id \in accepted)
  <2>1. Outstanding = queue.pending /\ queue.pending \in Seq(Entries)
    BY <1>1, <1>3, QueueFields DEF Outstanding
  <2>2. QED
    BY <1>1, <1>3, <2>1, ConcatProperties DEF Admitted
<1>4. QED
  BY <1>2, <1>3

(* The same after a step.                                                  *)
LEMMA OutstandingIsNext ==
  ASSUME TypeOK', BatchInv'
  PROVE  /\ Outstanding' = IF queue'.inflight # NoBatch /\ queue'.inflight.id \in accepted'
                           THEN Rest(queue') ELSE queue'.pending
         /\ stored' \in Seq(Entries) /\ Outstanding' \in Seq(Entries)
<1>1. queue' \in Queues /\ stored' \in Seq(Entries)
  BY DEF TypeOK, Queues
<1>2. CASE queue'.inflight # NoBatch /\ queue'.inflight.id \in accepted'
  <2>1. queue'.inflight.count \in 1..Len(queue'.pending) /\ queue'.pending \in Seq(Entries)
    BY <1>1, <1>2, QueueFields DEF BatchInv
  <2>2. Outstanding' = Rest(queue')
    BY <1>1, <1>2, <2>1, ShortenedFields DEF Outstanding, Rest
  <2>3. queue'.inflight.count \in 0..Len(queue'.pending)
    BY <2>1
  <2>4. Rest(queue') \in Seq(Entries)
    BY <2>1, <2>3, Cut DEF Rest
  <2>5. QED
    BY <1>1, <1>2, <2>2, <2>4
<1>3. CASE ~(queue'.inflight # NoBatch /\ queue'.inflight.id \in accepted')
  <2>1. Outstanding' = queue'.pending /\ queue'.pending \in Seq(Entries)
    BY <1>1, <1>3, QueueFields DEF Outstanding
  <2>2. QED
    BY <1>1, <1>3, <2>1
<1>4. QED
  BY <1>2, <1>3
-----------------------------------------------------------------------------
Outcomes == {"unsent", "dropped", "waiting", "unconfirmed", "admitted", "rejected"}
Runs     == [at: {"idle", "compose", "posting"}, batch: Batches \cup {NoBatch}]
Posts    == [id: Nat \ {0}, entries: Seq(Entries)]

(* What a step does to the relay's queue: nothing, except where an entry   *)
(* is added, a batch composed or delivered, or the blocked flag written.   *)
OnlyFlag == /\ queue'.pending = queue.pending /\ queue'.inflight = queue.inflight
            /\ queue'.next = queue.next

LEMMA FlagFields ==
  ASSUME NEW q \in Queues, NEW b \in BOOLEAN
  PROVE  /\ [q EXCEPT !.blocked = b] \in Queues
         /\ [q EXCEPT !.blocked = b].pending = q.pending
         /\ [q EXCEPT !.blocked = b].inflight = q.inflight
         /\ [q EXCEPT !.blocked = b].next = q.next
BY DEF Queues

LEMMA RunFields ==
  ASSUME NEW run \in Runs, NEW at \in {"idle", "compose", "posting"}
  PROVE  [run EXCEPT !.at = at] \in Runs
BY DEF Runs

LEMMA TypeInit == Init => TypeOK
<1> SUFFICES ASSUME Init PROVE TypeOK
  OBVIOUS
<1>1. queue \in Queues
  BY DEF Init, Queues
<1>2. handler \in [Handlers -> Runs]
  BY DEF Init, Idle, Runs
<1>3. sent \in [Records -> Outcomes] /\ deployed \in Environments
  BY DEF Init, Outcomes
<1>4. stored \in Seq(Entries)
  BY DEF Init
<1>5. QED
  BY <1>1, <1>2, <1>3, <1>4 DEF Init, TypeOK, Queues, Runs, Outcomes

LEMMA Typed ==
  TypeOK <=> /\ sent \in [Records -> Outcomes] /\ deployed \in Environments
             /\ queue \in Queues /\ receipts \subseteq Records /\ aged \subseteq Records
             /\ alarm \in BOOLEAN /\ batches \in Nat
             /\ handler \in [Handlers -> Runs] /\ posted \subseteq Posts
             /\ accepted \subseteq Nat /\ stored \in Seq(Entries)
BY DEF TypeOK, Outcomes, Queues, Runs, Posts

LEMMA SettleType ==
  ASSUME TypeOK, BatchInv, NEW h \in Handlers, NEW q, Settle(h, q), q \in Queues \/ ~Current(h)
  PROVE  TypeOK'
<1>1. queue' \in Queues /\ alarm' \in BOOLEAN
  BY DEF Settle, TypeOK, Queues
<1>2. handler' = [handler EXCEPT ![h] = Idle] /\ Idle \in Runs
  BY DEF Settle, Idle, Runs
<1>3. handler' \in [Handlers -> Runs]
  BY <1>2 DEF TypeOK, Runs
<1>4. UNCHANGED <<sent, deployed, receipts, aged, batches, posted, accepted, stored>>
  BY DEF Settle, kaziquery
<1>5. QED
  BY <1>1, <1>3, <1>4 DEF TypeOK, Queues, Runs

LEMMA TypeStep ==
  ASSUME TypeOK, BatchInv, [Next]_vars
  PROVE  TypeOK'
<1>1. /\ sent \in [Records -> Outcomes] /\ deployed \in Environments
      /\ queue \in Queues /\ receipts \subseteq Records /\ aged \subseteq Records
      /\ alarm \in BOOLEAN /\ batches \in Nat
      /\ handler \in [Handlers -> Runs] /\ posted \subseteq Posts
      /\ accepted \subseteq Nat /\ stored \in Seq(Entries)
  BY Typed
<1>2. ASSUME sent' \in [Records -> Outcomes], deployed' \in Environments,
             queue' \in Queues, receipts' \subseteq Records, aged' \subseteq Records,
             alarm' \in BOOLEAN, batches' \in Nat,
             handler' \in [Handlers -> Runs], posted' \subseteq Posts,
             accepted' \subseteq Nat, stored' \in Seq(Entries)
      PROVE  TypeOK'
  BY <1>2 DEF TypeOK, Outcomes, Queues, Runs, Posts
<1> USE DEF kaziquery
<1>3. CASE UNCHANGED vars
  BY <1>1, <1>2, <1>3 DEF vars
<1>4. ASSUME NEW d \in Environments, Deploy(d) PROVE TypeOK'
  BY <1>1, <1>2, <1>4 DEF Deploy
<1>5. ASSUME NEW i \in Invocations, NEW n \in 1..PerInvocation, Send(i, n) PROVE TypeOK'
  <2>1. PICK outcome \in {"dropped", "waiting"} : sent' = [sent EXCEPT ![<<i, n>>] = outcome]
    BY <1>5 DEF Send
  <2>2. sent' \in [Records -> Outcomes]
    BY <1>1, <2>1 DEF Outcomes
  <2>3. QED
    BY <1>1, <1>2, <1>5, <2>2 DEF Send
<1>6. ASSUME NEW r \in Records, Unconfirmed(r) PROVE TypeOK'
  <2>1. sent' \in [Records -> Outcomes]
    BY <1>1, <1>6 DEF Unconfirmed, Outcomes
  <2>2. QED
    BY <1>1, <1>2, <1>6, <2>1 DEF Unconfirmed
<1>7. ASSUME NEW r \in Records, Age(r) PROVE TypeOK'
  BY <1>1, <1>2, <1>7 DEF Age
<1>8. ASSUME NEW r \in Records, Admit(r) PROVE TypeOK'
  <2>1. sent' \in [Records -> Outcomes]
    <3>1. \/ UNCHANGED sent
          \/ \E outcome \in {"admitted", "rejected"} :
               sent' = [sent EXCEPT ![r] = IF sent[r] = "waiting" THEN outcome ELSE sent[r]]
      BY <1>8 DEF Admit, Answer
    <3>2. QED
      BY <1>1, <3>1 DEF Outcomes
  <2>2. queue' \in Queues /\ receipts' \subseteq Records /\ alarm' \in BOOLEAN
    <3>1. CASE UNCHANGED <<queue, receipts, alarm>>
      BY <1>1, <3>1
    <3>2. CASE ~Refused(r) /\ queue' = Enqueue(r) /\ receipts' = receipts \cup {r}
               /\ alarm' = (alarm \/ Armed(Enqueue(r)))
      <4>1. deployed # NoDestination
        BY <3>2 DEF Refused
      <4>2. Enqueue(r) \in Queues
        BY <4>1, EnqueueFields
      <4>3. (alarm \/ Armed(Enqueue(r))) \in BOOLEAN
        BY Zenon
      <4>4. QED
        BY <1>1, <3>2, <4>2, <4>3
    <3>3. QED
      BY <1>8, <3>1, <3>2 DEF Admit
  <2>3. QED
    BY <1>1, <1>2, <1>8, <2>1, <2>2 DEF Admit
<1>9. CASE Resume
  BY <1>1, <1>2, <1>9, FlagFields DEF Resume
<1>10. CASE RetryRevision
  BY <1>1, <1>2, <1>10 DEF RetryRevision
<1>11. ASSUME NEW h \in Handlers, Alarm(h) PROVE TypeOK'
  <2>1. PICK at \in {"idle", "compose"} : handler' = [handler EXCEPT ![h] = [handler[h] EXCEPT !.at = at]]
    BY <1>11 DEF Alarm, Woken
  <2>2. [handler[h] EXCEPT !.at = at] \in Runs
    BY <1>1, RunFields
  <2>3. handler' \in [Handlers -> Runs]
    BY <1>1, <2>1, <2>2
  <2>4. receipts' \subseteq Records
    BY <1>1, <1>11 DEF Alarm
  <2>5. QED
    BY <1>1, <1>2, <1>11, <2>3, <2>4 DEF Alarm
<1>12. ASSUME NEW h \in Handlers, Compose(h) PROVE TypeOK'
  <2>1. CASE queue.pending = <<>>
    <3>1. handler' = [handler EXCEPT ![h] = Idle] /\ Idle \in Runs
      BY <1>12, <2>1 DEF Compose, Idle, Runs
    <3>2. QED
      BY <1>1, <1>2, <1>12, <2>1, <3>1 DEF Compose
  <2>2. CASE queue.pending # <<>>
    <3>1. Batch \in Batches /\ Batch.count \in 1..Len(queue.pending) /\ [queue EXCEPT !.inflight = Batch] \in Queues
      BY <2>2, BatchFields
    <3>2. /\ queue' = [queue EXCEPT !.inflight = Batch]
          /\ batches' \in {Batch.id, batches}
          /\ handler' = [handler EXCEPT ![h] = [at |-> "posting", batch |-> Batch]]
          /\ posted' = posted \cup {[id |-> Batch.id, entries |-> Front(queue, Batch.count)]}
      BY <1>12, <2>2 DEF Compose
    <3>3. Batch.id \in Nat \ {0} /\ [at |-> "posting", batch |-> Batch] \in Runs
      BY <3>1 DEF Batches, Runs
    <3>4. Front(queue, Batch.count) \in Seq(Entries)
      <4>1. queue.pending \in Seq(Entries) /\ Batch.count \in 0..Len(queue.pending)
        BY <1>1, <3>1, QueueFields
      <4>2. QED
        BY <4>1, Cut DEF Front
    <3>5. [id |-> Batch.id, entries |-> Front(queue, Batch.count)] \in Posts
      BY <3>3, <3>4 DEF Posts
    <3>6. batches' \in Nat /\ handler' \in [Handlers -> Runs] /\ posted' \subseteq Posts
      BY <1>1, <3>2, <3>3, <3>5
    <3>7. UNCHANGED <<sent, deployed, receipts, aged, alarm, accepted, stored>>
      BY <1>12 DEF Compose
    <3>8. QED
      BY <1>1, <1>2, <3>1, <3>2, <3>6, <3>7
  <2>3. QED
    BY <2>1, <2>2
<1>13. ASSUME NEW h \in Handlers, Delivered(h) PROVE TypeOK'
  <2>1. Settle(h, Shortened(queue))
    BY <1>13 DEF Delivered
  <2>2. Current(h) => Shortened(queue) \in Queues
    BY <1>1, ShortenedFields DEF Current, BatchInv
  <2>3. QED
    BY <2>1, <2>2, SettleType
<1>14. ASSUME NEW h \in Handlers, Blocked(h) PROVE TypeOK'
  BY <1>1, <1>14, FlagFields, SettleType DEF Blocked
<1>15. ASSUME NEW h \in Handlers, Failed(h) PROVE TypeOK'
  BY <1>1, <1>15, SettleType DEF Failed
<1>16. ASSUME NEW h \in Handlers, Killed(h) PROVE TypeOK'
  <2>1. handler' = [handler EXCEPT ![h] = Idle] /\ Idle \in Runs
    BY <1>16 DEF Killed, Idle, Runs
  <2>2. QED
    BY <1>1, <1>2, <1>16, <2>1 DEF Killed
<1>17. ASSUME NEW p \in posted, Ingest(p) PROVE TypeOK'
  <2>1. p.id \in Nat /\ p.entries \in Seq(Entries)
    BY <1>1 DEF Posts
  <2>2. stored' \in Seq(Entries) /\ accepted' \subseteq Nat
    BY <1>1, <1>17, <2>1, ConcatProperties DEF Ingest
  <2>3. QED
    BY <1>1, <1>2, <1>17, <2>2 DEF Ingest
<1>18. QED
  BY <1>3, <1>4, <1>5, <1>6, <1>7, <1>8, <1>9, <1>10, <1>11, <1>12, <1>13, <1>14, <1>15, <1>16, <1>17
  DEF Next, Sender, AlarmRun, Records
-----------------------------------------------------------------------------
(* The ways in which the queue, the posts and KaziQuery's store change.    *)
LEMMA QueueKept ==
  ASSUME TypeOK, BatchInv, PostInv, TypeOK', OnlyFlag,
         UNCHANGED <<batches, posted, accepted, stored>>
  PROVE  BatchInv' /\ PostInv' /\ Admitted' = Admitted
<1>1. BatchInv'
  BY DEF BatchInv, OnlyFlag
<1>2. PostInv'
  BY DEF PostInv, OnlyFlag, Front
<1>3. Outstanding' = Outstanding
  BY <1>1, OutstandingIs, OutstandingIsNext DEF OnlyFlag, Rest
<1>4. QED
  BY <1>1, <1>2, <1>3 DEF Admitted

LEMMA Enqueued ==
  ASSUME TypeOK, BatchInv, PostInv, TypeOK', NEW r \in Records, deployed # NoDestination,
         queue' = Enqueue(r), UNCHANGED <<batches, posted, accepted, stored>>
  PROVE  /\ BatchInv' /\ PostInv' /\ queue'.next = queue.next + 1
         /\ [record |-> r, sequence |-> queue.next] \in Entries
         /\ Admitted' = Append(Admitted, [record |-> r, sequence |-> queue.next])
<1> DEFINE e == [record |-> r, sequence |-> queue.next]
<1>1. /\ queue'.pending = Append(queue.pending, e) /\ queue'.inflight = queue.inflight
      /\ queue'.next = queue.next + 1 /\ e \in Entries
  BY EnqueueFields
<1> HIDE DEF e
<1>2. queue \in Queues /\ queue.pending \in Seq(Entries) /\ Len(queue.pending) \in Nat
  BY Typed, QueueFields
<1>3. Len(queue'.pending) = Len(queue.pending) + 1
  BY <1>1, <1>2, AppendProperties
<1>4. BatchInv'
  BY <1>1, <1>2, <1>3 DEF BatchInv
<1>5. ASSUME NEW n \in 0..Len(queue.pending)
      PROVE  /\ SubSeq(queue'.pending, 1, n) = SubSeq(queue.pending, 1, n)
             /\ SubSeq(queue'.pending, n + 1, Len(queue'.pending))
                  = Append(SubSeq(queue.pending, n + 1, Len(queue.pending)), e)
  <2>1. /\ SubSeq(Append(queue.pending, e), 1, n) = SubSeq(queue.pending, 1, n)
        /\ SubSeq(Append(queue.pending, e), n + 1, Len(Append(queue.pending, e)))
             = Append(SubSeq(queue.pending, n + 1, Len(queue.pending)), e)
    BY <1>1, <1>2, CutGrown
  <2>2. QED
    BY <1>1, <2>1
<1>6. queue.inflight # NoBatch => queue.inflight.count \in 0..Len(queue.pending)
  BY <1>2 DEF BatchInv
<1>7. PostInv'
  <2>1. queue.inflight # NoBatch =>
          Front(queue', queue.inflight.count) = Front(queue, queue.inflight.count)
    BY <1>5, <1>6 DEF Front
  <2>2. QED
    BY <1>1, <2>1 DEF PostInv
<1>8. Outstanding' = Append(Outstanding, e)
  <2>1. CASE queue.inflight # NoBatch /\ queue.inflight.id \in accepted
    <3>1. Outstanding' = Rest(queue') /\ Outstanding = Rest(queue)
      BY <1>1, <1>4, <2>1, OutstandingIs, OutstandingIsNext
    <3>2. Rest(queue') = Append(Rest(queue), e)
      BY <1>1, <1>5, <1>6, <2>1 DEF Rest
    <3>3. QED
      BY <3>1, <3>2
  <2>2. CASE ~(queue.inflight # NoBatch /\ queue.inflight.id \in accepted)
    BY <1>1, <1>4, <2>2, OutstandingIs, OutstandingIsNext
  <2>3. QED
    BY <2>1, <2>2
<1>9. Admitted' = Append(Admitted, e)
  BY <1>1, <1>8, OutstandingIs, ConcatAppend DEF Admitted
<1>10. QED
  BY <1>1, <1>4, <1>7, <1>9 DEF e

LEMMA Composed ==
  ASSUME TypeOK, BatchInv, PostInv, TypeOK', NEW h \in Handlers, Compose(h)
  PROVE  BatchInv' /\ PostInv' /\ Admitted' = Admitted /\ queue'.next = queue.next
<1>0. UNCHANGED <<accepted, stored>>
  BY DEF Compose, kaziquery
<1>1. CASE queue.pending = <<>>
  <2>1. UNCHANGED <<queue, batches, posted>>
    BY <1>1 DEF Compose
  <2>2. QED
    BY <1>0, <2>1, QueueKept DEF OnlyFlag
<1>2. CASE queue.pending # <<>>
  <2>1. /\ queue' = [queue EXCEPT !.inflight = Batch]
        /\ batches' = IF Batch.id > batches THEN Batch.id ELSE batches
        /\ posted' = posted \cup {[id |-> Batch.id, entries |-> Front(queue, Batch.count)]}
    BY <1>2 DEF Compose
  <2>2. /\ Batch \in Batches /\ Batch.count \in 1..Len(queue.pending)
        /\ queue.inflight # NoBatch => Batch = queue.inflight /\ Batch.id \in 1..batches
        /\ queue.inflight = NoBatch => Batch.id = batches + 1
    BY <1>2, BatchFields
  <2>3. queue'.pending = queue.pending /\ queue'.inflight = Batch /\ queue'.next = queue.next
    BY <1>2, <2>1, BatchFields
  <2>4. Batch # NoBatch /\ batches \in Nat /\ accepted \subseteq 1..batches
    BY <2>2, Constants, Typed DEF PostInv
  <2>5. Batch.id \in 1..batches' /\ batches' \in Nat /\ batches <= batches'
    BY <2>1, <2>2, <2>4
  <2>6. BatchInv'
    BY <2>2, <2>3, <2>5 DEF BatchInv
  <2>7. CASE queue.inflight # NoBatch
    <3>1. Batch = queue.inflight
      BY <2>2, <2>7
    <3>2. PostInv'
      BY <1>0, <2>1, <2>2, <2>3, <2>4, <2>5, <2>7, <3>1 DEF PostInv, Front
    <3>3. Outstanding' = Outstanding
      BY <1>0, <2>3, <2>6, <3>1, OutstandingIs, OutstandingIsNext DEF Rest
    <3>4. QED
      BY <1>0, <2>3, <2>6, <3>2, <3>3 DEF Admitted
  <2>8. CASE queue.inflight = NoBatch
    <3>1. Batch.id = batches + 1 /\ Batch.id \notin accepted
      BY <2>2, <2>4, <2>8
    <3>2. \A p \in posted : p.id \in accepted /\ p.id # Batch.id /\ p.id \in 1..batches
      BY <2>4, <2>8, <3>1 DEF PostInv
    <3>3. PostInv'
      BY <1>0, <2>1, <2>3, <2>4, <2>5, <3>1, <3>2 DEF PostInv, Front
    <3>4. Outstanding' = Outstanding
      BY <1>0, <2>3, <2>6, <2>8, <3>1, OutstandingIs, OutstandingIsNext
    <3>5. QED
      BY <1>0, <2>3, <2>6, <3>3, <3>4 DEF Admitted
  <2>9. QED
    BY <2>7, <2>8
<1>3. QED
  BY <1>1, <1>2, QueueKept

LEMMA Removed ==
  ASSUME TypeOK, BatchInv, PostInv, TypeOK', NEW h \in Handlers, Delivered(h)
  PROVE  BatchInv' /\ PostInv' /\ Admitted' = Admitted /\ queue'.next = queue.next
<1>1. UNCHANGED <<batches, posted, accepted, stored>>
  BY DEF Delivered, Settle, kaziquery
<1>2. CASE ~Current(h)
  <2>1. queue' = queue
    BY <1>2 DEF Delivered, Settle
  <2>2. QED
    BY <1>1, <2>1, QueueKept DEF OnlyFlag
<1>3. CASE Current(h)
  <2>1. queue' = Shortened(queue) /\ queue.inflight # NoBatch /\ queue.inflight.id \in accepted
    BY <1>3 DEF Delivered, Settle, Current
  <2>2. queue \in Queues /\ queue.inflight.count \in 1..Len(queue.pending)
    BY <2>1, Typed DEF BatchInv
  <2>3. queue'.pending = Rest(queue) /\ queue'.inflight = NoBatch /\ queue'.next = queue.next
    BY <2>1, <2>2, ShortenedFields DEF Rest
  <2>4. BatchInv'
    BY <2>3 DEF BatchInv
  <2>5. PostInv'
    BY <1>1, <2>1, <2>3 DEF PostInv
  <2>6. Outstanding' = Outstanding
    BY <2>1, <2>3, <2>4, OutstandingIs, OutstandingIsNext
  <2>7. QED
    BY <1>1, <2>3, <2>4, <2>5, <2>6 DEF Admitted
<1>4. QED
  BY <1>2, <1>3

LEMMA Ingested ==
  ASSUME TypeOK, BatchInv, PostInv, TypeOK', NEW p \in posted, Ingest(p)
  PROVE  /\ BatchInv' /\ PostInv' /\ Admitted' = Admitted /\ UNCHANGED queue
         /\ \E n \in Len(stored)..Len(Admitted) : stored' = SubSeq(Admitted, 1, n)
<1>1. /\ UNCHANGED <<queue, batches, posted>> /\ accepted' = accepted \cup {p.id}
      /\ stored' = IF p.id \in accepted THEN stored ELSE stored \o p.entries
  BY DEF Ingest
<1>2. queue \in Queues /\ stored \in Seq(Entries) /\ Len(stored) \in Nat
  BY Typed, LenProperties
<1>3. BatchInv'
  BY <1>1 DEF BatchInv
<1>4. PostInv'
  BY <1>1 DEF PostInv
<1>5. CASE p.id \in accepted
  <2>1. accepted' = accepted /\ stored' = stored
    BY <1>1, <1>5
  <2>2. Admitted' = Admitted
    BY <1>1, <2>1, QueueKept DEF OnlyFlag
  <2>3. stored = SubSeq(Admitted, 1, Len(stored)) /\ Len(stored) \in 0..Len(Admitted)
    BY <1>2, OutstandingIs, ConcatStarts DEF Admitted
  <2>4. Len(stored) \in Len(stored)..Len(Admitted)
    BY <1>2, <2>3
  <2>5. QED
    BY <1>1, <1>3, <1>4, <2>1, <2>2, <2>3, <2>4
<1>6. CASE p.id \notin accepted
  <2> DEFINE n == queue.inflight.count
             front == SubSeq(queue.pending, 1, n)
  <2>1. queue.inflight # NoBatch /\ p.id = queue.inflight.id /\ p.entries = front
    BY <1>6 DEF PostInv, Front
  <2>2. queue.pending \in Seq(Entries) /\ n \in 0..Len(queue.pending)
    BY <1>2, <2>1, QueueFields DEF BatchInv
  <2>3. front \in Seq(Entries) /\ Rest(queue) \in Seq(Entries) /\ front \o Rest(queue) = queue.pending
    BY <2>2, Cut DEF Rest
  <2>4. Outstanding = queue.pending
    BY <1>6, <2>1, OutstandingIs
  <2>5. Outstanding' = Rest(queue)
    BY <1>1, <1>3, <2>1, OutstandingIsNext
  <2>6. stored' = stored \o front
    BY <1>1, <1>6, <2>1
  <2> HIDE DEF front, n
  <2>7. (stored \o front) \o Rest(queue) = stored \o (front \o Rest(queue))
    <3>1. \A r \in Seq(Entries) : (stored \o front) \o r = stored \o (front \o r)
      BY <1>2, <2>3, ConcatAssociative
    <3>2. QED
      BY <2>3, <3>1
  <2>8. Admitted' = Admitted /\ Admitted = stored' \o Rest(queue)
    BY <2>3, <2>4, <2>5, <2>6, <2>7 DEF Admitted
  <2>9. stored' \in Seq(Entries) /\ Len(stored') = Len(stored) + Len(front) /\ Len(front) \in Nat
    BY <1>2, <2>3, <2>6, ConcatProperties, LenProperties
  <2>10. stored' = SubSeq(Admitted, 1, Len(stored')) /\ Len(stored') \in 0..Len(Admitted)
    BY <2>3, <2>8, <2>9, ConcatStarts
  <2>11. Len(stored') \in Len(stored)..Len(Admitted)
    BY <1>2, <2>9, <2>10
  <2>12. QED
    BY <1>1, <1>3, <1>4, <2>8, <2>10, <2>11
<1>7. QED
  BY <1>5, <1>6
-----------------------------------------------------------------------------
(* A step that admits nothing: KaziQuery may get more of what there is, and *)
(* a receipt is dropped only of a record that is too old to be taken again. *)
NothingNew ==
  /\ Admitted' = Admitted /\ queue'.next = queue.next
  /\ \/ stored' = stored
     \/ \E n \in Len(stored)..Len(Admitted) : stored' = SubSeq(Admitted, 1, n)
  /\ receipts' \subseteq receipts /\ receipts \subseteq receipts' \cup aged /\ aged \subseteq aged'
  /\ \A r \in Records : sent'[r] = "admitted" => sent[r] = "admitted" \/ r \in receipts'

(* A step that admits a record.                                            *)
Admits(r) ==
  /\ r \notin receipts \cup aged /\ receipts' = receipts \cup {r}
  /\ UNCHANGED <<aged, stored>>
  /\ [record |-> r, sequence |-> queue.next] \in Entries
  /\ Admitted' = Append(Admitted, [record |-> r, sequence |-> queue.next])
  /\ queue'.next = queue.next + 1
  /\ \A q \in Records : sent'[q] = "admitted" => sent[q] = "admitted" \/ q = r

LEMMA Moves ==
  ASSUME TypeOK, BatchInv, PostInv, [Next]_vars
  PROVE  /\ TypeOK' /\ BatchInv' /\ PostInv'
         /\ NothingNew \/ \E r \in Records : Admits(r)
<1>1. TypeOK' /\ sent \in [Records -> Outcomes] /\ queue \in Queues
  BY TypeStep, Typed
<1> DEFINE Invs == TypeOK' /\ BatchInv' /\ PostInv'
<1>2. ASSUME OnlyFlag, UNCHANGED <<batches, posted, accepted, stored>>
      PROVE  /\ Invs /\ Admitted' = Admitted /\ stored' = stored /\ queue'.next = queue.next
  BY <1>1, <1>2, QueueKept DEF OnlyFlag
<1>3. ASSUME OnlyFlag, UNCHANGED <<batches, posted, accepted, stored, receipts>>,
             aged \subseteq aged',
             \A r \in Records : sent'[r] = "admitted" => sent[r] = "admitted" \/ r \in receipts
      PROVE  Invs /\ NothingNew
  BY <1>2, <1>3 DEF NothingNew
<1> USE DEF kaziquery
<1>4. CASE UNCHANGED vars
  BY <1>3, <1>4 DEF vars, OnlyFlag
<1>5. ASSUME NEW d \in Environments, Deploy(d) PROVE Invs /\ NothingNew
  BY <1>3, <1>5 DEF Deploy, OnlyFlag
<1>6. ASSUME NEW i \in Invocations, NEW n \in 1..PerInvocation, Send(i, n)
      PROVE  Invs /\ NothingNew
  <2>1. \A r \in Records : sent'[r] = "admitted" => sent[r] = "admitted"
    BY <1>1, <1>6 DEF Send, Records
  <2>2. QED
    BY <1>3, <1>6, <2>1 DEF Send, OnlyFlag
<1>7. ASSUME NEW r \in Records, Unconfirmed(r) PROVE Invs /\ NothingNew
  <2>1. \A q \in Records : sent'[q] = "admitted" => sent[q] = "admitted"
    BY <1>1, <1>7 DEF Unconfirmed
  <2>2. QED
    BY <1>3, <1>7, <2>1 DEF Unconfirmed, OnlyFlag
<1>8. ASSUME NEW r \in Records, Age(r) PROVE Invs /\ NothingNew
  BY <1>3, <1>8 DEF Age, OnlyFlag
<1>9. ASSUME NEW r \in Records, Admit(r) PROVE Invs /\ (NothingNew \/ Admits(r))
  <2>1. UNCHANGED <<deployed, aged, batches, handler, posted, accepted, stored>>
    BY <1>9 DEF Admit
  <2>2. CASE Answer(r, "rejected") /\ UNCHANGED <<queue, receipts, alarm>>
    <3>1. \A q \in Records : sent'[q] = "admitted" => sent[q] = "admitted"
      BY <1>1, <2>2 DEF Answer
    <3>2. QED
      BY <1>3, <2>1, <2>2, <3>1 DEF OnlyFlag
  <2>3. CASE r \in receipts /\ Answer(r, "admitted") /\ UNCHANGED <<queue, receipts, alarm>>
    <3>1. \A q \in Records : sent'[q] = "admitted" => sent[q] = "admitted" \/ q = r
      BY <1>1, <2>3 DEF Answer
    <3>2. QED
      BY <1>3, <2>1, <2>3, <3>1 DEF OnlyFlag
  <2>4. CASE /\ ~Refused(r) /\ r \notin receipts
             /\ queue' = Enqueue(r) /\ receipts' = receipts \cup {r}
             /\ Answer(r, "admitted") \/ UNCHANGED sent
    <3>1. deployed # NoDestination /\ r \notin aged
      BY <2>4 DEF Refused
    <3>2. \A q \in Records : sent'[q] = "admitted" => sent[q] = "admitted" \/ q = r
      BY <1>1, <2>4 DEF Answer
    <3>3. QED
      BY <1>1, <2>1, <2>4, <3>1, <3>2, Enqueued DEF Admits
  <2>5. QED
    BY <1>9, <2>2, <2>3, <2>4 DEF Admit
<1>10. CASE Resume
  BY <1>1, <1>3, <1>10, FlagFields DEF Resume, OnlyFlag
<1>11. CASE RetryRevision
  BY <1>3, <1>11 DEF RetryRevision, OnlyFlag
<1>12. ASSUME NEW h \in Handlers, Alarm(h) PROVE Invs /\ NothingNew
  <2>1. receipts' \subseteq receipts /\ receipts \subseteq receipts' \cup aged
    BY <1>12 DEF Alarm
  <2>2. QED
    BY <1>2, <1>12, <2>1 DEF Alarm, OnlyFlag, NothingNew
<1>13. ASSUME NEW h \in Handlers, Compose(h) PROVE Invs /\ NothingNew
  <2>1. Invs /\ Admitted' = Admitted /\ queue'.next = queue.next
    BY <1>1, <1>13, Composed
  <2>2. UNCHANGED <<sent, receipts, aged, stored>>
    BY <1>13 DEF Compose
  <2>3. QED
    BY <2>1, <2>2 DEF NothingNew
<1>14. ASSUME NEW h \in Handlers, Delivered(h) PROVE Invs /\ NothingNew
  <2>1. Invs /\ Admitted' = Admitted /\ queue'.next = queue.next
    BY <1>1, <1>14, Removed
  <2>2. UNCHANGED <<sent, receipts, aged, stored>>
    BY <1>14 DEF Delivered, Settle
  <2>3. QED
    BY <2>1, <2>2 DEF NothingNew
<1>15. ASSUME NEW h \in Handlers, Blocked(h) \/ Failed(h) PROVE Invs /\ NothingNew
  <2>1. queue' \in {queue, [queue EXCEPT !.blocked = TRUE]}
    BY <1>15 DEF Blocked, Failed, Settle
  <2>2. OnlyFlag
    BY <1>1, <2>1, FlagFields DEF OnlyFlag
  <2>3. UNCHANGED <<sent, batches, posted, accepted, stored, receipts, aged>>
    BY <1>15 DEF Blocked, Failed, Settle
  <2>4. QED
    BY <1>3, <2>2, <2>3
<1>16. ASSUME NEW h \in Handlers, Killed(h) PROVE Invs /\ NothingNew
  BY <1>3, <1>16 DEF Killed, OnlyFlag
<1>17. ASSUME NEW p \in posted, Ingest(p) PROVE Invs /\ NothingNew
  <2>1. /\ Invs /\ Admitted' = Admitted /\ UNCHANGED queue
        /\ \E n \in Len(stored)..Len(Admitted) : stored' = SubSeq(Admitted, 1, n)
    BY <1>1, <1>17, Ingested
  <2>2. UNCHANGED <<sent, receipts, aged>>
    BY <1>17 DEF Ingest
  <2>3. QED
    BY <2>1, <2>2 DEF NothingNew
<1> DEFINE Goal == Invs /\ (NothingNew \/ \E r \in Records : Admits(r))
<1>18. Goal
  <2>1. CASE Sender
    BY <1>6, <1>7, <2>1 DEF Sender, Records
  <2>2. ASSUME NEW h \in Handlers, AlarmRun(h) PROVE Goal
    BY <1>12, <1>13, <1>14, <1>15, <1>16, <2>2 DEF AlarmRun
  <2>3. ASSUME NEW r \in Records, Age(r) \/ Admit(r) PROVE Goal
    BY <1>8, <1>9, <2>3
  <2>4. ASSUME NEW d \in Environments, Deploy(d) PROVE Goal
    BY <1>5, <2>4
  <2>5. ASSUME NEW p \in posted, Ingest(p) PROVE Goal
    BY <1>17, <2>5
  <2>6. CASE Resume \/ RetryRevision \/ UNCHANGED vars
    BY <1>4, <1>10, <1>11, <2>6
  <2> HIDE DEF Goal
  <2>7. QED
    BY <2>1, <2>2, <2>3, <2>4, <2>5, <2>6 DEF Next
<1>19. QED
  BY <1>18 DEF Invs

LEMMA ReceiptStep ==
  ASSUME IInv, NothingNew \/ \E r \in Records : Admits(r)
  PROVE  NumberInv' /\ ReceiptInv'
<1>1. Admitted \in Seq(Entries) /\ Len(Admitted) \in Nat /\ DOMAIN Admitted = 1..Len(Admitted)
  BY OutstandingIs, LenProperties DEF IInv
<1>2. CASE NothingNew
  <2>1. NumberInv'
    BY <1>2 DEF NothingNew, NumberInv, IInv
  <2>2. ReceiptInv'
    BY <1>2 DEF NothingNew, ReceiptInv, IInv
  <2>3. QED
    BY <2>1, <2>2
<1>3. ASSUME NEW r \in Records, Admits(r) PROVE NumberInv' /\ ReceiptInv'
  <2> DEFINE e == [record |-> r, sequence |-> queue.next]
  <2>1. e \in Entries /\ Admitted' = Append(Admitted, e) /\ e.record = r
    BY <1>3 DEF Admits
  <2> HIDE DEF e
  <2>2. /\ Len(Admitted') = Len(Admitted) + 1 /\ DOMAIN Admitted' = 1..Len(Admitted')
        /\ \A k \in 1..Len(Admitted) : Admitted'[k] = Admitted[k]
        /\ Admitted'[Len(Admitted) + 1] = e
    BY <1>1, <2>1, AppendProperties, LenProperties
  <2>3. NumberInv'
    BY <1>1, <1>3, <2>2 DEF Admits, NumberInv, IInv
  <2>4. \A k \in DOMAIN Admitted' : Admitted'[k].record \in receipts' \cup aged'
    BY <1>1, <1>3, <2>1, <2>2 DEF Admits, ReceiptInv, IInv
  <2>5. \A q : Holds(Admitted, q) \/ q = r => Holds(Admitted', q)
    BY <1>1, <2>1, <2>2 DEF Holds
  <2>6. QED
    BY <1>3, <2>3, <2>4, <2>5 DEF Admits, ReceiptInv, IInv
<1>4. QED
  BY <1>2, <1>3

LEMMA IInvStep == IInv /\ [Next]_vars => IInv'
BY Moves, ReceiptStep DEF IInv

LEMMA IInvInit == Init => IInv /\ Admitted = <<>> /\ stored = <<>>
<1> SUFFICES ASSUME Init PROVE IInv /\ Admitted = <<>> /\ stored = <<>>
  OBVIOUS
<1>1. TypeOK
  BY TypeInit
<1>2. /\ stored = <<>> /\ queue.pending = <<>> /\ queue.inflight = NoBatch /\ queue.next = 0
      /\ posted = {} /\ accepted = {} /\ receipts = {} /\ \A r \in Records : sent[r] = "unsent"
  BY DEF Init
<1>3. Outstanding = <<>>
  BY <1>2 DEF Outstanding
<1>4. Admitted = <<>>
  BY <1>2, <1>3, ConcatEmptySeq, EmptySeq DEF Admitted
<1>5. BatchInv /\ PostInv
  BY <1>2 DEF BatchInv, PostInv
<1>6. NumberInv
  BY <1>2, <1>4, EmptySeq DEF NumberInv
<1>7. DOMAIN Admitted = {}
  BY <1>4, EmptySeq, LenProperties
<1>8. ReceiptInv
  BY <1>2, <1>7 DEF ReceiptInv
<1>9. QED
  BY <1>1, <1>2, <1>4, <1>5, <1>6, <1>8 DEF IInv
-----------------------------------------------------------------------------
(* The handlers keep the types of what they store and post.                *)
THEOREM TypeCorrect == Spec => []TypeOK
<1>1. IInv => TypeOK
  BY DEF IInv
<1>2. QED
  BY <1>1, IInvInit, IInvStep, PTL DEF Spec

(* A record is in the queue or with KaziQuery once its sender was told 202, *)
(* whatever is lost, replayed, late or killed: a batch only leaves the      *)
(* queue when KaziQuery has accepted its key, and with exactly the records  *)
(* that were posted under it.                                               *)
THEOREM NoneIsDropped == Spec => []AdmittedIsKept
<1>1. IInv => AdmittedIsKept
  <2> SUFFICES ASSUME IInv, NEW r \in Records, sent[r] = "admitted"
               PROVE  Holds(stored \o queue.pending, r)
    BY DEF AdmittedIsKept
  <2>1. queue \in Queues /\ stored \in Seq(Entries)
    BY Typed DEF IInv
  <2>2. queue.pending \in Seq(Entries) /\ Outstanding \in Seq(Entries)
    BY <2>1, QueueFields, OutstandingIs DEF IInv
  <2>3. PICK k \in DOMAIN Admitted : Admitted[k].record = r
    BY DEF IInv, ReceiptInv, Holds
  <2>4. k \in 1..Len(Admitted)
    BY <2>3, OutstandingIs, LenProperties DEF IInv
  <2>5. CASE queue.inflight # NoBatch /\ queue.inflight.id \in accepted
    <3> DEFINE n == queue.inflight.count
               front == SubSeq(queue.pending, 1, n)
    <3>1. n \in 0..Len(queue.pending)
      BY <2>1, <2>2, <2>5, QueueFields DEF IInv, BatchInv
    <3>2. /\ front \in Seq(Entries) /\ Rest(queue) \in Seq(Entries)
          /\ front \o Rest(queue) = queue.pending
      BY <2>2, <3>1, Cut DEF Rest
    <3>3. Admitted = stored \o Rest(queue)
      BY <2>5, OutstandingIs DEF Admitted, IInv
    <3> HIDE DEF front, n
    <3>4. PICK f \in Seq(Entries), q \in Seq(Entries) : queue.pending = f \o q /\ Admitted = stored \o q
      BY <3>2, <3>3
    <3>5. /\ Len(Admitted) = Len(stored) + Len(q) /\ Len(queue.pending) = Len(f) + Len(q)
          /\ Len(stored \o queue.pending) = Len(stored) + Len(queue.pending)
          /\ stored \o queue.pending \in Seq(Entries)
          /\ Len(stored) \in Nat /\ Len(q) \in Nat /\ Len(f) \in Nat
      BY <2>1, <2>2, <3>4, ConcatProperties, LenProperties
    <3>6. CASE k <= Len(stored)
      <4>1. Admitted[k] = stored[k]
        BY <2>1, <2>4, <3>4, <3>5, <3>6, ConcatProperties
      <4>2. k \in 1..Len(stored) + Len(queue.pending)
        BY <2>4, <3>5, <3>6
      <4>3. (stored \o queue.pending)[k] = stored[k]
        BY <2>1, <2>2, <3>6, <4>2, ConcatProperties
      <4>4. QED
        BY <2>3, <3>5, <4>1, <4>2, <4>3, LenProperties DEF Holds
    <3>7. CASE k > Len(stored)
      <4>1. Admitted[k] = q[k - Len(stored)]
        BY <2>1, <2>4, <3>4, <3>5, <3>7, ConcatProperties
      <4>2. PICK j \in Nat : j = k - Len(stored) /\ j \in 1..Len(q)
        <5>1. k \in Nat /\ k <= Len(stored) + Len(q)
          BY <2>4, <3>5
        <5>2. k - Len(stored) \in Nat /\ k - Len(stored) \in 1..Len(q)
          BY <3>5, <3>7, <5>1
        <5>3. QED
          BY <5>2
      <4>3. Len(f) + j \in 1..Len(queue.pending) /\ ~(Len(f) + j <= Len(f)) /\ Len(f) + j - Len(f) = j
        BY <3>5, <4>2
      <4>4. queue.pending[Len(f) + j] = q[j]
        BY <3>4, <3>5, <4>3, ConcatProperties
      <4>5. PICK m \in Nat : m = Len(stored) + (Len(f) + j)
        BY <3>5, <4>2
      <4>6. /\ m \in 1..Len(stored) + Len(queue.pending) /\ ~(m <= Len(stored))
            /\ m - Len(stored) = Len(f) + j
        BY <3>5, <4>3, <4>5
      <4>7. (stored \o queue.pending)[m] = queue.pending[Len(f) + j]
        BY <2>1, <2>2, <4>6, ConcatProperties
      <4>8. QED
        BY <2>3, <3>5, <4>1, <4>2, <4>4, <4>6, <4>7, LenProperties DEF Holds
    <3>8. QED
      BY <2>4, <3>5, <3>6, <3>7
  <2>6. CASE ~(queue.inflight # NoBatch /\ queue.inflight.id \in accepted)
    <3>1. Admitted = stored \o queue.pending
      BY <2>6, OutstandingIs DEF Admitted, IInv
    <3>2. QED
      BY <2>3, <3>1 DEF Holds
  <2>7. QED
    BY <2>5, <2>6
<1>2. QED
  BY <1>1, IInvInit, IInvStep, PTL DEF Spec

(* The relay and KaziQuery keep one log: what KaziQuery stores is at all    *)
(* times a prefix of what was admitted, which is numbered without a gap and *)
(* holds no record twice, and no entry of either ever changes.              *)
THEOREM ImplementsLog == Spec => KeepsLog
<1>1. Init => Log!Init
  BY IInvInit DEF Log!Init, Admitted
<1>2. IInv /\ [Next]_vars => [Log!Next]_<<stored \o Outstanding, stored>>
  <2> SUFFICES ASSUME IInv, [Next]_vars
               PROVE  [Log!Next]_<<stored \o Outstanding, stored>>
    OBVIOUS
  <2>1. CASE NothingNew
    <3>1. CASE stored' = stored
      BY <2>1, <3>1 DEF NothingNew, Admitted
    <3>2. CASE \E n \in Len(stored)..Len(Admitted) : stored' = SubSeq(Admitted, 1, n)
      <4>1. Log!Deliver
        BY <2>1, <3>2 DEF NothingNew, Admitted, Log!Deliver
      <4>2. QED
        BY <4>1 DEF Log!Next
    <3>3. QED
      BY <2>1, <3>1, <3>2 DEF NothingNew
  <2>2. ASSUME NEW r \in Records, Admits(r) PROVE Log!Next
    <3>1. \A k \in DOMAIN Admitted : Admitted[k].record # r
      BY <2>2 DEF Admits, IInv, ReceiptInv
    <3>2. Admitted' = Append(Admitted, [record |-> r, sequence |-> Len(Admitted)])
      BY <2>2 DEF Admits, IInv, NumberInv
    <3>3. Log!Admit(r)
      BY <2>2, <3>1, <3>2 DEF Admits, Admitted, Log!Admit
    <3>4. QED
      BY <3>3 DEF Log!Next
  <2>3. QED
    BY <2>1, <2>2, Moves DEF IInv
<1>3. QED
  BY <1>1, <1>2, IInvInit, IInvStep, PTL DEF Spec, KeepsLog, Log!Spec
=============================================================================
