----------------------------- MODULE ExportRelay -----------------------------
(* The relay of log records to KaziQuery (observability/kaziquery_relay.ts *)
(* and kaziquery_export.ts). An invocation of the website sends each       *)
(* record once and waits two seconds for the relay, a durable object,      *)
(* which admits it in one transaction with a receipt. The relay's alarm    *)
(* posts a prefix of the queue to KaziQuery; the prefix and its            *)
(* idempotency key stay as they are until KaziQuery has accepted them.     *)
(*                                                                         *)
(* The answer of the relay may be lost and its request be carried out      *)
(* twice; a post may be answered too late, or not at all, and arrive       *)
(* afterwards; a run of the alarm may be killed at any await, and its      *)
(* successor start while it is still at work. Delays, and the count of     *)
(* failures that only sets them, are left out: an alarm that is set fires  *)
(* some time.                                                              *)
EXTENDS Naturals, Sequences, FiniteSets

CONSTANTS
  Invocations,    \* of the website, each with its sender
  PerInvocation,  \* how many records one may want to send
  RecordLimit,    \* MAX_RECORDS of an invocation
  ActiveLimit,    \* MAX_ACTIVE of an invocation
  Aging,          \* records whose receipts may expire
  Oversized,      \* records that are too large once they are numbered
  Destinations,   \* that KaziQuery's part of the environment may name
  Environments,   \* what it names in one release or another, if anything
  MaxPending,     \* MAX_PENDING
  FlushRecords,   \* FLUSH_RECORDS
  BatchRecords,   \* BATCH_RECORDS
  Handlers,       \* runs of the alarm that may overlap
  NoDestination, NoBatch

Records == Invocations \X (1..PerInvocation)
Entries == [record: Records, sequence: Nat]
Batches == [id: Nat \ {0}, count: Nat \ {0}]

ASSUME RelayAssumption ==
  /\ {PerInvocation, RecordLimit, ActiveLimit, MaxPending, FlushRecords} \subseteq Nat
  /\ BatchRecords \in Nat \ {0}
  /\ Aging \subseteq Records /\ Oversized \subseteq Records
  /\ NoDestination \notin Destinations /\ NoBatch \notin Batches
  /\ Environments \subseteq Destinations \cup {NoDestination}

VARIABLES
  sent,      \* what a sender knows of each record
  deployed,  \* the destination the environment names
  queue,     \* the relay's "queue"
  receipts,  \* records it holds a receipt of
  aged,      \* records that were sent more than a day ago
  alarm,     \* an alarm is set
  batches,   \* idempotency keys it has drawn
  handler,   \* what each run of the alarm is at
  posted,    \* posts, each of which may arrive at any time and again
  accepted,  \* idempotency keys KaziQuery has accepted
  stored     \* what it has stored

vars == <<sent, deployed, queue, receipts, aged, alarm, batches, handler, posted, accepted, stored>>
kaziquery == <<accepted, stored>>

Idle == [at |-> "idle", batch |-> NoBatch]
-----------------------------------------------------------------------------
Init ==
  /\ sent = [r \in Records |-> "unsent"]
  /\ deployed \in Environments
  /\ queue = [destination |-> NoDestination, next |-> 0, pending |-> <<>>, blocked |-> FALSE,
              inflight |-> NoBatch]
  /\ receipts = {} /\ aged = {}
  /\ alarm = FALSE
  /\ batches = 0
  /\ handler = [h \in Handlers |-> Idle]
  /\ posted = {} /\ accepted = {} /\ stored = <<>>

(* A release changes the environment.                                      *)
Deploy(d) ==
  /\ deployed' = d
  /\ UNCHANGED <<sent, queue, receipts, aged, alarm, batches, handler, posted, kaziquery>>

(* A day goes by.                                                          *)
Age(r) ==
  /\ r \in Aging /\ sent[r] # "unsent" /\ aged' = aged \cup {r}
  /\ UNCHANGED <<sent, deployed, queue, receipts, alarm, batches, handler, posted, kaziquery>>
-----------------------------------------------------------------------------
(* The sender, one per invocation.                                         *)
Sends(i, states) == Cardinality({n \in 1..PerInvocation : sent[<<i, n>>] \in states})

Send(i, n) ==
  /\ sent[<<i, n>>] = "unsent"
  /\ \A m \in 1..(n - 1) : sent[<<i, m>>] # "unsent"
  /\ sent' = [sent EXCEPT ![<<i, n>>] =
       IF n > RecordLimit \/ Sends(i, {"waiting"}) >= ActiveLimit THEN "dropped" ELSE "waiting"]
  /\ UNCHANGED <<deployed, queue, receipts, aged, alarm, batches, handler, posted, kaziquery>>

(* The two seconds are over, or the answer is lost.                        *)
Unconfirmed(r) ==
  /\ sent[r] = "waiting" /\ sent' = [sent EXCEPT ![r] = "unconfirmed"]
  /\ UNCHANGED <<deployed, queue, receipts, aged, alarm, batches, handler, posted, kaziquery>>

Answer(r, outcome) ==
  sent' = [sent EXCEPT ![r] = IF @ = "waiting" THEN outcome ELSE @]
-----------------------------------------------------------------------------
(* fetch(): a record whose receipt is held is answered without being       *)
(* looked at; the queue is made by the first record and keeps its          *)
(* destination.                                                            *)
Refused(r) ==
  \/ deployed = NoDestination
  \/ r \in aged
  \/ /\ r \notin receipts
     /\ \/ queue.destination \notin {deployed, NoDestination}
        \/ queue.blocked
        \/ Len(queue.pending) >= MaxPending
        \/ r \in Oversized

Enqueue(r) ==
  [queue EXCEPT !.destination = deployed, !.next = @ + 1,
                !.pending = Append(@, [record |-> r, sequence |-> queue.next])]

Armed(q) == Len(q.pending) = 1 \/ (Len(q.pending) >= FlushRecords /\ q.inflight = NoBatch)

Admit(r) ==
  /\ sent[r] \in {"waiting", "unconfirmed"}
  /\ \/ Refused(r) /\ Answer(r, "rejected") /\ UNCHANGED <<queue, receipts, alarm>>
     \/ ~Refused(r) /\ r \in receipts /\ Answer(r, "admitted") /\ UNCHANGED <<queue, receipts, alarm>>
     \/ /\ ~Refused(r) /\ r \notin receipts
        /\ queue' = Enqueue(r)
        /\ receipts' = receipts \cup {r}
        /\ alarm' = (alarm \/ Armed(Enqueue(r)))
        /\ Answer(r, "admitted") \/ UNCHANGED sent
  /\ UNCHANGED <<deployed, aged, batches, handler, posted, kaziquery>>

(* POST /resume, by an operator.                                           *)
Resume ==
  /\ deployed # NoDestination /\ queue.destination # NoDestination
  /\ queue' = [queue EXCEPT !.blocked = FALSE]
  /\ alarm' = TRUE
  /\ UNCHANGED <<sent, deployed, receipts, aged, batches, handler, posted, kaziquery>>

(* A new KAZIQUERY_RETRY_REVISION is met by a request.                     *)
RetryRevision ==
  /\ deployed # NoDestination /\ queue.pending # <<>> /\ ~queue.blocked
  /\ alarm' = TRUE
  /\ UNCHANGED <<sent, deployed, queue, receipts, aged, batches, handler, posted, kaziquery>>
-----------------------------------------------------------------------------
(* alarm(): arm the next one, drop receipts of a day ago, and see whether  *)
(* there is something to deliver.                                          *)
Deliverable == queue.pending # <<>> /\ ~queue.blocked /\ queue.destination = deployed

Woken(h) == handler' = [handler EXCEPT ![h].at = IF Deliverable THEN "compose" ELSE "idle"]

(* Slip: the next alarm is left to the end of the run.                     *)
AlarmAtTheEnd(h) ==
  /\ alarm /\ handler[h] = Idle
  /\ alarm' = ~Deliverable
  /\ \E gone \in {{}, receipts \cap aged} : receipts' = receipts \ gone
  /\ Woken(h)
  /\ UNCHANGED <<sent, deployed, queue, aged, batches, posted, kaziquery>>

Alarm(h) ==
  /\ alarm /\ handler[h] = Idle
  /\ alarm' = TRUE
  /\ \E gone \in {{}, receipts \cap aged} : receipts' = receipts \ gone
  /\ Woken(h)
  /\ UNCHANGED <<sent, deployed, queue, aged, batches, posted, kaziquery>>

(* The records of a batch, bounded by KaziQuery's limits.                  *)
Front(q, n) == SubSeq(q.pending, 1, n)

(* Slip: each attempt draws a key of its own.                              *)
NewBatch ==
  [id |-> batches + 1,
   count |-> IF Len(queue.pending) <= BatchRecords THEN Len(queue.pending) ELSE BatchRecords]

Batch ==
  IF queue.inflight # NoBatch THEN queue.inflight
  ELSE [id |-> batches + 1,
        count |-> IF Len(queue.pending) <= BatchRecords THEN Len(queue.pending) ELSE BatchRecords]

Compose(h) ==
  /\ handler[h].at = "compose"
  /\ IF queue.pending = <<>>
     THEN handler' = [handler EXCEPT ![h] = Idle] /\ UNCHANGED <<queue, batches, posted>>
     ELSE /\ queue' = [queue EXCEPT !.inflight = Batch]
          /\ batches' = IF Batch.id > batches THEN Batch.id ELSE batches
          /\ handler' = [handler EXCEPT ![h] = [at |-> "posting", batch |-> Batch]]
          /\ posted' = posted \cup {[id |-> Batch.id, entries |-> Front(queue, Batch.count)]}
  /\ UNCHANGED <<sent, deployed, receipts, aged, alarm, kaziquery>>

(* What the answer changes, unless another run has seen to the batch.      *)
Current(h) == queue.inflight # NoBatch /\ queue.inflight.id = handler[h].batch.id

(* Slip: what was admitted meanwhile goes too.                             *)
Emptied(q) == [q EXCEPT !.pending = <<>>, !.inflight = NoBatch]

Shortened(q) ==
  [q EXCEPT !.pending = SubSeq(@, q.inflight.count + 1, Len(@)), !.inflight = NoBatch]

Settle(h, q) ==
  /\ handler[h].at = "posting" /\ handler' = [handler EXCEPT ![h] = Idle]
  /\ \/ Current(h) /\ queue' = q /\ alarm' = TRUE
     \/ ~Current(h) /\ UNCHANGED <<queue, alarm>>
  /\ UNCHANGED <<sent, deployed, receipts, aged, batches, posted, kaziquery>>

(* 202; another 4xx than 408 and 429, or a redirect; anything else, or no  *)
(* answer in ten seconds.                                                  *)
Delivered(h) == handler[h].batch # NoBatch /\ handler[h].batch.id \in accepted /\ Settle(h, Shortened(queue))
Blocked(h) == Settle(h, [queue EXCEPT !.blocked = TRUE])
Failed(h) == Settle(h, queue)

Killed(h) ==
  /\ handler[h] # Idle /\ handler' = [handler EXCEPT ![h] = Idle]
  /\ UNCHANGED <<sent, deployed, queue, receipts, aged, alarm, batches, posted, kaziquery>>
-----------------------------------------------------------------------------
(* KaziQuery: a post whose key is known changes nothing.                   *)
Ingest(p) ==
  /\ accepted' = accepted \cup {p.id}
  /\ stored' = IF p.id \in accepted THEN stored ELSE stored \o p.entries
  /\ UNCHANGED <<sent, deployed, queue, receipts, aged, alarm, batches, handler, posted>>

Sender == \E i \in Invocations, n \in 1..PerInvocation : Send(i, n) \/ Unconfirmed(<<i, n>>)

AlarmRun(h) == Alarm(h) \/ Compose(h) \/ Delivered(h) \/ Blocked(h) \/ Failed(h) \/ Killed(h)

Next ==
  \/ \E d \in Environments : Deploy(d)
  \/ Sender
  \/ \E r \in Records : Age(r) \/ Admit(r)
  \/ Resume \/ RetryRevision
  \/ \E h \in Handlers : AlarmRun(h)
  \/ \E p \in posted : Ingest(p)

Spec == Init /\ [][Next]_vars

(* An alarm that is set fires; not every run is killed before it posts; a  *)
(* post reaches KaziQuery in one of the attempts, and its 202 the relay.   *)
Fairness ==
  /\ WF_vars(\E h \in Handlers : Alarm(h))
  /\ \A h \in Handlers : WF_vars(Compose(h)) /\ WF_vars(Failed(h) \/ Delivered(h))
  /\ SF_vars(\E h \in Handlers : Compose(h))
  /\ WF_vars(\E p \in posted : Ingest(p))
  /\ SF_vars(\E h \in Handlers : Delivered(h))

FairSpec == Spec /\ Fairness
-----------------------------------------------------------------------------
TypeOK ==
  /\ sent \in [Records -> {"unsent", "dropped", "waiting", "unconfirmed", "admitted", "rejected"}]
  /\ deployed \in Environments
  /\ queue \in [destination: Destinations \cup {NoDestination}, next: Nat, pending: Seq(Entries),
                blocked: BOOLEAN, inflight: Batches \cup {NoBatch}]
  /\ receipts \subseteq Records /\ aged \subseteq Records
  /\ alarm \in BOOLEAN /\ batches \in Nat
  /\ handler \in [Handlers -> [at: {"idle", "compose", "posting"}, batch: Batches \cup {NoBatch}]]
  /\ posted \subseteq [id: Nat \ {0}, entries: Seq(Entries)]
  /\ accepted \subseteq Nat /\ stored \in Seq(Entries)

(* Of the queue, what KaziQuery has not stored yet: a batch whose 202 was  *)
(* lost is in both.                                                        *)
Outstanding ==
  IF queue.inflight # NoBatch /\ queue.inflight.id \in accepted
  THEN Shortened(queue).pending ELSE queue.pending

Log == INSTANCE ExportLog WITH log <- stored \o Outstanding

(* "Queue, sequence and admission receipt commit together" (fetch()), and  *)
(* "every retry is an exact replay of the same sequence range; a lost 202  *)
(* can therefore only ever look like a duplicate" (alarm()): KaziQuery     *)
(* stores every admitted record once, in the order of its number, without  *)
(* a gap, whatever is lost, killed, late or overlaps.                      *)
KeepsLog == Log!Spec

Holds(entries, r) == \E k \in DOMAIN entries : entries[k].record = r

(* A record whose sender was told 202 is in the queue or with KaziQuery    *)
(* ("source_durable", fetch()): none is dropped by a batch that grows, is  *)
(* replayed, or is accepted while further records are admitted.            *)
AdmittedIsKept == \A r \in Records : sent[r] = "admitted" => Holds(stored \o queue.pending, r)

(* "A killed invocation cannot strand pending data" (alarm()): unless the  *)
(* relay stays blocked or misconfigured, an admitted record reaches        *)
(* KaziQuery.                                                              *)
RecordsArrive ==
  <>[](~queue.blocked /\ queue.destination = deployed) =>
    \A r \in Records : Holds(queue.pending, r) ~> Holds(stored, r)
=============================================================================
