------------------------------ MODULE Producer ------------------------------
(***************************************************************************)
(* The asynchronous producer (internal/mq/producer.go) over the kafka-go   *)
(* writer.                                                                 *)
(*                                                                         *)
(*   closed       p.closed                                                 *)
(*   sending[s]   the order with which goroutine s is between Attempt.Add  *)
(*                and the end of WriteMessages, or None                    *)
(*   attempt, succ, fail   the counters                                    *)
(* The writer, as the code uses it (external):                             *)
(*   writer       "open", "closing" (Close is called) or "closed"          *)
(*   queue[p]     what it took for partition p and has not written         *)
(*   topic[p]     the records of partition p                               *)
(* History variables:                                                      *)
(*   taken        what the writer took, in this order                      *)
(*   refused      the calls WriteMessages returned an error for            *)
(*   lost         the orders of the batches that failed                    *)
(***************************************************************************)
EXTENDS OrderModel, SequencesExt

CONSTANTS
  Sender,      \* the goroutines that call SendOrder
  Order,       \* the orders they try to send
  Partition,
  Hash,        \* Hash[client]: the partition kafka.Hash picks
  BatchSize,   \* batch_size
  MaxCopies,   \* bound: how often a batch is appended, by the writer's retries
  MaxAttempts, \* bound: how many orders get as far as the writer
  None

ASSUME ProducerAssumption ==
  /\ Order \subseteq AnyOrder
  /\ Hash \in [{o.client : o \in Order} -> Partition]
  /\ BatchSize \in Nat \ {0} /\ MaxCopies \in Nat \ {0} /\ MaxAttempts \in Nat
  /\ None \notin Order
  /\ IsFiniteSet(Sender) /\ IsFiniteSet(Partition)

VARIABLES closed, sending, attempt, succ, fail,
          writer, queue, topic, taken, refused, lost

counters == <<attempt, succ, fail>>
kafka == <<writer, queue, topic>>
history == <<taken, refused, lost>>
vars == <<closed, sending, counters, kafka, history>>

(* What fits the columns of the table.                                     *)
GoodOrder ==
  [client : [1 .. ClientLen -> Digit], ex : {<<SH>>, <<SZ>>},
   stock : [1 .. StockLen -> Digit], act : {"cre", "del"}]

TypeOK ==
  /\ closed \in BOOLEAN
  /\ sending \in [Sender -> GoodOrder \cup {None}]
  /\ attempt \in 0 .. MaxAttempts
  /\ succ \in Nat /\ fail \in Nat
  /\ writer \in {"open", "closing", "closed"}
  /\ queue \in [Partition -> Seq(GoodOrder)]
  /\ topic \in [Partition -> Seq(GoodOrder)]
  /\ taken \in Seq(GoodOrder)
  /\ refused \in Nat
  /\ lost \subseteq GoodOrder

Init ==
  /\ closed = FALSE
  /\ sending = [s \in Sender |-> None]
  /\ attempt = 0 /\ succ = 0 /\ fail = 0
  /\ writer = "open"
  /\ queue = [p \in Partition |-> <<>>]
  /\ topic = [p \in Partition |-> <<>>]
  /\ taken = <<>> /\ refused = 0 /\ lost = {}

-----------------------------------------------------------------------------
(* SendOrder up to the call of WriteMessages.                              *)
SendOrder(s, o) ==
  /\ sending[s] = None
  /\ attempt < MaxAttempts
  /\ ~closed
  /\ Validate(o)
  /\ attempt' = attempt + 1
  /\ sending' = [sending EXCEPT ![s] = o]
  /\ UNCHANGED <<closed, succ, fail, kafka, history>>

(* It returns an error at once.                                            *)
Reject(s, o) ==
  /\ sending[s] = None
  /\ closed \/ ~Validate(o)
  /\ UNCHANGED vars

(* Mutant: the writer's default balancer, which spreads the records.       *)
WrittenAnywhere(s) ==
  \E p \in Partition :
    /\ sending[s] # None
    /\ writer = "open"
    /\ queue' = [queue EXCEPT ![p] = Append(@, sending[s])]
    /\ taken' = Append(taken, sending[s])
    /\ sending' = [sending EXCEPT ![s] = None]
    /\ UNCHANGED <<closed, counters, writer, topic, refused, lost>>

(* WriteMessages takes the record and returns nil: it is asynchronous.     *)
Written(s) ==
  /\ sending[s] # None
  /\ writer = "open"
  /\ queue' = [queue EXCEPT ![Hash[sending[s].client]] = Append(@, sending[s])]
  /\ taken' = Append(taken, sending[s])
  /\ sending' = [sending EXCEPT ![s] = None]
  /\ UNCHANGED <<closed, counters, writer, topic, refused, lost>>

(* The writer is closed, or knows no partition: SendOrder returns an error,*)
(* and no counter says so.                                                 *)
Refused(s) ==
  /\ sending[s] # None
  /\ refused' = refused + 1
  /\ sending' = [sending EXCEPT ![s] = None]
  /\ UNCHANGED <<closed, counters, kafka, taken, lost>>

(* The sequence s, so many times over.                                     *)
Repeated(s, copies) == [i \in 1 .. copies * Len(s) |-> s[((i - 1) % Len(s)) + 1]]

(* The writer ends a batch of partition p, the first n records of its      *)
(* queue, after it was appended to the partition so many times.            *)
EndBatch(p, n, copies) ==
  /\ queue' = [queue EXCEPT ![p] = SubSeq(@, n + 1, Len(@))]
  /\ topic' = [topic EXCEPT ![p] = @ \o Repeated(SubSeq(queue[p], 1, n), copies)]

BatchSizes(p) == 1 .. (IF Len(queue[p]) < BatchSize THEN Len(queue[p]) ELSE BatchSize)

(* Completion without an error.                                            *)
CompleteOk(p) ==
  \E n \in BatchSizes(p), copies \in 1 .. MaxCopies :
    /\ EndBatch(p, n, copies)
    /\ succ' = succ + n
    /\ UNCHANGED <<closed, sending, attempt, fail, writer, history>>

(* Mutant: a batch that fails is counted as one record.                    *)
CompleteFailOnce(p) ==
  \E n \in BatchSizes(p), copies \in 0 .. MaxCopies :
    /\ EndBatch(p, n, copies)
    /\ fail' = fail + 1
    /\ lost' = lost \cup ToSet(SubSeq(queue[p], 1, n))
    /\ UNCHANGED <<closed, sending, attempt, succ, writer, taken, refused>>

(* Completion with an error: the records are counted and dropped.  They    *)
(* may be in the partition all the same.                                   *)
CompleteFail(p) ==
  \E n \in BatchSizes(p), copies \in 0 .. MaxCopies :
    /\ EndBatch(p, n, copies)
    /\ fail' = fail + n
    /\ lost' = lost \cup ToSet(SubSeq(queue[p], 1, n))
    /\ UNCHANGED <<closed, sending, attempt, succ, writer, taken, refused>>

(* Close: the flag, then writer.Close, which waits for the queues.  A      *)
(* second call returns at once.                                            *)
Close ==
  /\ ~closed
  /\ closed' = TRUE
  /\ UNCHANGED <<sending, counters, kafka, history>>

CloseWriter ==
  /\ closed /\ writer = "open"
  /\ writer' = "closing"
  /\ UNCHANGED <<closed, sending, counters, queue, topic, history>>

WriterClosed ==
  /\ writer = "closing"
  /\ \A p \in Partition : queue[p] = <<>>
  /\ writer' = "closed"
  /\ UNCHANGED <<closed, sending, counters, queue, topic, history>>

Next ==
  \/ \E s \in Sender :
       \/ \E o \in Order : SendOrder(s, o) \/ Reject(s, o)
       \/ Written(s) \/ Refused(s)
  \/ \E p \in Partition : CompleteOk(p) \/ CompleteFail(p)
  \/ Close \/ CloseWriter \/ WriterClosed

Spec == Init /\ [][Next]_vars

-----------------------------------------------------------------------------
(* Properties.                                                             *)

(* The senders on their way, and the records that wait, by their place.    *)
Busy == {s \in Sender : sending[s] # None}
Waiting == UNION {{p} \X DOMAIN queue[p] : p \in Partition}

(* Every attempt is counted once, or is on its way, or was refused by the  *)
(* writer: the numbers qsim reports add up, up to the refused ones.        *)
CountersAddUp ==
  attempt = succ + fail + refused + Cardinality(Waiting) + Cardinality(Busy)

(* A sequence of orders says something about the instrument of order o;    *)
(* the last that it says is the action of o.                               *)
Mentions(o, os) == \E q \in ToSet(os) : SameInstrument(o, q)

EndsWith(o, os) ==
  \E n \in DOMAIN os :
    /\ SameInstrument(o, os[n]) /\ os[n].act = o.act
    /\ \A j \in DOMAIN os : SameInstrument(o, os[j]) => j <= n

(* However the records were batched, retried and repeated: when nothing of *)
(* an instrument waits and none of its batches failed, then the partition  *)
(* of its client ends with the action taken last, and no other partition   *)
(* says anything about it.                                                 *)
TopicTellsLastAction ==
  \A o \in ToSet(taken), p \in Partition :
    /\ EndsWith(o, taken)
    /\ \A q \in lost : ~SameInstrument(o, q)
    /\ \A r \in Partition : ~Mentions(o, queue[r])
    => IF p = Hash[o.client] THEN EndsWith(o, topic[p]) ELSE ~Mentions(o, topic[p])

(* The consumer's key tells the instruments of any two records apart, and  *)
(* no others: nothing that got past Validate is cut off or filled up.      *)
KeysTellOrdersApart ==
  \A o, q \in UNION {ToSet(topic[p]) : p \in Partition} :
    BuildOrderKey(o) = BuildOrderKey(q) <=> SameInstrument(o, q)

-----------------------------------------------------------------------------
(* The inductive invariant behind TopicTellsLastAction.                    *)

(* Only the orders that are sent get anywhere.                             *)
FromSenders ==
  /\ \A s \in Sender : sending[s] \in Order \cup {None}
  /\ ToSet(taken) \subseteq Order

(* What waits follows what is written.                                     *)
Line(p) == topic[p] \o queue[p]

LineInv ==
  /\ \A p \in Partition : \A q \in ToSet(Line(p)) : Hash[q.client] = p
  /\ \A o \in ToSet(taken) :
       EndsWith(o, taken) /\ (\A q \in lost : ~SameInstrument(o, q))
         => EndsWith(o, Line(Hash[o.client]))

ProducerInv == TypeOK /\ FromSenders /\ LineInv /\ CountersAddUp

=============================================================================
