---------------------------- MODULE ProducerSync ----------------------------
(***************************************************************************)
(* The synchronous producer (internal/mq/backup/producer_sync.go): a pool  *)
(* of workers takes messages from a channel and writes each of them to     *)
(* Kafka, up to three times.                                               *)
(*                                                                         *)
(*   cfg          config.GlobalConfig                                      *)
(*   closing      Close: "no" (not called), "flag" (closed is set),        *)
(*                "chan" (taskChan is closed), "done" (it has returned)    *)
(*   taskChan     the messages in the channel                              *)
(*   offering[s]  the message sender s tries to put there, or None         *)
(*   holding[w]   the message worker w writes, or None                     *)
(*   tries[w]     how often that failed so far                             *)
(*   gone[w]      worker w has returned                                    *)
(*   attempt, succ, fail   the counters                                    *)
(*   panicked     a goroutine without recover has panicked: the process is *)
(*                gone                                                     *)
(*   topic        the messages in the partition of a client (external)     *)
(* A message is the number of its attempt and an order.  History:          *)
(*   accepted     the messages SendOrder returned nil for, in this order   *)
(*   together     the pairs of messages two workers held at the same time  *)
(***************************************************************************)
EXTENDS OrderModel, Config, SequencesExt

CONSTANTS
  Sender,       \* the goroutines that call SendOrder
  Pool,         \* 1 .. N: the workers there can be
  Order,        \* the orders they try to send
  Files, Envs,  \* the configurations to begin with
  MaxTries,     \* 3
  MaxAttempts,  \* bound: how many orders are sent
  None

ASSUME ProducerSyncAssumption ==
  /\ Order \subseteq AnyOrder
  /\ \A f \in Files : DOMAIN f \subseteq Key /\ \A k \in DOMAIN f : f[k] \in Int
  /\ Envs \subseteq [EnvKey -> Int \cup {Unset, Bad}]
  /\ Pool \subseteq Nat /\ IsFiniteSet(Pool) /\ IsFiniteSet(Sender)
  /\ MaxTries \in Nat \ {0} /\ MaxAttempts \in Nat
  /\ None \notin (1 .. MaxAttempts) \X Order

VARIABLES cfg, closing, taskChan, offering, holding, tries, gone,
          attempt, succ, fail, panicked, topic, accepted, together

counters == <<attempt, succ, fail>>
pool == <<holding, tries, gone>>
vars == <<cfg, closing, taskChan, offering, pool, counters, panicked, topic, accepted, together>>

Worker == {w \in Pool : w <= cfg["worker_num"]}
Message == (1 .. MaxAttempts) \X {o \in Order : Validate(o)}
Held == {holding[w] : w \in Pool} \ {None}

TypeOK ==
  /\ cfg \in [Key -> Int]
  /\ closing \in {"no", "flag", "chan", "done"}
  /\ taskChan \in Seq(Message)
  /\ Len(taskChan) <= cfg["max_queue_size"] \/ taskChan = <<>>
  /\ offering \in [Sender -> Message \cup {None}]
  /\ holding \in [Pool -> Message \cup {None}]
  /\ tries \in [Pool -> 0 .. MaxTries - 1]
  /\ gone \in [Pool -> BOOLEAN]
  /\ attempt \in 0 .. MaxAttempts /\ succ \in Nat /\ fail \in Nat
  /\ panicked \in BOOLEAN
  /\ topic \in Seq(Message) /\ accepted \in Seq(Message)

(* New: a negative max_queue_size panics, a negative worker_num is as good *)
(* as 0.                                                                   *)
Init ==
  /\ cfg \in {LoadConfig(f, e) : f \in Files, e \in Envs}
  /\ closing = "no"
  /\ taskChan = <<>>
  /\ offering = [s \in Sender |-> None]
  /\ holding = [w \in Pool |-> None]
  /\ tries = [w \in Pool |-> 0]
  /\ gone = [w \in Pool |-> FALSE]
  /\ attempt = 0 /\ succ = 0 /\ fail = 0
  /\ panicked = (cfg["max_queue_size"] < 0)
  /\ topic = <<>> /\ accepted = <<>> /\ together = {}

-----------------------------------------------------------------------------
(* SendOrder.                                                              *)

(* Up to the select: closed is read once, before.                          *)
SendOrder(s, o) ==
  /\ offering[s] = None
  /\ attempt < MaxAttempts
  /\ closing = "no"
  /\ Validate(o)
  /\ attempt' = attempt + 1
  /\ offering' = [offering EXCEPT ![s] = <<attempt', o>>]
  /\ UNCHANGED <<cfg, closing, taskChan, pool, succ, fail, panicked, topic, accepted, together>>

Reject(s, o) ==
  /\ offering[s] = None
  /\ closing # "no" \/ ~Validate(o)
  /\ UNCHANGED vars

Accept(s) ==
  /\ closing \in {"no", "flag"}
  /\ offering[s] # None
  /\ accepted' = Append(accepted, offering[s])
  /\ offering' = [offering EXCEPT ![s] = None]
  /\ UNCHANGED <<cfg, closing, counters, panicked, topic>>

(* There is room in the channel.                                           *)
Enqueue(s) ==
  /\ Accept(s)
  /\ Len(taskChan) < cfg["max_queue_size"]
  /\ taskChan' = Append(taskChan, offering[s])
  /\ UNCHANGED <<pool, together>>

(* ctx is done, or the timer fires.                                        *)
GiveUp(s) ==
  /\ offering[s] # None
  /\ fail' = fail + 1
  /\ offering' = [offering EXCEPT ![s] = None]
  /\ UNCHANGED <<cfg, closing, taskChan, pool, attempt, succ, panicked, topic, accepted, together>>

(* The channel was closed meanwhile: the send panics.                      *)
SendPanics(s) ==
  /\ offering[s] # None
  /\ closing \in {"chan", "done"}
  /\ panicked' = TRUE
  /\ UNCHANGED <<cfg, closing, taskChan, offering, pool, counters, topic, accepted, together>>

-----------------------------------------------------------------------------
(* runWorker.                                                              *)

Hold(w, m) ==
  /\ w \in Worker /\ ~gone[w]
  /\ holding[w] = None
  /\ holding' = [holding EXCEPT ![w] = m]
  /\ tries' = [tries EXCEPT ![w] = 0]
  /\ together' = together \cup {{m, n} : n \in Held}
  /\ UNCHANGED gone

Take(w) ==
  /\ taskChan # <<>>
  /\ Hold(w, Head(taskChan))
  /\ taskChan' = Tail(taskChan)
  /\ UNCHANGED <<cfg, closing, offering, counters, panicked, topic, accepted>>

(* A channel without capacity: the worker takes it from the sender.        *)
HandOver(s, w) ==
  /\ Accept(s)
  /\ cfg["max_queue_size"] = 0
  /\ Hold(w, offering[s])
  /\ UNCHANGED taskChan

(* WriteMessages returns nil.  What the writer may repeat inside the call  *)
(* is left out: the message is appended once.                              *)
WriteOk(w) ==
  /\ holding[w] # None
  /\ topic' = Append(topic, holding[w])
  /\ succ' = succ + 1
  /\ holding' = [holding EXCEPT ![w] = None]
  /\ UNCHANGED <<cfg, closing, taskChan, offering, tries, gone, attempt, fail, panicked, accepted, together>>

(* WriteMessages reports an error; the message may be in the topic.        *)
Failed(w) ==
  /\ holding[w] # None
  /\ topic' \in {topic, Append(topic, holding[w])}
  /\ UNCHANGED <<cfg, closing, offering, gone, attempt, succ, panicked, accepted, together>>

(* Mutants: a try too many; the message goes back to the channel for its   *)
(* next try.                                                               *)
RetryOnceMore(w) ==
  /\ Failed(w)
  /\ tries[w] < MaxTries
  /\ tries' = [tries EXCEPT ![w] = @ + 1]
  /\ UNCHANGED <<taskChan, holding, fail>>

RetryRequeued(w) ==
  /\ Failed(w)
  /\ tries[w] + 1 < MaxTries
  /\ Len(taskChan) < cfg["max_queue_size"]
  /\ tries' = [tries EXCEPT ![w] = @ + 1]
  /\ holding' = [holding EXCEPT ![w] = None]
  /\ taskChan' = Append(taskChan, holding[w])
  /\ UNCHANGED fail

Retry(w) ==
  /\ Failed(w)
  /\ tries[w] + 1 < MaxTries
  /\ tries' = [tries EXCEPT ![w] = @ + 1]
  /\ UNCHANGED <<taskChan, holding, fail>>

(* Mutant: nobody counts what could not be written.                        *)
DropUncounted(w) ==
  /\ Failed(w)
  /\ tries[w] + 1 = MaxTries
  /\ holding' = [holding EXCEPT ![w] = None]
  /\ UNCHANGED <<taskChan, tries, fail>>

Drop(w) ==
  /\ Failed(w)
  /\ tries[w] + 1 = MaxTries
  /\ fail' = fail + 1
  /\ holding' = [holding EXCEPT ![w] = None]
  /\ UNCHANGED <<taskChan, tries>>

(* Mutants: a closed channel ends the worker at once; the worker looks at  *)
(* the channel only while it is open.                                      *)
ExitEarly(w) ==
  /\ w \in Worker /\ ~gone[w] /\ holding[w] = None
  /\ closing \in {"chan", "done"}
  /\ gone' = [gone EXCEPT ![w] = TRUE]
  /\ UNCHANGED <<cfg, closing, taskChan, offering, holding, tries, counters, panicked, topic, accepted, together>>

ExitNever(w) == FALSE /\ UNCHANGED vars

(* The channel is closed and empty.  (p.ctx is cancelled later.)           *)
Exit(w) ==
  /\ w \in Worker /\ ~gone[w] /\ holding[w] = None
  /\ closing \in {"chan", "done"} /\ taskChan = <<>>
  /\ gone' = [gone EXCEPT ![w] = TRUE]
  /\ UNCHANGED <<cfg, closing, taskChan, offering, holding, tries, counters, panicked, topic, accepted, together>>

-----------------------------------------------------------------------------
(* Close; a second call returns at once.                                   *)
SetClosed == closing = "no" /\ closing' = "flag"
CloseChan == closing = "flag" /\ closing' = "chan"
(* wg.Wait returns; the context is cancelled and the writer closed.        *)
WaitDone == closing = "chan" /\ (\A w \in Worker : gone[w]) /\ closing' = "done"

Close ==
  /\ SetClosed \/ CloseChan \/ WaitDone
  /\ UNCHANGED <<cfg, taskChan, offering, pool, counters, panicked, topic, accepted, together>>

SenderStep(s) ==
  \/ \E o \in Order : SendOrder(s, o) \/ Reject(s, o)
  \/ Enqueue(s) \/ GiveUp(s) \/ SendPanics(s)

WorkerStep(w) ==
  \/ Take(w) \/ WriteOk(w) \/ Retry(w) \/ Drop(w) \/ Exit(w)
  \/ \E s \in Sender : HandOver(s, w)

Next ==
  /\ ~panicked
  /\ \/ \E s \in Sender : SenderStep(s)
     \/ \E w \in Pool : WorkerStep(w)
     \/ Close

Spec == Init /\ [][Next]_vars

(* Go schedules the goroutines; the timer of SendOrder fires, and writes   *)
(* end, by their timeouts; Close goes on once it has begun.                *)
FairSpec ==
  /\ Spec
  /\ \A s \in Sender : WF_vars(~panicked /\ GiveUp(s))
  /\ \A w \in Pool : WF_vars(~panicked /\ WorkerStep(w))
  /\ WF_vars(~panicked /\ closing # "no" /\ Close)

-----------------------------------------------------------------------------
(* Properties.                                                             *)

(* Every attempt is counted once, or is on its way: when SendOrder races   *)
(* Close, when writes fail, and at the moment of a panic.                  *)
CountersAddUp ==
  attempt = succ + fail + Len(taskChan)
            + Cardinality({w \in Pool : holding[w] # None})
            + Cardinality({s \in Sender : offering[s] # None})

(* When Close has returned, every message that SendOrder accepted was      *)
(* written or counted as failed, also those accepted after closed was set; *)
(* unless there are no workers.                                            *)
CloseDrains ==
  closing = "done" /\ Worker # {} => taskChan = <<>> /\ Held = {}

Precedes(m, n, seq) == \E i, j \in DOMAIN seq : i < j /\ seq[i] = m /\ seq[j] = n

(* The pool may write the messages of one client in another order than it  *)
(* accepted them, but only such as two workers held at the same time; with *)
(* one worker the topic tells the actions in the order of SendOrder.       *)
ReorderedOnlyTogether ==
  \A m, n \in ToSet(accepted) :
    Precedes(m, n, accepted) /\ Precedes(n, m, topic) => {m, n} \in together

(* The messages accepted so far are in the channel, in this order, or have *)
(* left it.                                                                *)
Left == Len(accepted) - Len(taskChan)

(* Numbers tell messages apart.                                            *)
NumbersInv ==
  /\ \A n \in DOMAIN accepted : accepted[n][1] <= attempt
  /\ \A i, j \in DOMAIN accepted : accepted[i] = accepted[j] => i = j
  /\ \A s \in Sender : offering[s] # None =>
       /\ offering[s][1] <= attempt
       /\ \A n \in DOMAIN accepted : accepted[n] # offering[s]
       /\ \A t \in Sender : offering[t] = offering[s] => t = s

(* The channel is a queue, and what has left it was held together with     *)
(* what was held when it left.                                             *)
QueueInv ==
  /\ Len(taskChan) <= Len(accepted)
  /\ \A i \in DOMAIN taskChan : taskChan[i] = accepted[Left + i]
  /\ \A m \in Held \cup ToSet(topic) : \E n \in 1 .. Left : accepted[n] = m
  /\ \A i, j \in 1 .. Left :
       i < j /\ accepted[i] \in Held => {accepted[i], accepted[j]} \in together

(* A worker that has returned left nothing behind.                         *)
PoolInv ==
  /\ \A w \in Pool : gone[w] =>
       holding[w] = None /\ taskChan = <<>> /\ closing \in {"chan", "done"}
  /\ \A w \in Pool : holding[w] # None => w \in Worker
  /\ closing = "done" => \A w \in Worker : gone[w]

(* The inductive invariant behind these properties.                        *)
PoolSafe ==
  TypeOK /\ CountersAddUp /\ PoolInv /\ NumbersInv /\ QueueInv /\ ReorderedOnlyTogether

(* SendOrder returns, and so does Close, unless the process panics: no     *)
(* sender and no worker waits for ever, with any number of workers and any *)
(* capacity.                                                               *)
CallsReturn ==
  /\ closing = "flag" ~> closing = "done" \/ panicked
  /\ \A s \in Sender : offering[s] # None ~> offering[s] = None \/ panicked

(* Whatever keys the file and the environment leave out or spoil: when the *)
(* numbers they give are positive, the consumer runs, unless the file has  *)
(* no db_batch_tout.                                                       *)
OnlyBatchToutIsNeeded ==
  \A f \in Files, e \in Envs :
    /\ \A k \in DOMAIN f : f[k] > 0
    /\ \A k \in EnvKey : e[k] \in {Unset, Bad} \/ e[k] > 0
    => ConsumerStart(LoadConfig(f, e)) =
         IF "db_batch_tout" \in DOMAIN f THEN "runs" ELSE "dead workers"

=============================================================================
