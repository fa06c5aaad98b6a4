------------------------------ MODULE Consumer ------------------------------
(***************************************************************************)
(* The consumer processes (cmd/consumer/main.go) over the Kafka topic and  *)
(* the two stores.  Each process has a dispatcher goroutine that fetches   *)
(* records and routes them by client to the channel of one of its workers, *)
(* and workers that collect a batch, fold it, hand it to HandleBatch       *)
(* (module UpdSvr), send it to the dead letter queue when that fails, and  *)
(* commit its offsets.                                                     *)
(*                                                                         *)
(* Kafka, as the code uses it (external):                                  *)
(*   log[p]        the records of partition p; they are all there from the *)
(*                 start, a record is named by <<partition, offset>>       *)
(*   committed[p]  the committed offset: how many records of p the group   *)
(*                 would skip when the partition is assigned again         *)
(*   owner[p]      the process the partition is assigned to                *)
(*   pos[p]        how many records of p the owner has fetched             *)
(*   dlq           the records written to the topic <topic>_dlq            *)
(* A process i, its dispatcher and its workers <<i, s>>:                   *)
(*   disp[i]       "fetch"  in FetchMessage                                *)
(*                 "send"   blocked on a channel with the record held[i]   *)
(*                 "done"   returned; the channels are closed              *)
(*                 "down"   the process does not run                       *)
(*   cancelled[i]  e.ctx is cancelled: Close was called                    *)
(*   chan[w]       the channel of worker w                                 *)
(*   batch[w]      msgBatch                                                *)
(*   stage[w]      "select" in the select loop, "handle" in HandleBatch,   *)
(*                 "dlq", "commit" in the rest of flushBatch, "exited",    *)
(*                 or "dead" after a panic                                 *)
(* History variables:                                                      *)
(*   settled       the records HandleBatch returned nil for, the last time *)
(*                 they were fetched                                       *)
(*   forgotten     the records that left the memory of their process in    *)
(*                 another way than that or the dead letter queue, the     *)
(*                 last time they were fetched                             *)
(*   faults        how often something outside the code's control happened *)
(***************************************************************************)
EXTENDS Naturals, SequencesExt

CONSTANTS
  Client, Item, MaxRetries,    \* see UpdSvr
  Instance,    \* the consumer processes
  Slot,        \* the indices of workerChans; their number is worker_num
  Route,       \* Route[c]: xxhash(c) % worker_num
  Partition,
  Logs,        \* the possible contents of the topic
  BatchSize,   \* db_batch_size
  ChanCap,     \* max_queue_size / worker_num + 1
  Faults,      \* what may happen outside the code's control: FaultKinds
  MaxFaults,   \* bound on how often, in one behaviour
  None

FaultKinds ==
  {"store", "deadline", "dlq", "commit", "signal", "crash", "rebalance"}

VARIABLES
  orders, active, phase, cres, dels, rems, tries, ctxDone, stale,
  log, committed, owner, pos, dlq,
  disp, held, cancelled, chan, batch, stage,
  settled, forgotten, faults

Worker == Instance \X Slot
WorkersOf(i) == {i} \X Slot
Serves == [w \in Worker |-> {c \in Client : Route[c] = w[2]}]

U == INSTANCE UpdSvr

handling == <<orders, active, phase, cres, dels, rems, tries, ctxDone, stale>>
kafka == <<log, committed, owner, pos, dlq>>
dispatcher == <<disp, held, cancelled>>
workers == <<chan, batch, stage>>
history == <<settled, forgotten, faults>>
vars == <<handling, kafka, dispatcher, workers, history>>

(* What a record says: an order key and an action.  "dirty" stands for a   *)
(* value that is no protobuf Order, "blank" for an Order without action.   *)
Record == [key : U!OrderKey, act : {"c", "d", "blank", "dirty"}]

ASSUME ConsumerAssumption ==
  /\ MaxRetries \in Nat \ {0}
  /\ Route \in [Client -> Slot]
  /\ Logs \subseteq [Partition -> Seq(Record)]
  /\ BatchSize \in Nat \ {0}
  /\ ChanCap \in Nat \ {0}
  /\ Faults \subseteq FaultKinds
  /\ MaxFaults \in Nat
  /\ None \notin Instance

RefSeq(p) == [o \in 1 .. Len(log[p]) |-> <<p, o>>]
AllRefs == UNION {{p} \X (1 .. Len(log[p])) : p \in Partition}
RecordAt(m) == log[m[1]][m[2]]
SlotOf(m) == Route[RecordAt(m).key.client]

(* The records that process i holds in memory, by worker.                  *)
HeldBy(w) == ToSet(chan[w]) \cup ToSet(batch[w])
Sending(is) == {held[i] : i \in {j \in is : disp[j] = "send"}}
InMemoryOf(i) == (UNION {HeldBy(w) : w \in WorkersOf(i)}) \cup Sending({i})
InMemory == (UNION {HeldBy(w) : w \in Worker}) \cup Sending(Instance)

(* Those of them that are neither handled nor put aside yet.               *)
Pending ==
  (UNION {ToSet(chan[w]) : w \in Worker})
  \cup (UNION {ToSet(batch[w]) : w \in {v \in Worker : stage[v] # "commit"}})
  \cup Sending(Instance)

Processed == {m \in AllRefs : m[2] <= committed[m[1]]}

TypeOK ==
  /\ U!TypeOK
  /\ log \in Logs
  /\ committed \in [Partition -> Nat] /\ pos \in [Partition -> Nat]
  /\ \A p \in Partition : committed[p] <= Len(log[p]) /\ pos[p] <= Len(log[p])
  /\ owner \in [Partition -> Instance \cup {None}]
  /\ disp \in [Instance -> {"fetch", "send", "done", "down"}]
  /\ held \in [Instance -> AllRefs \cup {None}]
  /\ \A i \in Instance : disp[i] = "send" => held[i] \in AllRefs
  /\ cancelled \in [Instance -> BOOLEAN]
  /\ stage \in [Worker -> {"select", "handle", "dlq", "commit", "exited", "dead"}]
  /\ chan \in [Worker -> Seq(AllRefs)] /\ batch \in [Worker -> Seq(AllRefs)]
  /\ \A w \in Worker : Len(chan[w]) <= ChanCap /\ Len(batch[w]) <= BatchSize
  /\ settled \subseteq AllRefs /\ forgotten \subseteq AllRefs /\ dlq \subseteq AllRefs
  /\ faults \in 0 .. MaxFaults

Init ==
  /\ U!Init
  /\ log \in Logs
  /\ committed = [p \in Partition |-> 0]
  /\ owner = [p \in Partition |-> None]
  /\ pos = [p \in Partition |-> 0]
  /\ dlq = {}
  /\ disp = [i \in Instance |-> "fetch"]
  /\ held = [i \in Instance |-> None]
  /\ cancelled = [i \in Instance |-> FALSE]
  /\ chan = [w \in Worker |-> <<>>]
  /\ batch = [w \in Worker |-> <<>>]
  /\ stage = [w \in Worker |-> "select"]
  /\ settled = {}
  /\ forgotten = {}
  /\ faults = 0

Fault(kind) ==
  /\ kind \in Faults
  /\ faults < MaxFaults
  /\ faults' = faults + 1

(* The records ms leave the memory of their process without having been    *)
(* handled or put aside.                                                   *)
Forget(ms) == forgotten' = forgotten \cup (ms \ (settled \cup dlq'))

-----------------------------------------------------------------------------
(* The consumer group (external).                                          *)

(* The coordinator gives a free partition to a member.  Fetching starts at *)
(* the committed offset.                                                   *)
Assign(p, i) ==
  /\ owner[p] = None
  /\ disp[i] # "down"
  /\ owner' = [owner EXCEPT ![p] = i]
  /\ pos' = [pos EXCEPT ![p] = committed[p]]
  /\ UNCHANGED <<handling, log, committed, dlq, dispatcher, workers, history>>

(* A rebalance takes a partition from a member that goes on running.       *)
Revoke(p) ==
  /\ owner[p] # None
  /\ Fault("rebalance")
  /\ owner' = [owner EXCEPT ![p] = None]
  /\ UNCHANGED <<handling, log, committed, pos, dlq, dispatcher, workers, settled, forgotten>>

Leaves(i) == [p \in Partition |-> IF owner[p] = i THEN None ELSE owner[p]]

-----------------------------------------------------------------------------
(* The dispatcher.                                                         *)

(* FetchMessage returns a record.  It may still do so after the context    *)
(* was cancelled.                                                          *)
Fetch(i, p) ==
  /\ disp[i] = "fetch"
  /\ owner[p] = i
  /\ pos[p] < Len(log[p])
  /\ pos' = [pos EXCEPT ![p] = @ + 1]
  /\ held' = [held EXCEPT ![i] = <<p, pos[p] + 1>>]
  /\ disp' = [disp EXCEPT ![i] = "send"]
  /\ settled' = settled \ {<<p, pos[p] + 1>>}
  /\ forgotten' = forgotten \ {<<p, pos[p] + 1>>}
  /\ UNCHANGED <<handling, log, committed, owner, dlq, cancelled, workers, faults>>

(* Mutant: the workers share the records, as before the fix of 4.10.       *)
SendAnywhere(i) ==
  \E w \in WorkersOf(i) :
    /\ disp[i] = "send"
    /\ Len(chan[w]) < ChanCap
    /\ chan' = [chan EXCEPT ![w] = Append(@, held[i])]
    /\ held' = [held EXCEPT ![i] = None]
    /\ disp' = [disp EXCEPT ![i] = IF cancelled[i] THEN "done" ELSE "fetch"]
    /\ UNCHANGED <<handling, kafka, cancelled, batch, stage, history>>

(* The record goes to the channel of its client, when there is room.  Then *)
(* the loop looks at the context again, and closes the channels if it is   *)
(* done.                                                                   *)
Send(i) ==
  LET w == <<i, SlotOf(held[i])>>
  IN  /\ disp[i] = "send"
      /\ Len(chan[w]) < ChanCap
      /\ chan' = [chan EXCEPT ![w] = Append(@, held[i])]
      /\ held' = [held EXCEPT ![i] = None]
      /\ disp' = [disp EXCEPT ![i] = IF cancelled[i] THEN "done" ELSE "fetch"]
      /\ UNCHANGED <<handling, kafka, cancelled, batch, stage, history>>

(* Mutant: the error is met with continue, without a look at the context.  *)
CloseChansNever(i) ==
  /\ disp[i] = "fetch"
  /\ cancelled[i]
  /\ UNCHANGED vars

(* FetchMessage returns the error of the cancelled context.                *)
CloseChans(i) ==
  /\ disp[i] = "fetch"
  /\ cancelled[i]
  /\ disp' = [disp EXCEPT ![i] = "done"]
  /\ UNCHANGED <<handling, kafka, held, cancelled, workers, history>>

-----------------------------------------------------------------------------
(* A worker.                                                               *)

(* A record that is about key k.                                           *)
IsOpOn(m, k) == RecordAt(m).act # "dirty" /\ RecordAt(m).key = k

(* Mutant: of the records with the same key the first one wins.            *)
FoldedFirst(ms, act) ==
  {k \in U!OrderKey : \E n \in DOMAIN ms :
     /\ IsOpOn(ms[n], k) /\ RecordAt(ms[n]).act = act
     /\ \A j \in DOMAIN ms : IsOpOn(ms[j], k) => n <= j}

(* The fold: of the records with the same key the last one wins.           *)
Folded(ms, act) ==
  {k \in U!OrderKey : \E n \in DOMAIN ms :
     /\ IsOpOn(ms[n], k) /\ RecordAt(ms[n]).act = act
     /\ \A j \in DOMAIN ms : IsOpOn(ms[j], k) => j <= n}

(* od.Action[0] of a record without action.                                *)
Panics(ms) == \E m \in ToSet(ms) : RecordAt(m).act = "blank"

(* flushBatch up to the call of HandleBatch, on the batch ms.  The empty   *)
(* action of a record panics; the worker recovers, and returns.            *)
StartFlush(w, ms) ==
  \/ /\ ~Panics(ms)
     /\ batch' = [batch EXCEPT ![w] = ms]
     /\ stage' = [stage EXCEPT ![w] = "handle"]
     /\ U!Begin(w, Folded(ms, "c"), Folded(ms, "d"), cancelled[w[1]])
     /\ UNCHANGED forgotten
  \/ /\ Panics(ms)
     /\ batch' = [batch EXCEPT ![w] = <<>>]
     /\ stage' = [stage EXCEPT ![w] = "dead"]
     /\ Forget(ToSet(ms))
     /\ UNCHANGED handling

(* A record arrives; a full batch is flushed at once.                      *)
Receive(w) ==
  /\ stage[w] = "select"
  /\ chan[w] # <<>>
  /\ UNCHANGED <<kafka, dispatcher, settled, faults>>
  /\ chan' = [chan EXCEPT ![w] = Tail(@)]
  /\ LET ms == Append(batch[w], Head(chan[w]))
     IN  \/ /\ Len(ms) < BatchSize
            /\ batch' = [batch EXCEPT ![w] = ms]
            /\ UNCHANGED <<handling, stage, forgotten>>
         \/ /\ Len(ms) >= BatchSize
            /\ StartFlush(w, ms)

(* Mutant: no ticker, a batch is flushed at the end only.                  *)
FlushAtEnd(w) ==
  /\ stage[w] = "select"
  /\ batch[w] # <<>> /\ chan[w] = <<>>
  /\ disp[w[1]] = "done"
  /\ UNCHANGED <<kafka, dispatcher, chan, settled, faults>>
  /\ StartFlush(w, batch[w])

(* The ticker fires, or the channel is closed and empty.                   *)
Flush(w) ==
  /\ stage[w] = "select"
  /\ batch[w] # <<>>
  /\ UNCHANGED <<kafka, dispatcher, chan, settled, faults>>
  /\ StartFlush(w, batch[w])

(* The channel is closed and empty, and nothing is left to flush.          *)
Exit(w) ==
  /\ stage[w] = "select"
  /\ batch[w] = <<>> /\ chan[w] = <<>>
  /\ disp[w[1]] = "done"
  /\ stage' = [stage EXCEPT ![w] = "exited"]
  /\ UNCHANGED <<handling, kafka, dispatcher, chan, batch, history>>

(* HandleBatch makes progress.  A call to a store fails by the environment's*)
(* doing, unless the context is done: then it must.                        *)
HandleOk(w) ==
  /\ U!CreateOk(w) \/ U!DeleteOk(w) \/ U!QueryOk(w) \/ U!SyncOk(w)
  /\ UNCHANGED <<kafka, dispatcher, workers, history>>

HandleFail(w) ==
  /\ U!CreateFail(w) \/ U!DeleteFail(w) \/ U!QueryFail(w) \/ U!SyncFail(w)
  /\ IF ctxDone[w] THEN UNCHANGED faults ELSE Fault("store")
  /\ UNCHANGED <<kafka, dispatcher, workers, settled, forgotten>>

(* hdCtx expires.                                                          *)
Deadline(w) ==
  /\ phase[w] \in U!Running /\ ~ctxDone[w]
  /\ U!Expire({w})
  /\ Fault("deadline")
  /\ UNCHANGED <<kafka, dispatcher, workers, settled, forgotten>>

(* Mutant: the offsets are committed without the dead letter queue.        *)
ResultNoDlq(w) ==
  /\ stage[w] = "handle"
  /\ U!Return(w)
  /\ phase[w] \in {"ok", "err"}
  /\ stage' = [stage EXCEPT ![w] = "commit"]
  /\ settled' = IF phase[w] = "ok" THEN settled \cup ToSet(batch[w]) ELSE settled
  /\ UNCHANGED <<kafka, dispatcher, chan, batch, forgotten, faults>>

(* HandleBatch has returned.                                               *)
Result(w) ==
  /\ stage[w] = "handle"
  /\ U!Return(w)
  /\ \/ /\ phase[w] = "ok"
        /\ stage' = [stage EXCEPT ![w] = "commit"]
        /\ settled' = settled \cup ToSet(batch[w])
     \/ /\ phase[w] = "err"
        /\ stage' = [stage EXCEPT ![w] = "dlq"]
        /\ UNCHANGED settled
  /\ UNCHANGED <<kafka, dispatcher, chan, batch, forgotten, faults>>

(* Mutant: the batch is not emptied after its flush.                       *)
EndFlushNoReset(w) ==
  /\ UNCHANGED batch
  /\ stage' = [stage EXCEPT ![w] = "select"]

(* The batch is over: msgBatch is emptied.                                 *)
EndFlush(w) ==
  /\ batch' = [batch EXCEPT ![w] = <<>>]
  /\ stage' = [stage EXCEPT ![w] = "select"]

DlqOk(w) ==
  /\ stage[w] = "dlq"
  /\ dlq' = dlq \cup ToSet(batch[w])
  /\ stage' = [stage EXCEPT ![w] = "commit"]
  /\ UNCHANGED <<handling, log, committed, owner, pos, dispatcher, chan, batch, history>>

(* WriteMessages fails; part of the records may be in the queue.  The      *)
(* commit is given up, and so is the batch.                                *)
DlqFail(w) ==
  /\ stage[w] = "dlq"
  /\ Fault("dlq")
  /\ \E ms \in SUBSET ToSet(batch[w]) : dlq' = dlq \cup ms
  /\ Forget(ToSet(batch[w]))
  /\ EndFlush(w)
  /\ UNCHANGED <<handling, log, committed, owner, pos, dispatcher, chan, settled>>

(* What CommitMessages makes of the committed offsets: the last offset of  *)
(* the batch in each partition, whatever was committed before.             *)
CommittedBy(ms) ==
  [p \in Partition |->
     LET os == {m[2] : m \in {n \in ToSet(ms) : n[1] = p}}
     IN  IF os = {} THEN committed[p] ELSE Max(os)]

CommitOk(w) ==
  /\ stage[w] = "commit"
  /\ committed' = CommittedBy(batch[w])
  /\ EndFlush(w)
  /\ UNCHANGED <<handling, log, owner, pos, dlq, dispatcher, chan, history>>

(* The error of CommitMessages is logged and ignored.                      *)
CommitFail(w) ==
  /\ stage[w] = "commit"
  /\ Fault("commit")
  /\ \/ UNCHANGED committed
     \/ committed' = CommittedBy(batch[w])
  /\ EndFlush(w)
  /\ UNCHANGED <<handling, log, owner, pos, dlq, dispatcher, chan, settled, forgotten>>

-----------------------------------------------------------------------------
(* The process.                                                            *)

(* SIGTERM: Close cancels the context of the engine, and with it that of   *)
(* every running HandleBatch.                                              *)
Cancel(i) ==
  /\ disp[i] # "down" /\ ~cancelled[i]
  /\ Fault("signal")
  /\ cancelled' = [cancelled EXCEPT ![i] = TRUE]
  /\ U!Expire(WorkersOf(i))
  /\ UNCHANGED <<kafka, disp, held, workers, settled, forgotten>>

(* The memory of process i is gone.                                        *)
Stopped(i) ==
  /\ disp' = [disp EXCEPT ![i] = "down"]
  /\ held' = [held EXCEPT ![i] = None]
  /\ chan' = [w \in Worker |-> IF w[1] = i THEN <<>> ELSE chan[w]]
  /\ batch' = [w \in Worker |-> IF w[1] = i THEN <<>> ELSE batch[w]]
  /\ stage' = [w \in Worker |-> IF w[1] = i THEN "exited" ELSE stage[w]]
  /\ owner' = Leaves(i)
  /\ UNCHANGED dlq
  /\ Forget(InMemoryOf(i))

(* wg.Wait returns: the dispatcher and the workers have ended.  The reader *)
(* leaves the group, the process exits.                                    *)
Leave(i) ==
  /\ disp[i] = "done"
  /\ \A w \in WorkersOf(i) : stage[w] \in {"exited", "dead"}
  /\ Stopped(i)
  /\ UNCHANGED <<handling, log, committed, pos, cancelled, settled, faults>>

Crash(i) ==
  /\ disp[i] # "down"
  /\ Fault("crash")
  /\ Stopped(i)
  /\ U!Crash(WorkersOf(i))
  /\ UNCHANGED <<log, committed, pos, cancelled, settled>>

Restart(i) ==
  /\ disp[i] = "down"
  /\ disp' = [disp EXCEPT ![i] = "fetch"]
  /\ cancelled' = [cancelled EXCEPT ![i] = FALSE]
  /\ stage' = [w \in Worker |-> IF w[1] = i THEN "select" ELSE stage[w]]
  /\ UNCHANGED <<handling, kafka, held, chan, batch, history>>

-----------------------------------------------------------------------------
Dispatcher(i) == (\E p \in Partition : Fetch(i, p)) \/ Send(i) \/ CloseChans(i)

FlushStep(w) ==
  HandleOk(w) \/ HandleFail(w) \/ Result(w) \/ DlqOk(w) \/ DlqFail(w)
  \/ CommitOk(w) \/ CommitFail(w)

WorkerStep(w) == Receive(w) \/ Flush(w) \/ Exit(w) \/ FlushStep(w)

Next ==
  \/ \E p \in Partition : Revoke(p) \/ \E i \in Instance : Assign(p, i)
  \/ \E i \in Instance :
       Dispatcher(i) \/ Cancel(i) \/ Leave(i) \/ Crash(i) \/ Restart(i)
  \/ \E w \in Worker : WorkerStep(w) \/ Deadline(w)

Spec == Init /\ [][Next]_vars

(* Go schedules the goroutines; a call to a store, to Kafka or to the dead *)
(* letter queue returns or fails by the deadline of its context; the group *)
(* assigns a free partition; a cancelled process leaves when it can.       *)
FairSpec ==
  /\ Spec
  /\ \A p \in Partition : WF_vars(\E i \in Instance : Assign(p, i))
  /\ \A i \in Instance : WF_vars(Dispatcher(i)) /\ WF_vars(Leave(i))
  /\ \A w \in Worker : WF_vars(WorkerStep(w))

-----------------------------------------------------------------------------
(* Properties.                                                             *)

(* A record the group has committed is accounted for: it was handled, it   *)
(* is in the dead letter queue, it is in the memory of a process (its      *)
(* offset was overtaken by another worker's), or it is forgotten.          *)
CommittedAccounted == Processed \subseteq settled \cup dlq \cup InMemory \cup forgotten

(* No worker commits past a record of its own clients that it has not      *)
(* dealt with: only other workers' records are overtaken.                  *)
CommitsFollowHandling ==
  [][\A p \in Partition :
       committed'[p] # committed[p] =>
         \A o \in 1 .. committed'[p] :
           SlotOf(<<p, o>>) = SlotOf(<<p, committed'[p]>>)
             => <<p, o>> \in settled \cup dlq \cup forgotten]_vars

(* What the rows must be after all the records: the oracle of the          *)
(* end-to-end test.                                                        *)
Expected(p) == Folded(RefSeq(p), "c")

(* Everything was fetched and has left the memory of the processes.        *)
Quiet ==
  /\ \A p \in Partition : owner[p] # None /\ pos[p] = Len(log[p])
  /\ InMemory = {}

(* The clients all of whose records were handled.                          *)
Intact == Client \ {RecordAt(m).key.client : m \in dlq \cup forgotten}

(* When everything is quiet, the rows of a client none of whose records    *)
(* was put aside or forgotten are those of its records in log order,       *)
(* whatever was batched, retried, redelivered or run concurrently.         *)
RowsFollowLog ==
  Quiet => \A k \in U!OrderKey : k.client \in Intact =>
             (k \in orders <=> \E p \in Partition : k \in Expected(p))

(* No two workers handle batches of the same client at the same time.      *)
OneHandlerPerClient ==
  \A v, w \in Worker :
    v # w /\ phase[v] \in U!Running /\ phase[w] \in U!Running
      => U!Touched(v) \cap U!Touched(w) = {}

(* The agreement of the two stores carries over to the consumer group.     *)
StoresAgree == U!SyncedClientsAgree

(* Nothing the group has committed is lost: main.go:66.                    *)
NoDataLost == Processed \cap forgotten = {}

(* What the engine makes of HandleBatch is what UpdSvr assumes of its      *)
(* callers: batches are folded, of clients of the worker only, and one at  *)
(* a time, whatever happens to processes and partitions.                   *)
ImplementsUpdSvr == U!Spec

(* What relates the memory of worker w to its process.                     *)
WorkerInv(w) ==
  /\ \A m \in HeldBy(w) : SlotOf(m) = w[2]
  /\ stage[w] = "select" => Len(batch[w]) < BatchSize
  /\ disp[w[1]] = "down" => stage[w] = "exited" /\ batch[w] = <<>>

(* The records up to what was committed or fetched of a partition, or to   *)
(* what a process still has of it, are all accounted for.                  *)
Reached ==
  {m \in AllRefs :
     \/ m[2] <= committed[m[1]] \/ m[2] <= pos[m[1]]
     \/ \E n \in InMemory : n[1] = m[1] /\ m[2] <= n[2]}
Accounted == settled \cup dlq \cup forgotten \cup Pending

(* The inductive invariant behind CommittedAccounted.                      *)
ConsumerInv ==
  /\ TypeOK
  /\ \A w \in Worker : WorkerInv(w)
  /\ Reached \subseteq Accounted

-----------------------------------------------------------------------------
(* Why the records of a client are handled in the order of the log, as long*)
(* as no partition is taken from a running process.                        *)

(* The producers choose the partition by the client.                       *)
ClientsKeepPartition ==
  \A l \in Logs, p, q \in Partition : \A m \in DOMAIN l[p], n \in DOMAIN l[q] :
    l[p][m].key.client = l[q][n].key.client => p = q

(* Only its owner has records of a partition in memory.                    *)
OwnersHold ==
  /\ \A w \in Worker : \A m \in HeldBy(w) : owner[m[1]] = w[1]
  /\ \A i \in Instance : disp[i] = "send" => owner[held[i][1]] = i

(* The dispatcher holds what was fetched last; nothing beyond what was     *)
(* fetched is in memory or committed.                                      *)
PositionsInv ==
  /\ \A p \in Partition : committed[p] <= pos[p]
  /\ \A w \in Worker : \A m \in HeldBy(w) : m[2] <= pos[m[1]]
  /\ \A i \in Instance : disp[i] = "send" => held[i][2] = pos[held[i][1]]

Ahead(m, n) == m[1] = n[1] => m[2] < n[2]
Increasing(ms) == \A a, b \in DOMAIN ms : a < b => Ahead(ms[a], ms[b])

(* A record goes from the dispatcher to the channel to the batch, and none *)
(* overtakes another.                                                      *)
InLine(w) ==
  /\ Increasing(batch[w]) /\ Increasing(chan[w])
  /\ \A m \in ToSet(batch[w]), n \in ToSet(chan[w]) : Ahead(m, n)
  /\ disp[w[1]] = "send" => \A m \in HeldBy(w) : Ahead(m, held[w[1]])

(* A worker that holds a record holds all that follow it, but for the one  *)
(* the dispatcher has for it.                                              *)
NoneSkipped(w) ==
  \A m \in HeldBy(w), n \in AllRefs :
    m[1] = n[1] /\ m[2] < n[2] /\ n[2] <= pos[n[1]] /\ SlotOf(n) = w[2]
      => n \in HeldBy(w) \/ (disp[w[1]] = "send" /\ n = held[w[1]])

OrderInv == OwnersHold /\ PositionsInv /\ \A w \in Worker : InLine(w) /\ NoneSkipped(w)

(* The handler has the fold of the batch.                                  *)
HandsOver(w) ==
  IF stage[w] = "handle"
  THEN /\ ~Panics(batch[w])
       /\ cres[w] = Folded(batch[w], "c") /\ dels[w] = Folded(batch[w], "d")
  ELSE phase[w] = "idle" /\ cres[w] = {} /\ dels[w] = {}

(* The last record that is about its key.                                  *)
Latest(m) ==
  /\ IsOpOn(m, RecordAt(m).key)
  /\ \A n \in AllRefs : IsOpOn(n, RecordAt(m).key) => n[1] = m[1] /\ n[2] <= m[2]

(* Once the last record of a key has left memory, and none of the key was  *)
(* put aside or forgotten, the row is as it says.                          *)
RowsInv ==
  /\ settled \cap Pending = {}
  /\ \A m \in settled : RecordAt(m).act # "blank"
  /\ \A k \in orders : \E m \in AllRefs : IsOpOn(m, k)
  /\ \A m \in AllRefs :
       /\ Latest(m)
       /\ m[2] <= pos[m[1]] /\ m \notin Pending
       /\ \A n \in dlq \cup forgotten : ~IsOpOn(n, RecordAt(m).key)
       => (RecordAt(m).key \in orders <=> RecordAt(m).act = "c")

(* The inductive invariant behind RowsFollowLog and CommitsFollowHandling. *)
DeliveryInv ==
  /\ ConsumerInv /\ OrderInv
  /\ \A w \in Worker : HandsOver(w)
  /\ U!HandlerInv
  /\ RowsInv

-----------------------------------------------------------------------------
(* The rows at every moment: Consumer implements OrderRows as long as no   *)
(* process dies and no partition moves.                                    *)

Unacknowledged == Pending \cup {m \in AllRefs : m[2] > pos[m[1]]}

(* The actions on key k among them.                                        *)
Todo(k) ==
  {[at |-> m[2], act |-> RecordAt(m).act] : m \in {n \in Unacknowledged : IsOpOn(n, k)}}

Spoiled == {k \in U!OrderKey : \E m \in dlq \cup forgotten : IsOpOn(m, k)}

Rows == INSTANCE OrderRows WITH
          Key <- U!OrderKey, rows <- orders, spoiled <- Spoiled,
          todo <- [k \in U!OrderKey |-> Todo(k)]

(* The implementation relation, as a property of Consumer.                 *)
ImplementsOrderRows == Rows!Spec

(* No process dies and no partition moves.                                 *)
Calm == Faults \cap {"crash", "signal", "rebalance"} = {}

(* What is then true as well: nothing is fetched twice.                    *)
CalmInv ==
  /\ \A i \in Instance : ~cancelled[i] /\ disp[i] \in {"fetch", "send"}
  /\ \A p \in Partition : owner[p] = None => pos[p] = committed[p]
  /\ \A m \in dlq \cup forgotten : m[2] <= pos[m[1]]

-----------------------------------------------------------------------------
(* Liveness.                                                               *)

Offset == UNION {1 .. Len(l[p]) : l \in Logs, p \in Partition}
Dead(i) == \E w \in WorkersOf(i) : stage[w] = "dead"

(* Close returns: a cancelled process ends, unless a worker of it has      *)
(* panicked (its channel may fill up and block the dispatcher for ever).   *)
ShutdownCompletes ==
  \A i \in Instance : cancelled[i] /\ disp[i] # "down" ~> disp[i] = "down" \/ Dead(i)

(* Every record is eventually dealt with, unless the process is shut down  *)
(* or a worker has panicked.                                               *)
RecordsDealtWith ==
  \A p \in Partition, o \in Offset :
    <<p, o>> \in AllRefs ~>
      \/ <<p, o>> \in settled \cup dlq \cup forgotten
      \/ \E i \in Instance : cancelled[i] \/ Dead(i)

=============================================================================
