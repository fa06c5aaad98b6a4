--------------------------- MODULE Consumer_proofs ---------------------------
(***************************************************************************)
(* Proofs about the consumer group, for any number of processes, workers,  *)
(* partitions and clients, any contents of the topic, any batch size and   *)
(* capacity of the channels, and any faults.                               *)
(***************************************************************************)
EXTENDS Consumer, Offsets

UP == INSTANCE UpdSvr_proofs

(* The types of what UpdSvr does not know.                                 *)
EngineTypes ==
  /\ log \in Logs
  /\ committed \in [Partition -> Nat] /\ pos \in [Partition -> Nat]
  /\ \A p \in Partition : committed[p] <= Len(log[p]) /\ pos[p] <= Len(log[p])
  /\ owner \in [Partition -> Instance \cup {None}]
  /\ disp \in [Instance -> {"fetch", "send", "done", "down"}]
  /\ held \in [Instance -> AllRefs \cup {None}]
  /\ \A i \in Instance : disp[i] = "send" => held[i] \in AllRefs
  /\ cancelled \in [Instance -> BOOLEAN]
  /\ stage \in [Worker -> {"select", "handle", "dlq", "commit", "exited", "dead"}]
  /\ chan \in [Worker -> Seq(AllRefs)] /\ batch \in [Worker -> Seq(AllRefs)]
  /\ \A w \in Worker : Len(chan[w]) <= ChanCap /\ Len(batch[w]) <= BatchSize
  /\ settled \subseteq AllRefs /\ forgotten \subseteq AllRefs /\ dlq \subseteq AllRefs
  /\ faults \in 0 .. MaxFaults

EngineInv ==
  /\ EngineTypes
  /\ \A w \in Worker : WorkerInv(w)
  /\ Reached \subseteq Accounted

LEMMA InvParts ==
  /\ ConsumerInv <=> U!TypeOK /\ EngineInv
  /\ ConsumerInv' <=> U!TypeOK' /\ EngineInv'
BY DEF ConsumerInv, EngineInv, TypeOK, EngineTypes

-----------------------------------------------------------------------------
(* Records and where they are.                                             *)

LEMMA RefFacts ==
  ASSUME log \in Logs
  PROVE  /\ \A m \in AllRefs : /\ m[1] \in Partition /\ m[2] \in 1 .. Len(log[m[1]])
                               /\ m[2] \in Nat /\ m = <<m[1], m[2]>>
                               /\ RecordAt(m) \in Record /\ SlotOf(m) \in Slot
         /\ \A p \in Partition : /\ Len(log[p]) \in Nat
                                 /\ \A o \in 1 .. Len(log[p]) : <<p, o>> \in AllRefs
<1>1. log \in [Partition -> Seq(Record)]
  BY ConsumerAssumption
<1>2. ASSUME NEW p \in Partition
      PROVE  /\ Len(log[p]) \in Nat
             /\ \A o \in 1 .. Len(log[p]) : log[p][o] \in Record /\ <<p, o>> \in AllRefs
  <2>1. log[p] \in Seq(Record)
    BY <1>1
  <2> QED
    BY <2>1 DEF AllRefs
<1>3. ASSUME NEW m \in AllRefs
      PROVE  /\ m[1] \in Partition /\ m[2] \in 1 .. Len(log[m[1]])
             /\ m[2] \in Nat /\ m = <<m[1], m[2]>>
             /\ RecordAt(m) \in Record /\ SlotOf(m) \in Slot
  <2>1. PICK p \in Partition : m \in {p} \X (1 .. Len(log[p]))
    BY DEF AllRefs
  <2>2. m[1] = p /\ m[2] \in 1 .. Len(log[p]) /\ m = <<m[1], m[2]>>
    BY <2>1
  <2>3. m[2] \in Nat
    BY <1>2, <2>2
  <2>4. RecordAt(m) \in Record
    BY <1>2, <2>2 DEF RecordAt
  <2>5. RecordAt(m).key.client \in Client
    BY <2>4 DEF Record, U!OrderKey
  <2> QED
    BY <2>2, <2>3, <2>4, <2>5, ConsumerAssumption DEF SlotOf
<1> QED
  BY <1>2, <1>3

MemoryIs ==
  /\ \A m : m \in InMemory <=>
       \/ \E w \in Worker : m \in ToSet(chan[w]) \/ m \in ToSet(batch[w])
       \/ \E i \in Instance : disp[i] = "send" /\ m = held[i]
  /\ \A m : m \in Pending <=>
       \/ \E w \in Worker : m \in ToSet(chan[w]) \/ (m \in ToSet(batch[w]) /\ stage[w] # "commit")
       \/ \E i \in Instance : disp[i] = "send" /\ m = held[i]

LEMMA MemoryFacts == MemoryIs /\ MemoryIs'
<1>1. \A m : m \in Sending(Instance) <=> \E i \in Instance : disp[i] = "send" /\ m = held[i]
  BY DEF Sending
<1>2. \A m : m \in Sending(Instance)' <=> \E i \in Instance : disp'[i] = "send" /\ m = held'[i]
  BY DEF Sending
<1>3. MemoryIs
  <2>1. \A m : m \in UNION {HeldBy(w) : w \in Worker} <=>
               \E w \in Worker : m \in ToSet(chan[w]) \/ m \in ToSet(batch[w])
    BY DEF HeldBy
  <2>2. \A m : m \in UNION {ToSet(batch[w]) : w \in {v \in Worker : stage[v] # "commit"}} <=>
               \E w \in Worker : m \in ToSet(batch[w]) /\ stage[w] # "commit"
    OBVIOUS
  <2>3. \A m : m \in UNION {ToSet(chan[w]) : w \in Worker} <=> \E w \in Worker : m \in ToSet(chan[w])
    OBVIOUS
  <2> QED
    BY <1>1, <2>1, <2>2, <2>3 DEF MemoryIs, InMemory, Pending
<1>4. MemoryIs'
  <2>1. \A m : m \in UNION {HeldBy(w)' : w \in Worker} <=>
               \E w \in Worker : m \in ToSet(chan'[w]) \/ m \in ToSet(batch'[w])
    BY DEF HeldBy
  <2>2. \A m : m \in UNION {ToSet(batch'[w]) : w \in {v \in Worker : stage'[v] # "commit"}} <=>
               \E w \in Worker : m \in ToSet(batch'[w]) /\ stage'[w] # "commit"
    OBVIOUS
  <2>3. \A m : m \in UNION {ToSet(chan'[w]) : w \in Worker} <=> \E w \in Worker : m \in ToSet(chan'[w])
    OBVIOUS
  <2> QED
    BY <1>2, <2>1, <2>2, <2>3 DEF MemoryIs, InMemory, Pending
<1> QED
  BY <1>3, <1>4

LEMMA WorkerFacts ==
  /\ \A w \in Worker : w[1] \in Instance /\ w[2] \in Slot /\ w \in WorkersOf(w[1])
  /\ \A i \in Instance, s \in Slot : <<i, s>> \in Worker
  /\ \A i \in Instance, w \in Worker : w \in WorkersOf(i) <=> w[1] = i
BY DEF Worker, WorkersOf

(* What a batch is folded into: keys of clients of the worker, each with   *)
(* one action.                                                             *)
LEMMA FoldedFacts ==
  ASSUME log \in Logs, NEW w \in Worker, NEW ms \in Seq(AllRefs),
         \A m \in ToSet(ms) : SlotOf(m) = w[2]
  PROVE  /\ Folded(ms, "c") \in SUBSET [client : Serves[w], item : Item]
         /\ Folded(ms, "d") \in SUBSET [client : Serves[w], item : Item]
         /\ Folded(ms, "c") \cap Folded(ms, "d") = {}
<1>1. ASSUME NEW a, NEW k \in Folded(ms, a) PROVE k \in [client : Serves[w], item : Item]
  <2>1. k \in U!OrderKey /\ \E n \in DOMAIN ms : RecordAt(ms[n]).key = k
    BY DEF Folded, IsOpOn
  <2>2. PICK n \in DOMAIN ms : RecordAt(ms[n]).key = k
    BY <2>1
  <2>3. ms[n] \in ToSet(ms)
    BY DEF ToSet
  <2>4. Route[k.client] = w[2]
    BY <2>2, <2>3 DEF SlotOf
  <2>5. k.client \in Serves[w]
    BY <2>1, <2>4 DEF Serves, U!OrderKey
  <2> QED
    BY <2>1, <2>5 DEF U!OrderKey
<1>2. ASSUME NEW k \in Folded(ms, "c"), k \in Folded(ms, "d") PROVE FALSE
  <2>1. PICK n \in DOMAIN ms :
          /\ IsOpOn(ms[n], k) /\ RecordAt(ms[n]).act = "c"
          /\ \A j \in DOMAIN ms : IsOpOn(ms[j], k) => j <= n
    BY DEF Folded
  <2>2. PICK l \in DOMAIN ms :
          /\ IsOpOn(ms[l], k) /\ RecordAt(ms[l]).act = "d"
          /\ \A j \in DOMAIN ms : IsOpOn(ms[j], k) => j <= l
    BY <1>2 DEF Folded
  <2>3. n \in Nat /\ l \in Nat
    OBVIOUS
  <2>4. n = l
    BY <2>1, <2>2, <2>3
  <2> QED
    BY <2>1, <2>2, <2>4
<1> QED
  BY <1>1, <1>2

-----------------------------------------------------------------------------
(* To UpdSvr, the engine is a caller that keeps its contract.              *)

LEMMA InitImplements == Init => U!Init
BY DEF Init

LEMMA FlushCalls ==
  ASSUME log \in Logs, cancelled \in [Instance -> BOOLEAN], NEW w \in Worker,
         NEW ms \in Seq(AllRefs), \A m \in ToSet(ms) : SlotOf(m) = w[2], StartFlush(w, ms)
  PROVE  [U!Next]_(U!vars)
<1>1. CASE U!Begin(w, Folded(ms, "c"), Folded(ms, "d"), cancelled[w[1]])
  <2>1. cancelled[w[1]] \in BOOLEAN
    BY WorkerFacts
  <2>2. U!Call(w)
    BY <1>1, <2>1, FoldedFacts DEF U!Call
  <2> QED
    BY <2>2 DEF U!Next
<1>2. CASE UNCHANGED handling
  BY <1>2 DEF handling, U!vars, U!handler
<1> QED
  BY <1>1, <1>2 DEF StartFlush

(* What a worker collects is of its own clients.                           *)
LEMMA NextBatch ==
  ASSUME EngineInv, NEW w \in Worker, chan[w] # <<>>
  PROVE  LET ms == Append(batch[w], Head(chan[w]))
         IN  /\ ms \in Seq(AllRefs)
             /\ ToSet(ms) = ToSet(batch[w]) \cup {Head(chan[w])}
             /\ Len(ms) = Len(batch[w]) + 1
             /\ \A m \in ToSet(ms) : SlotOf(m) = w[2]
<1>1. chan[w] \in Seq(AllRefs) /\ batch[w] \in Seq(AllRefs)
  BY DEF EngineInv, EngineTypes
<1>2. Head(chan[w]) \in AllRefs /\ Head(chan[w]) \in ToSet(chan[w])
  BY <1>1, ToSetFacts
<1>3. \A m \in ToSet(chan[w]) \cup ToSet(batch[w]) : SlotOf(m) = w[2]
  BY DEF EngineInv, WorkerInv, HeldBy
<1>4. ToSet(Append(batch[w], Head(chan[w]))) = ToSet(batch[w]) \cup {Head(chan[w])}
  BY <1>1, <1>2, ToSetFacts
<1>5. /\ Append(batch[w], Head(chan[w])) \in Seq(AllRefs)
      /\ Len(Append(batch[w], Head(chan[w]))) = Len(batch[w]) + 1
  BY <1>1, <1>2
<1> QED
  BY <1>2, <1>3, <1>4, <1>5

LEMMA StepImplements ==
  ASSUME EngineInv, [Next]_vars
  PROVE  [U!Next]_(U!vars)
<1> USE DEF handling
<1>1. ASSUME UNCHANGED handling PROVE [U!Next]_(U!vars)
  BY <1>1 DEF U!vars, U!handler
<1>2. ASSUME NEW w \in Worker, Receive(w) PROVE [U!Next]_(U!vars)
  <2>1. CASE StartFlush(w, Append(batch[w], Head(chan[w])))
    BY <1>2, <2>1, NextBatch, FlushCalls DEF Receive, EngineInv, EngineTypes
  <2>2. CASE UNCHANGED handling
    BY <1>1, <2>2
  <2> QED
    BY <1>2, <2>1, <2>2 DEF Receive
<1>3. ASSUME NEW w \in Worker, Flush(w) PROVE [U!Next]_(U!vars)
  <2>1. /\ batch[w] \in Seq(AllRefs) /\ \A m \in ToSet(batch[w]) : SlotOf(m) = w[2]
        /\ log \in Logs /\ cancelled \in [Instance -> BOOLEAN]
    BY DEF EngineInv, EngineTypes, WorkerInv, HeldBy
  <2> QED
    BY <1>3, <2>1, FlushCalls DEF Flush
<1>4. ASSUME NEW w \in Worker, FlushStep(w) PROVE [U!Next]_(U!vars)
  <2>1. CASE HandleOk(w)
    BY <2>1 DEF HandleOk, U!Next, U!Step
  <2>2. CASE HandleFail(w)
    BY <2>2 DEF HandleFail, U!Next, U!Step
  <2>3. CASE Result(w)
    BY <2>3 DEF Result, U!Next
  <2> QED
    BY <1>1, <1>4, <2>1, <2>2, <2>3 DEF FlushStep, DlqOk, DlqFail, CommitOk, CommitFail
<1>5. ASSUME NEW w \in Worker, Deadline(w) PROVE [U!Next]_(U!vars)
  BY <1>5 DEF Deadline, U!Next
<1>6. ASSUME NEW i \in Instance, Cancel(i) PROVE [U!Next]_(U!vars)
  <2>1. WorkersOf(i) \in SUBSET Worker
    BY DEF WorkersOf, Worker
  <2> QED
    BY <1>6, <2>1 DEF Cancel, U!Next
<1>7. ASSUME NEW i \in Instance, Crash(i) PROVE [U!Next]_(U!vars)
  <2>1. WorkersOf(i) \in SUBSET Worker
    BY DEF WorkersOf, Worker
  <2> QED
    BY <1>7, <2>1 DEF Crash, U!Next
<1>8. ASSUME NEW i \in Instance, Dispatcher(i) \/ Leave(i) \/ Restart(i)
      PROVE  [U!Next]_(U!vars)
  BY <1>1, <1>8 DEF Dispatcher, Fetch, Send, CloseChans, Leave, Restart
<1>9. ASSUME NEW p \in Partition, Revoke(p) \/ \E i \in Instance : Assign(p, i)
      PROVE  [U!Next]_(U!vars)
  BY <1>1, <1>9 DEF Revoke, Assign
<1>10. ASSUME NEW w \in Worker, Exit(w) PROVE [U!Next]_(U!vars)
  BY <1>1, <1>10 DEF Exit
<1>11. CASE UNCHANGED vars
  BY <1>1, <1>11 DEF vars
<1> QED
  BY <1>2, <1>3, <1>4, <1>5, <1>6, <1>7, <1>8, <1>9, <1>10, <1>11 DEF Next, WorkerStep

-----------------------------------------------------------------------------
(* The inductive invariant of the engine.                                  *)

LEMMA InitEngineInv == Init => EngineInv
<1> SUFFICES ASSUME Init PROVE EngineInv
  OBVIOUS
<1> USE DEF Init
<1>1. EngineTypes
  <2>1. /\ \A p \in Partition : Len(log[p]) \in Nat
    BY RefFacts
  <2>2. <<>> \in Seq(AllRefs) /\ Len(<<>>) = 0
    OBVIOUS
  <2>3. /\ chan \in [Worker -> Seq(AllRefs)] /\ batch \in [Worker -> Seq(AllRefs)]
        /\ \A w \in Worker : Len(chan[w]) <= ChanCap /\ Len(batch[w]) <= BatchSize
    BY <2>2, ConsumerAssumption
  <2> QED
    BY <2>1, <2>3, ConsumerAssumption DEF EngineTypes
<1>2. ASSUME NEW w \in Worker PROVE WorkerInv(w)
  <2>1. chan[w] = <<>> /\ batch[w] = <<>> /\ disp[w[1]] = "fetch"
    BY WorkerFacts
  <2> QED
    BY <2>1, NothingInEmpty, ConsumerAssumption DEF WorkerInv, HeldBy
<1>3. Reached \subseteq Accounted
  <2>1. \A m : m \notin InMemory
    BY MemoryFacts, NothingInEmpty DEF MemoryIs
  <2>2. \A m \in AllRefs : m[1] \in Partition /\ m[2] \in 1 .. Len(log[m[1]]) /\ Len(log[m[1]]) \in Nat
    BY RefFacts
  <2>3. \A m \in AllRefs : ~ (m[2] <= 0)
    BY <2>2
  <2> QED
    BY <2>1, <2>2, <2>3 DEF Reached
<1> QED
  BY <1>1, <1>2, <1>3 DEF EngineInv

(* The offset that is committed for a batch is that of one of its records. *)
CommitsHeld ==
  \A p \in Partition :
    \/ committed'[p] = committed[p]
    \/ \E m \in InMemory \cap AllRefs : m[1] = p /\ committed'[p] = m[2]

LEMMA CommittedByFacts ==
  ASSUME EngineInv, NEW w \in Worker, committed' = CommittedBy(batch[w])
  PROVE  /\ CommitsHeld /\ committed' \in [Partition -> Nat]
         /\ \A p \in Partition :
              \/ committed'[p] = committed[p]
              \/ \E m \in ToSet(batch[w]) : m[1] = p /\ committed'[p] = m[2]
<1>1. batch[w] \in Seq(AllRefs) /\ log \in Logs /\ committed \in [Partition -> Nat]
  BY DEF EngineInv, EngineTypes
<1>2. ToSet(batch[w]) \subseteq AllRefs /\ ToSet(batch[w]) \subseteq InMemory
  BY <1>1, ToSetFacts, MemoryFacts DEF MemoryIs
<1>3. ASSUME NEW p \in Partition
      PROVE  \/ committed'[p] = committed[p]
             \/ \E m \in ToSet(batch[w]) : m[1] = p /\ committed'[p] = m[2]
  <2> DEFINE os == {m[2] : m \in {n \in ToSet(batch[w]) : n[1] = p}}
  <2>1. committed'[p] = IF os = {} THEN committed[p] ELSE Max(os)
    BY DEF CommittedBy
  <2>2. CASE os = {}
    BY <2>1, <2>2
  <2>3. CASE os # {}
    <3>1. Len(log[p]) \in Nat /\ os \in SUBSET (1 .. Len(log[p]))
      BY <1>1, <1>2, RefFacts
    <3>2. Max(os) \in os
      <4> HIDE DEF os
      <4> QED
        BY <2>3, <3>1, GreatestOffset
    <3>3. PICK m \in ToSet(batch[w]) : m[1] = p /\ m[2] = Max(os)
      BY <3>2
    <3> HIDE DEF os
    <3> QED
      BY <2>1, <2>3, <3>3
  <2> QED
    BY <2>2, <2>3
<1>4. CommitsHeld
  BY <1>2, <1>3 DEF CommitsHeld
<1>5. \A p \in Partition : committed'[p] \in Nat
  BY <1>1, <1>2, <1>3, RefFacts
<1>6. committed' = [p \in Partition |-> committed'[p]]
  BY DEF CommittedBy
<1> QED
  BY <1>3, <1>4, <1>5, <1>6

(* The positions in the topic: what may change about them in a step that   *)
(* fetches nothing.                                                        *)
PositionsStep ==
  /\ log' = log
  /\ committed' \in [Partition -> Nat] /\ CommitsHeld
  /\ pos' \in [Partition -> Nat]
  /\ \A p \in Partition : pos'[p] = pos[p] \/ pos'[p] = committed[p]

LEMMA PositionsKept ==
  ASSUME EngineInv, PositionsStep
  PROVE  \A p \in Partition : committed'[p] <= Len(log'[p]) /\ pos'[p] <= Len(log'[p])
<1> USE DEF PositionsStep
<1>1. ASSUME NEW p \in Partition
      PROVE committed'[p] <= Len(log'[p]) /\ pos'[p] <= Len(log'[p])
  <2>1. committed[p] <= Len(log[p]) /\ pos[p] <= Len(log[p]) /\ log \in Logs
    BY DEF EngineInv, EngineTypes
  <2>2. \A m \in AllRefs : m[2] <= Len(log[m[1]])
    BY <2>1, RefFacts
  <2> QED
    BY <2>1, <2>2 DEF CommitsHeld
<1> QED
  BY <1>1

(* As long as nothing leaves memory unaccounted for, all that was reached  *)
(* stays accounted for.                                                    *)
LEMMA AccountKept ==
  ASSUME EngineInv, PositionsStep, \A m : m \in InMemory' => m \in InMemory,
         \A m \in Accounted : m \in Accounted'
  PROVE  (Reached \subseteq Accounted)'
<1>1. AllRefs' = AllRefs /\ log \in Logs
  BY DEF AllRefs, PositionsStep, EngineInv, EngineTypes
<1>2. ASSUME NEW m \in AllRefs, m \in Reached' PROVE m \in Reached
  <2>1. m[1] \in Partition /\ m[2] \in Nat
    BY <1>1, RefFacts
  <2>2. /\ committed[m[1]] \in Nat /\ pos[m[1]] \in Nat
        /\ committed'[m[1]] \in Nat /\ pos'[m[1]] \in Nat
    BY <2>1 DEF PositionsStep, EngineInv, EngineTypes
  <2>3. \/ m[2] <= committed'[m[1]] \/ m[2] <= pos'[m[1]]
        \/ \E n \in InMemory : n[1] = m[1] /\ m[2] <= n[2]
    BY <1>2 DEF Reached
  <2>4. CASE m[2] <= committed'[m[1]]
    BY <2>1, <2>4 DEF PositionsStep, CommitsHeld, Reached
  <2>5. CASE m[2] <= pos'[m[1]]
    BY <2>1, <2>5 DEF PositionsStep, Reached
  <2> QED
    BY <2>3, <2>4, <2>5 DEF Reached
<1>3. Reached' \subseteq AllRefs
  BY <1>1 DEF Reached
<1> QED
  BY <1>2, <1>3 DEF EngineInv

-----------------------------------------------------------------------------
(* Steps of a worker: what the channel, the batch and the stage of worker  *)
(* w become.                                                               *)
WorkerChange(w, c, b, s) ==
  /\ chan' = [chan EXCEPT ![w] = c]
  /\ batch' = [batch EXCEPT ![w] = b]
  /\ stage' = [stage EXCEPT ![w] = s]
  /\ UNCHANGED <<disp, held, cancelled, owner>>

(* The step is sound: it keeps to the bounds, and what it drops from       *)
(* memory is handled, put aside or forgotten.                              *)
SoundChange(w, c, b, s) ==
  /\ stage[w] # "exited"
  /\ c \in Seq(AllRefs) /\ Len(c) <= ChanCap
  /\ b \in Seq(AllRefs) /\ Len(b) <= BatchSize
  /\ s \in {"select", "handle", "dlq", "commit", "exited", "dead"}
  /\ s = "select" => Len(b) < BatchSize
  /\ ToSet(c) \cup ToSet(b) \subseteq HeldBy(w)
  /\ settled \subseteq settled' /\ dlq \subseteq dlq' /\ forgotten \subseteq forgotten'
  /\ \A m \in HeldBy(w) :
       \/ m \in ToSet(c) \/ (m \in ToSet(b) /\ s # "commit")
       \/ m \in settled' \cup dlq' \cup forgotten'
       \/ stage[w] = "commit" /\ m \notin ToSet(chan[w])

HistoryTypes ==
  settled' \subseteq AllRefs /\ dlq' \subseteq AllRefs /\ forgotten' \subseteq AllRefs
  /\ faults' \in 0 .. MaxFaults

LEMMA WorkerChangeKeeps ==
  ASSUME EngineInv, NEW w \in Worker, NEW c, NEW b, NEW s,
         WorkerChange(w, c, b, s), SoundChange(w, c, b, s), PositionsStep, HistoryTypes
  PROVE  EngineInv'
<1> USE DEF WorkerChange, SoundChange
<1>0. /\ chan \in [Worker -> Seq(AllRefs)] /\ batch \in [Worker -> Seq(AllRefs)]
      /\ stage \in [Worker -> {"select", "handle", "dlq", "commit", "exited", "dead"}]
  BY DEF EngineInv, EngineTypes
<1>1. /\ chan'[w] = c /\ batch'[w] = b /\ stage'[w] = s
      /\ \A v \in Worker \ {w} : chan'[v] = chan[v] /\ batch'[v] = batch[v] /\ stage'[v] = stage[v]
  BY <1>0
<1>2. AllRefs' = AllRefs
  BY DEF AllRefs, PositionsStep
<1>3. EngineTypes'
  <2>1. /\ chan' \in [Worker -> Seq(AllRefs)] /\ batch' \in [Worker -> Seq(AllRefs)]
        /\ stage' \in [Worker -> {"select", "handle", "dlq", "commit", "exited", "dead"}]
    BY <1>0
  <2>2. \A v \in Worker : Len(chan'[v]) <= ChanCap /\ Len(batch'[v]) <= BatchSize
    BY <1>1 DEF EngineInv, EngineTypes
  <2> QED
    BY <1>2, <2>1, <2>2, PositionsKept
    DEF EngineInv, EngineTypes, PositionsStep, HistoryTypes
<1>4. ASSUME NEW v \in Worker PROVE WorkerInv(v)'
  <2>1. WorkerInv(v) /\ \A m : SlotOf(m)' = SlotOf(m)
    BY DEF EngineInv, SlotOf, RecordAt, PositionsStep
  <2>2. CASE v = w
    <3>1. HeldBy(w)' = ToSet(c) \cup ToSet(b)
      BY <1>1 DEF HeldBy
    <3>2. disp[w[1]] # "down" /\ disp' = disp
      BY <2>1, <2>2 DEF WorkerInv
    <3>3. \A m \in HeldBy(w)' : SlotOf(m)' = w[2]
      BY <2>1, <2>2, <3>1 DEF WorkerInv
    <3>4. stage'[w] = "select" => Len(batch'[w]) < BatchSize
      BY <1>1
    <3> QED
      BY <2>2, <3>2, <3>3, <3>4 DEF WorkerInv
  <2>3. CASE v # w
    <3>1. HeldBy(v)' = HeldBy(v)
      BY <1>1, <2>3 DEF HeldBy
    <3> QED
      BY <1>1, <2>1, <2>3, <3>1 DEF WorkerInv
  <2> QED
    BY <2>2, <2>3
<1>5. ASSUME NEW m, m \in InMemory' PROVE m \in InMemory
  <2>1. \A n \in ToSet(c) \cup ToSet(b) : n \in ToSet(chan[w]) \/ n \in ToSet(batch[w])
    BY DEF HeldBy
  <2>2. CASE \E v \in Worker : m \in ToSet(chan'[v]) \/ m \in ToSet(batch'[v])
    <3>1. PICK v \in Worker : m \in ToSet(chan'[v]) \/ m \in ToSet(batch'[v])
      BY <2>2
    <3>2. m \in ToSet(chan[v]) \/ m \in ToSet(batch[v])
      BY <1>1, <2>1, <3>1
    <3> QED
      BY <3>2, MemoryFacts DEF MemoryIs
  <2>3. CASE \E i \in Instance : disp'[i] = "send" /\ m = held'[i]
    BY <2>3, MemoryFacts DEF MemoryIs
  <2> QED
    BY <1>5, <2>2, <2>3, MemoryFacts DEF MemoryIs
<1>6. \A m \in Accounted : m \in Accounted'
  <2> SUFFICES ASSUME NEW m \in Accounted, m \notin settled' \cup dlq' \cup forgotten'
               PROVE  m \in Pending'
    BY DEF Accounted
  <2>1. m \in Pending
    BY DEF Accounted
  <2>2. ASSUME NEW v \in Worker,
               m \in ToSet(chan[v]) \/ (m \in ToSet(batch[v]) /\ stage[v] # "commit")
        PROVE  m \in ToSet(chan'[v]) \/ (m \in ToSet(batch'[v]) /\ stage'[v] # "commit")
    BY <1>1, <2>2 DEF HeldBy
  <2> QED
    BY <2>1, <2>2, MemoryFacts DEF MemoryIs
<1> QED
  BY <1>3, <1>4, <1>5, <1>6, AccountKept DEF EngineInv

LEMMA FaultTypes ==
  ASSUME EngineInv
  PROVE  \A k : Fault(k) => faults' \in 0 .. MaxFaults
BY ConsumerAssumption DEF Fault, EngineInv, EngineTypes

LEMMA StartFlushKeeps ==
  ASSUME EngineInv, NEW w \in Worker, NEW c, NEW ms, StartFlush(w, ms),
         stage[w] = "select",
         c \in Seq(AllRefs), Len(c) <= ChanCap, ms \in Seq(AllRefs), Len(ms) <= BatchSize,
         ToSet(c) \cup ToSet(ms) = HeldBy(w),
         chan' = [chan EXCEPT ![w] = c],
         UNCHANGED <<kafka, dispatcher, settled, faults>>
  PROVE  EngineInv'
<1> USE DEF kafka, dispatcher
<1>1. PositionsStep
  BY DEF PositionsStep, CommitsHeld, EngineInv, EngineTypes
<1>2. CASE batch' = [batch EXCEPT ![w] = ms] /\ stage' = [stage EXCEPT ![w] = "handle"]
           /\ forgotten' = forgotten
  <2>1. SoundChange(w, c, ms, "handle")
    BY <1>2 DEF SoundChange
  <2>2. HistoryTypes /\ WorkerChange(w, c, ms, "handle")
    BY <1>2 DEF HistoryTypes, WorkerChange, EngineInv, EngineTypes
  <2> QED
    BY <1>1, <2>1, <2>2, WorkerChangeKeeps
<1>3. CASE batch' = [batch EXCEPT ![w] = <<>>] /\ stage' = [stage EXCEPT ![w] = "dead"]
           /\ Forget(ToSet(ms))
  <2>1. ToSet(ms) \subseteq AllRefs
    BY ToSetFacts
  <2>2. SoundChange(w, c, <<>>, "dead")
    <3>1. <<>> \in Seq(AllRefs) /\ Len(<<>>) = 0
      OBVIOUS
    <3>2. \A m \in HeldBy(w) : m \in ToSet(c) \/ m \in settled' \cup dlq' \cup forgotten'
      BY <1>3 DEF Forget
    <3> QED
      BY <1>3, <3>1, <3>2, NothingInEmpty, ConsumerAssumption DEF SoundChange, Forget
  <2>3. HistoryTypes /\ WorkerChange(w, c, <<>>, "dead")
    BY <1>3, <2>1 DEF HistoryTypes, WorkerChange, Forget, EngineInv, EngineTypes
  <2> QED
    BY <1>1, <2>2, <2>3, WorkerChangeKeeps
<1> QED
  BY <1>2, <1>3 DEF StartFlush

LEMMA MemoryTypes ==
  ASSUME EngineInv, NEW w \in Worker
  PROVE  /\ chan[w] \in Seq(AllRefs) /\ Len(chan[w]) <= ChanCap
         /\ batch[w] \in Seq(AllRefs) /\ Len(batch[w]) <= BatchSize
         /\ chan \in [Worker -> Seq(AllRefs)] /\ batch \in [Worker -> Seq(AllRefs)]
         /\ HeldBy(w) = ToSet(chan[w]) \cup ToSet(batch[w])
         /\ HeldBy(w) \subseteq AllRefs
         /\ settled \subseteq AllRefs /\ dlq \subseteq AllRefs /\ forgotten \subseteq AllRefs
         /\ faults \in 0 .. MaxFaults
<1>1. chan[w] \in Seq(AllRefs) /\ batch[w] \in Seq(AllRefs)
  BY DEF EngineInv, EngineTypes
<1>2. ToSet(chan[w]) \subseteq AllRefs /\ ToSet(batch[w]) \subseteq AllRefs
  BY <1>1, ToSetFacts
<1> QED
  BY <1>1, <1>2 DEF EngineInv, EngineTypes, HeldBy

LEMMA ReceiveKeeps ==
  ASSUME EngineInv, NEW w \in Worker, Receive(w)
  PROVE  EngineInv'
<1> DEFINE ms == Append(batch[w], Head(chan[w]))
           c == Tail(chan[w])
<1>0. /\ stage[w] = "select" /\ chan[w] # <<>>
      /\ UNCHANGED <<kafka, dispatcher, settled, faults>>
      /\ chan' = [chan EXCEPT ![w] = c]
      /\ \/ Len(ms) < BatchSize /\ batch' = [batch EXCEPT ![w] = ms] /\ UNCHANGED <<stage, forgotten>>
         \/ Len(ms) >= BatchSize /\ StartFlush(w, ms)
  BY DEF Receive
<1>1. /\ ms \in Seq(AllRefs) /\ Len(ms) = Len(batch[w]) + 1
      /\ ToSet(ms) = ToSet(batch[w]) \cup {Head(chan[w])}
  BY <1>0, NextBatch
<1>2. /\ c \in Seq(AllRefs) /\ Len(c) <= ChanCap
      /\ ToSet(chan[w]) = ToSet(c) \cup {Head(chan[w])}
  <2>1. chan[w] \in Seq(AllRefs) /\ Len(chan[w]) <= ChanCap
    BY MemoryTypes
  <2>2. Len(c) = Len(chan[w]) - 1 /\ Len(chan[w]) \in Nat
    BY <1>0, <2>1, HeadTailProperties
  <2>3. Len(c) <= ChanCap
    BY <2>1, <2>2, ConsumerAssumption
  <2> QED
    BY <1>0, <2>1, <2>3, ToSetFacts
<1>3. ToSet(c) \cup ToSet(ms) = HeldBy(w)
  BY <1>1, <1>2 DEF HeldBy
<1>4. Len(ms) <= BatchSize
  <2>1. Len(batch[w]) < BatchSize /\ batch[w] \in Seq(AllRefs)
    BY <1>0, MemoryTypes DEF EngineInv, WorkerInv
  <2>2. Len(batch[w]) \in Nat
    BY <2>1
  <2> HIDE DEF ms
  <2> QED
    BY <1>1, <2>1, <2>2, ConsumerAssumption
<1> HIDE DEF ms, c
<1>5. CASE StartFlush(w, ms)
  BY <1>0, <1>1, <1>2, <1>3, <1>4, <1>5, StartFlushKeeps
<1>6. CASE Len(ms) < BatchSize /\ batch' = [batch EXCEPT ![w] = ms] /\ UNCHANGED <<stage, forgotten>>
  <2>1. PositionsStep
    BY <1>0 DEF PositionsStep, CommitsHeld, EngineInv, EngineTypes, kafka
  <2>2. SoundChange(w, c, ms, "select")
    BY <1>0, <1>1, <1>2, <1>3, <1>4, <1>6 DEF SoundChange, kafka
  <2>3. HistoryTypes /\ WorkerChange(w, c, ms, "select")
    BY <1>0, <1>6 DEF HistoryTypes, WorkerChange, kafka, dispatcher, EngineInv, EngineTypes
  <2> QED
    BY <2>1, <2>2, <2>3, WorkerChangeKeeps
<1> QED
  BY <1>0, <1>5, <1>6

LEMMA FlushKeeps ==
  ASSUME EngineInv, NEW w \in Worker, Flush(w)
  PROVE  EngineInv'
<1>1. chan' = [chan EXCEPT ![w] = chan[w]]
  BY MemoryTypes DEF Flush
<1> QED
  BY <1>1, MemoryTypes, StartFlushKeeps DEF Flush

LEMMA ExitKeeps ==
  ASSUME EngineInv, NEW w \in Worker, Exit(w)
  PROVE  EngineInv'
<1>1. PositionsStep
  BY DEF Exit, PositionsStep, CommitsHeld, EngineInv, EngineTypes, kafka
<1>2. SoundChange(w, chan[w], batch[w], "exited")
  BY MemoryTypes DEF Exit, SoundChange, kafka, history
<1>3. HistoryTypes /\ WorkerChange(w, chan[w], batch[w], "exited")
  BY MemoryTypes DEF Exit, HistoryTypes, WorkerChange, kafka, dispatcher, history
<1> QED
  BY <1>1, <1>2, <1>3, WorkerChangeKeeps

LEMMA ResultKeeps ==
  ASSUME EngineInv, NEW w \in Worker, Result(w)
  PROVE  EngineInv'
<1> USE DEF Result, kafka, dispatcher
<1>1. PositionsStep
  BY DEF PositionsStep, CommitsHeld, EngineInv, EngineTypes
<1>2. CASE stage' = [stage EXCEPT ![w] = "commit"] /\ settled' = settled \cup ToSet(batch[w])
  <2>1. SoundChange(w, chan[w], batch[w], "commit")
    BY <1>2, MemoryTypes DEF SoundChange
  <2>2. HistoryTypes /\ WorkerChange(w, chan[w], batch[w], "commit")
    BY <1>2, MemoryTypes DEF HistoryTypes, WorkerChange
  <2> QED
    BY <1>1, <2>1, <2>2, WorkerChangeKeeps
<1>3. CASE stage' = [stage EXCEPT ![w] = "dlq"] /\ settled' = settled
  <2>1. SoundChange(w, chan[w], batch[w], "dlq")
    BY <1>3, MemoryTypes DEF SoundChange
  <2>2. HistoryTypes /\ WorkerChange(w, chan[w], batch[w], "dlq")
    BY <1>3, MemoryTypes DEF HistoryTypes, WorkerChange
  <2> QED
    BY <1>1, <2>1, <2>2, WorkerChangeKeeps
<1> QED
  BY <1>2, <1>3

LEMMA DlqOkKeeps ==
  ASSUME EngineInv, NEW w \in Worker, DlqOk(w)
  PROVE  EngineInv'
<1> USE DEF DlqOk, dispatcher, history
<1>1. PositionsStep
  BY DEF PositionsStep, CommitsHeld, EngineInv, EngineTypes
<1>2. SoundChange(w, chan[w], batch[w], "commit")
  BY MemoryTypes DEF SoundChange
<1>3. HistoryTypes /\ WorkerChange(w, chan[w], batch[w], "commit")
  BY MemoryTypes DEF HistoryTypes, WorkerChange
<1> QED
  BY <1>1, <1>2, <1>3, WorkerChangeKeeps

(* The batch is emptied: what is in it has been seen to.                   *)
LEMMA EndFlushKeeps ==
  ASSUME EngineInv, NEW w \in Worker, EndFlush(w), stage[w] \in {"dlq", "commit"},
         UNCHANGED <<chan, disp, held, cancelled, owner>>,
         PositionsStep, HistoryTypes,
         settled \subseteq settled' /\ dlq \subseteq dlq' /\ forgotten \subseteq forgotten',
         \/ stage[w] = "commit"
         \/ ToSet(batch[w]) \subseteq settled' \cup dlq' \cup forgotten'
  PROVE  EngineInv'
<1>1. <<>> \in Seq(AllRefs) /\ Len(<<>>) = 0 /\ 0 < BatchSize /\ 0 <= BatchSize
  BY ConsumerAssumption
<1>2. SoundChange(w, chan[w], <<>>, "select")
  BY <1>1, MemoryTypes, NothingInEmpty DEF SoundChange
<1>3. WorkerChange(w, chan[w], <<>>, "select")
  BY MemoryTypes DEF EndFlush, WorkerChange
<1> QED
  BY <1>2, <1>3, WorkerChangeKeeps

LEMMA DlqFailKeeps ==
  ASSUME EngineInv, NEW w \in Worker, DlqFail(w)
  PROVE  EngineInv'
<1> USE DEF DlqFail, dispatcher
<1>1. PositionsStep
  BY DEF PositionsStep, CommitsHeld, EngineInv, EngineTypes
<1>2. ToSet(batch[w]) \subseteq AllRefs
  BY MemoryTypes
<1>3. HistoryTypes /\ dlq \subseteq dlq'
  BY <1>2, MemoryTypes, FaultTypes DEF HistoryTypes, Forget
<1>4. ToSet(batch[w]) \subseteq settled' \cup dlq' \cup forgotten' /\ forgotten \subseteq forgotten'
  BY DEF Forget
<1> QED
  BY <1>1, <1>3, <1>4, EndFlushKeeps

LEMMA CommitKeeps ==
  ASSUME EngineInv, NEW w \in Worker, CommitOk(w) \/ CommitFail(w)
  PROVE  EngineInv'
<1> USE DEF CommitOk, CommitFail, dispatcher, history
<1>1. \/ committed' = committed
      \/ committed' = CommittedBy(batch[w])
  OBVIOUS
<1>2. CommitsHeld /\ committed' \in [Partition -> Nat]
  BY <1>1, CommittedByFacts DEF CommitsHeld, EngineInv, EngineTypes
<1>3. PositionsStep
  BY <1>2 DEF PositionsStep, EngineInv, EngineTypes
<1>4. HistoryTypes
  BY MemoryTypes, FaultTypes DEF HistoryTypes
<1>5. /\ EndFlush(w) /\ stage[w] = "commit"
      /\ UNCHANGED <<chan, disp, held, cancelled, owner, settled, dlq, forgotten>>
  OBVIOUS
<1> QED
  BY <1>3, <1>4, <1>5, EndFlushKeeps

-----------------------------------------------------------------------------
(* Steps that leave the memory of the processes alone.                     *)
LEMMA StillKeeps ==
  ASSUME EngineInv, PositionsStep, HistoryTypes,
         UNCHANGED <<held, chan, batch, stage, settled, dlq, forgotten>>,
         owner' \in [Partition -> Instance \cup {None}],
         cancelled' \in [Instance -> BOOLEAN],
         disp' \in [Instance -> {"fetch", "send", "done", "down"}],
         \A i \in Instance : /\ disp'[i] = "send" <=> disp[i] = "send"
                             /\ disp'[i] = "down" <=> disp[i] = "down"
  PROVE  EngineInv'
<1>1. AllRefs' = AllRefs
  BY DEF AllRefs, PositionsStep
<1>2. EngineTypes'
  BY <1>1, PositionsKept DEF EngineInv, EngineTypes, PositionsStep, HistoryTypes
<1>3. ASSUME NEW v \in Worker PROVE WorkerInv(v)'
  <2>1. WorkerInv(v) /\ \A m : SlotOf(m)' = SlotOf(m)
    BY DEF EngineInv, SlotOf, RecordAt, PositionsStep
  <2>2. HeldBy(v)' = HeldBy(v) /\ v[1] \in Instance
    BY WorkerFacts DEF HeldBy
  <2> QED
    BY <2>1, <2>2 DEF WorkerInv
<1>4. /\ \A m : m \in InMemory' => m \in InMemory
      /\ \A m \in Accounted : m \in Accounted'
  BY MemoryFacts DEF MemoryIs, Accounted
<1> QED
  BY <1>2, <1>3, <1>4, AccountKept DEF EngineInv

LEMMA StillStep ==
  ASSUME EngineInv,
         \/ \E w \in Worker : HandleOk(w) \/ HandleFail(w) \/ Deadline(w)
         \/ \E p \in Partition : Revoke(p) \/ \E i \in Instance : Assign(p, i)
         \/ \E i \in Instance : Cancel(i) \/ CloseChans(i)
  PROVE  EngineInv'
<1> USE DEF kafka, dispatcher, workers, history
<1>1. EngineTypes
  BY DEF EngineInv
<1>2. ASSUME NEW w \in Worker, HandleOk(w) \/ HandleFail(w) \/ Deadline(w)
      PROVE  EngineInv'
  <2>1. /\ UNCHANGED <<kafka, dispatcher, workers, settled, forgotten>>
        /\ faults' = faults \/ \E k : Fault(k)
    BY <1>2 DEF HandleOk, HandleFail, Deadline
  <2>2. PositionsStep /\ HistoryTypes
    BY <1>1, <2>1, FaultTypes DEF PositionsStep, CommitsHeld, HistoryTypes, EngineTypes
  <2> QED
    BY <1>1, <2>1, <2>2, StillKeeps DEF EngineTypes
<1>3. ASSUME NEW p \in Partition, Revoke(p) PROVE EngineInv'
  <2>1. PositionsStep /\ HistoryTypes
    BY <1>1, <1>3, FaultTypes DEF Revoke, PositionsStep, CommitsHeld, HistoryTypes, EngineTypes
  <2> QED
    BY <1>1, <1>3, <2>1, StillKeeps DEF Revoke, EngineTypes
<1>4. ASSUME NEW p \in Partition, NEW i \in Instance, Assign(p, i) PROVE EngineInv'
  <2>1. PositionsStep /\ HistoryTypes
    BY <1>1, <1>4 DEF Assign, PositionsStep, CommitsHeld, HistoryTypes, EngineTypes
  <2> QED
    BY <1>1, <1>4, <2>1, StillKeeps DEF Assign, EngineTypes
<1>5. ASSUME NEW i \in Instance, Cancel(i) PROVE EngineInv'
  <2>1. PositionsStep /\ HistoryTypes
    BY <1>1, <1>5, FaultTypes DEF Cancel, PositionsStep, CommitsHeld, HistoryTypes, EngineTypes
  <2> QED
    BY <1>1, <1>5, <2>1, StillKeeps DEF Cancel, EngineTypes
<1>6. ASSUME NEW i \in Instance, CloseChans(i) PROVE EngineInv'
  <2>1. PositionsStep /\ HistoryTypes
    BY <1>1, <1>6 DEF CloseChans, PositionsStep, CommitsHeld, HistoryTypes, EngineTypes
  <2> QED
    BY <1>1, <1>6, <2>1, StillKeeps DEF CloseChans, EngineTypes
<1> QED
  BY <1>2, <1>3, <1>4, <1>5, <1>6

-----------------------------------------------------------------------------
(* The dispatcher.                                                         *)

(* The record that is fetched is accounted for in memory.                  *)
LEMMA FetchKeeps ==
  ASSUME EngineInv, NEW i \in Instance, NEW p \in Partition, Fetch(i, p)
  PROVE  EngineInv'
<1> DEFINE r == <<p, pos[p] + 1>>
<1> USE DEF workers
<1>1. EngineTypes
  BY DEF EngineInv
<1>2. /\ AllRefs' = AllRefs /\ r \in AllRefs /\ r[1] = p /\ r[2] = pos[p] + 1
      /\ Len(log[p]) \in Nat /\ pos[p] \in Nat /\ pos[p] + 1 <= Len(log[p])
  <2>1. Len(log[p]) \in Nat /\ pos[p] \in Nat /\ pos[p] < Len(log[p]) /\ log \in Logs
    BY <1>1, RefFacts DEF Fetch, EngineTypes
  <2>2. pos[p] + 1 \in 1 .. Len(log[p])
    BY <2>1
  <2> QED
    BY <2>1, <2>2, RefFacts DEF Fetch, AllRefs
<1>3. /\ held' = [held EXCEPT ![i] = r] /\ disp' = [disp EXCEPT ![i] = "send"]
      /\ disp[i] = "fetch"
      /\ pos' = [pos EXCEPT ![p] = pos[p] + 1]
      /\ settled' = settled \ {r} /\ forgotten' = forgotten \ {r}
      /\ UNCHANGED <<log, committed, owner, dlq, cancelled, chan, batch, stage, faults>>
  BY DEF Fetch
<1> HIDE DEF r
<1>4. EngineTypes'
  <2>1. /\ held' \in [Instance -> AllRefs \cup {None}]
        /\ disp' \in [Instance -> {"fetch", "send", "done", "down"}]
        /\ pos' \in [Partition -> Nat]
    BY <1>1, <1>2, <1>3 DEF EngineTypes
  <2>2. \A j \in Instance : disp'[j] = "send" => held'[j] \in AllRefs
    BY <1>1, <1>2, <1>3 DEF EngineTypes
  <2>3. \A q \in Partition : committed[q] <= Len(log[q]) /\ pos'[q] <= Len(log[q])
    BY <1>1, <1>2, <1>3 DEF EngineTypes
  <2> QED
    BY <1>1, <1>2, <1>3, <2>1, <2>2, <2>3 DEF EngineTypes
<1>5. ASSUME NEW v \in Worker PROVE WorkerInv(v)'
  <2>1. WorkerInv(v) /\ \A m : SlotOf(m)' = SlotOf(m)
    BY <1>3 DEF EngineInv, SlotOf, RecordAt
  <2>2. HeldBy(v)' = HeldBy(v) /\ v[1] \in Instance
    BY <1>3, WorkerFacts DEF HeldBy
  <2>3. disp'[v[1]] = "down" => disp[v[1]] = "down"
    BY <1>1, <1>3, <2>2 DEF EngineTypes
  <2> QED
    BY <1>3, <2>1, <2>2, <2>3 DEF WorkerInv
<1>6. /\ \A m : m \in InMemory' => m \in InMemory \/ m = r
      /\ \A m : m \in Pending => m \in Pending'
      /\ r \in Pending'
  <2>1. /\ disp'[i] = "send" /\ held'[i] = r /\ disp[i] # "send"
        /\ \A j \in Instance \ {i} : disp'[j] = disp[j] /\ held'[j] = held[j]
    BY <1>1, <1>3 DEF EngineTypes
  <2>2. ASSUME NEW m, m \in InMemory' PROVE m \in InMemory \/ m = r
    BY <1>3, <2>1, <2>2, MemoryFacts DEF MemoryIs
  <2>3. ASSUME NEW m, m \in Pending PROVE m \in Pending'
    BY <1>3, <2>1, <2>3, MemoryFacts DEF MemoryIs
  <2>4. r \in Pending'
    BY <2>1, MemoryFacts DEF MemoryIs
  <2> QED
    BY <2>2, <2>3, <2>4
<1>7. \A m \in Accounted : m \in Accounted'
  BY <1>3, <1>6 DEF Accounted
<1>8. ASSUME NEW m \in AllRefs, m \in Reached' PROVE m \in Reached \/ m = r
  <2>1. m[1] \in Partition /\ m[2] \in Nat /\ m = <<m[1], m[2]>>
    BY <1>1, RefFacts DEF EngineTypes
  <2>2. CASE m[1] = p /\ m[2] <= pos[p] + 1
    <3>1. m[2] <= pos[p] \/ m[2] = pos[p] + 1
      BY <1>2, <2>1, <2>2
    <3> QED
      BY <2>1, <2>2, <3>1 DEF Reached, r
  <2>3. CASE ~ (m[1] = p /\ m[2] <= pos[p] + 1)
    <3>1. \/ m[2] <= committed[m[1]] \/ (m[1] # p /\ m[2] <= pos[m[1]])
          \/ \E n \in InMemory' : n[1] = m[1] /\ m[2] <= n[2]
      BY <1>1, <1>3, <1>8, <2>1, <2>3 DEF Reached, EngineTypes
    <3>2. ASSUME NEW n \in InMemory', n[1] = m[1] /\ m[2] <= n[2] PROVE n \in InMemory
      BY <1>2, <1>6, <2>3, <3>2
    <3> QED
      BY <3>1, <3>2 DEF Reached
  <2> QED
    BY <2>2, <2>3
<1>9. (Reached \subseteq Accounted)'
  <2>1. Reached' \subseteq AllRefs
    BY <1>2 DEF Reached
  <2> QED
    BY <1>6, <1>7, <1>8, <2>1 DEF EngineInv, Accounted
<1> QED
  BY <1>4, <1>5, <1>9 DEF EngineInv

LEMMA SendKeeps ==
  ASSUME EngineInv, NEW i \in Instance, Send(i)
  PROVE  EngineInv'
<1> DEFINE w == <<i, SlotOf(held[i])>>
           c == Append(chan[w], held[i])
<1> USE DEF kafka, history
<1>1. EngineTypes
  BY DEF EngineInv
<1>2. /\ disp[i] = "send" /\ Len(chan[w]) < ChanCap
      /\ chan' = [chan EXCEPT ![w] = c]
      /\ held' = [held EXCEPT ![i] = None]
      /\ disp' = [disp EXCEPT ![i] = IF cancelled[i] THEN "done" ELSE "fetch"]
      /\ UNCHANGED <<log, committed, owner, pos, dlq, cancelled, batch, stage,
                     settled, forgotten, faults>>
  BY DEF Send
<1>3. held[i] \in AllRefs /\ w \in Worker /\ w[1] = i /\ w[2] = SlotOf(held[i])
  BY <1>1, <1>2, RefFacts, WorkerFacts DEF EngineTypes
<1> HIDE DEF w
<1>4. /\ c \in Seq(AllRefs) /\ Len(c) <= ChanCap
      /\ ToSet(c) = ToSet(chan[w]) \cup {held[i]}
  <2>1. chan[w] \in Seq(AllRefs)
    BY <1>1, <1>3 DEF EngineTypes
  <2>2. Len(c) = Len(chan[w]) + 1 /\ c \in Seq(AllRefs) /\ Len(chan[w]) \in Nat
    BY <1>3, <2>1
  <2>3. Len(c) <= ChanCap
    BY <1>2, <2>2, ConsumerAssumption
  <2> QED
    BY <1>3, <2>1, <2>2, <2>3, ToSetFacts
<1> HIDE DEF c
<1>5. /\ chan'[w] = c /\ \A v \in Worker \ {w} : chan'[v] = chan[v]
      /\ chan' \in [Worker -> Seq(AllRefs)]
      /\ AllRefs' = AllRefs
  BY <1>1, <1>2, <1>3, <1>4 DEF EngineTypes, AllRefs
<1>6. /\ disp'[i] \in {"fetch", "done"} /\ \A j \in Instance \ {i} : disp'[j] = disp[j] /\ held'[j] = held[j]
      /\ held' \in [Instance -> AllRefs \cup {None}]
      /\ disp' \in [Instance -> {"fetch", "send", "done", "down"}]
  BY <1>1, <1>2 DEF EngineTypes
<1>7. EngineTypes'
  <2>1. \A j \in Instance : disp'[j] = "send" => held'[j] \in AllRefs
    BY <1>1, <1>6 DEF EngineTypes
  <2>2. \A v \in Worker : Len(chan'[v]) <= ChanCap
    BY <1>1, <1>4, <1>5 DEF EngineTypes
  <2> QED
    BY <1>1, <1>2, <1>5, <1>6, <2>1, <2>2 DEF EngineTypes
<1>8. ASSUME NEW v \in Worker PROVE WorkerInv(v)'
  <2>1. WorkerInv(v) /\ \A m : SlotOf(m)' = SlotOf(m)
    BY <1>2 DEF EngineInv, SlotOf, RecordAt
  <2>2. \A m \in HeldBy(v)' : SlotOf(m)' = v[2]
    <3>1. CASE v = w
      BY <1>2, <1>3, <1>4, <1>5, <2>1, <3>1 DEF WorkerInv, HeldBy
    <3>2. CASE v # w
      BY <1>2, <1>5, <2>1, <3>2 DEF WorkerInv, HeldBy
    <3> QED
      BY <3>1, <3>2
  <2>3. disp'[v[1]] = "down" => disp[v[1]] = "down"
    BY <1>6, WorkerFacts
  <2> QED
    BY <1>2, <2>1, <2>2, <2>3 DEF WorkerInv
<1>9. /\ \A m : m \in InMemory' => m \in InMemory
      /\ \A m : m \in Pending => m \in Pending'
  <2>1. /\ \A v \in Worker : \A m : m \in ToSet(chan'[v]) => m \in ToSet(chan[v]) \/ m = held[i]
        /\ \A v \in Worker : \A m : m \in ToSet(chan[v]) => m \in ToSet(chan'[v])
        /\ held[i] \in ToSet(chan'[w])
    BY <1>4, <1>5
  <2>2. /\ \A j \in Instance : \A m : disp'[j] = "send" /\ m = held'[j] => disp[j] = "send" /\ m = held[j]
        /\ \A j \in Instance : \A m : disp[j] = "send" /\ m = held[j]
             => m = held[i] \/ (disp'[j] = "send" /\ m = held'[j])
    BY <1>6
  <2>3. ASSUME NEW m, m \in InMemory' PROVE m \in InMemory
    BY <1>2, <2>1, <2>2, <2>3, MemoryFacts DEF MemoryIs
  <2>4. ASSUME NEW m, m \in Pending PROVE m \in Pending'
    BY <1>2, <1>3, <2>1, <2>2, <2>4, MemoryFacts DEF MemoryIs
  <2> QED
    BY <2>3, <2>4
<1>10. PositionsStep
  BY <1>1, <1>2 DEF PositionsStep, CommitsHeld, EngineTypes
<1>11. (Reached \subseteq Accounted)'
  BY <1>2, <1>9, <1>10, AccountKept DEF Accounted
<1> QED
  BY <1>7, <1>8, <1>11 DEF EngineInv

-----------------------------------------------------------------------------
(* The life of a process.                                                  *)

(* What a process forgets when it ends is accounted for.                   *)
LEMMA StoppedKeeps ==
  ASSUME EngineInv, NEW i \in Instance, Stopped(i), faults' \in 0 .. MaxFaults,
         UNCHANGED <<log, committed, pos, cancelled, settled>>
  PROVE  EngineInv'
<1> USE DEF Stopped
<1>1. EngineTypes
  BY DEF EngineInv
<1>2. /\ \A v \in Worker : v[1] = i => chan'[v] = <<>> /\ batch'[v] = <<>> /\ stage'[v] = "exited"
      /\ \A v \in Worker : v[1] # i => /\ chan'[v] = chan[v] /\ batch'[v] = batch[v]
                                       /\ stage'[v] = stage[v]
      /\ disp'[i] = "down" /\ \A j \in Instance \ {i} : disp'[j] = disp[j] /\ held'[j] = held[j]
  BY <1>1 DEF EngineTypes
<1>3. AllRefs' = AllRefs
  BY DEF AllRefs
<1>4. InMemoryOf(i) \subseteq AllRefs
  <2>1. \A v \in Worker : HeldBy(v) \subseteq AllRefs
    BY MemoryTypes
  <2>2. Sending({i}) \subseteq AllRefs
    BY <1>1 DEF Sending, EngineTypes
  <2>3. WorkersOf(i) \subseteq Worker
    BY DEF WorkersOf, Worker
  <2> QED
    BY <2>1, <2>2, <2>3 DEF InMemoryOf
<1>5. EngineTypes'
  <2>1. <<>> \in Seq(AllRefs) /\ Len(<<>>) = 0
    OBVIOUS
  <2>2. /\ chan' \in [Worker -> Seq(AllRefs)] /\ batch' \in [Worker -> Seq(AllRefs)]
        /\ \A v \in Worker : Len(chan'[v]) <= ChanCap /\ Len(batch'[v]) <= BatchSize
    BY <1>1, <1>2, <2>1, ConsumerAssumption DEF EngineTypes
  <2>3. /\ stage' \in [Worker -> {"select", "handle", "dlq", "commit", "exited", "dead"}]
        /\ disp' \in [Instance -> {"fetch", "send", "done", "down"}]
        /\ held' \in [Instance -> AllRefs \cup {None}]
        /\ \A j \in Instance : disp'[j] = "send" => held'[j] \in AllRefs
    BY <1>1, <1>2 DEF EngineTypes
  <2>4. owner' \in [Partition -> Instance \cup {None}]
    BY <1>1 DEF Leaves, EngineTypes
  <2>5. forgotten' \subseteq AllRefs /\ dlq' = dlq
    BY <1>1, <1>4 DEF Forget, EngineTypes
  <2> QED
    BY <1>1, <1>3, <2>2, <2>3, <2>4, <2>5 DEF EngineTypes
<1>6. ASSUME NEW v \in Worker PROVE WorkerInv(v)'
  <2>1. WorkerInv(v) /\ \A m : SlotOf(m)' = SlotOf(m)
    BY DEF EngineInv, SlotOf, RecordAt
  <2>2. CASE v[1] = i
    <3>1. HeldBy(v)' = {}
      BY <1>2, <2>2, NothingInEmpty DEF HeldBy
    <3> QED
      BY <1>2, <2>2, <3>1 DEF WorkerInv
  <2>3. CASE v[1] # i
    <3>1. HeldBy(v)' = HeldBy(v) /\ disp'[v[1]] = disp[v[1]]
      BY <1>2, <2>3, WorkerFacts DEF HeldBy
    <3> QED
      BY <1>2, <2>1, <2>3, <3>1 DEF WorkerInv
  <2> QED
    BY <2>2, <2>3
<1>7. ASSUME NEW m, m \in InMemory' PROVE m \in InMemory
  <2>1. \A v \in Worker : m \in ToSet(chan'[v]) \/ m \in ToSet(batch'[v])
           => m \in ToSet(chan[v]) \/ m \in ToSet(batch[v])
    BY <1>2, NothingInEmpty
  <2>2. \A j \in Instance : disp'[j] = "send" /\ m = held'[j] => disp[j] = "send" /\ m = held[j]
    BY <1>2
  <2> QED
    BY <1>7, <2>1, <2>2, MemoryFacts DEF MemoryIs
<1>8. ASSUME NEW m, m \in Accounted PROVE m \in Accounted'
  <2>1. CASE m \in settled \cup dlq \cup forgotten
    BY <2>1 DEF Accounted, Forget
  <2>2. CASE m \in InMemoryOf(i)
    BY <2>2 DEF Accounted, Forget
  <2>3. CASE m \in Pending /\ m \notin InMemoryOf(i)
    <3>1. /\ \A v \in Worker : v[1] = i => m \notin ToSet(chan[v]) /\ m \notin ToSet(batch[v])
          /\ ~ (disp[i] = "send" /\ m = held[i])
      BY <2>3, WorkerFacts DEF InMemoryOf, HeldBy, Sending
    <3>2. CASE \E v \in Worker : m \in ToSet(chan[v]) \/ (m \in ToSet(batch[v]) /\ stage[v] # "commit")
      <4>1. \E v \in Worker : m \in ToSet(chan'[v]) \/ (m \in ToSet(batch'[v]) /\ stage'[v] # "commit")
        BY <1>2, <3>1, <3>2
      <4> QED
        BY <4>1, MemoryFacts DEF MemoryIs, Accounted
    <3>3. CASE \E j \in Instance : disp[j] = "send" /\ m = held[j]
      <4>1. \E j \in Instance : disp'[j] = "send" /\ m = held'[j]
        BY <1>2, <3>1, <3>3
      <4> QED
        BY <4>1, MemoryFacts DEF MemoryIs, Accounted
    <3> QED
      BY <2>3, <3>2, <3>3, MemoryFacts DEF MemoryIs
  <2> QED
    BY <1>8, <2>1, <2>2, <2>3 DEF Accounted
<1>9. PositionsStep
  BY <1>1 DEF PositionsStep, CommitsHeld, EngineTypes
<1> QED
  BY <1>5, <1>6, <1>7, <1>8, <1>9, AccountKept DEF EngineInv

LEMMA RestartKeeps ==
  ASSUME EngineInv, NEW i \in Instance, Restart(i)
  PROVE  EngineInv'
<1> USE DEF Restart, kafka, history
<1>1. EngineTypes
  BY DEF EngineInv
<1>2. /\ \A v \in Worker : v[1] = i => /\ stage'[v] = "select" /\ stage[v] = "exited"
                                       /\ batch[v] = <<>>
      /\ \A v \in Worker : v[1] # i => stage'[v] = stage[v]
      /\ disp[i] = "down" /\ disp'[i] = "fetch"
      /\ \A j \in Instance \ {i} : disp'[j] = disp[j]
  <2>1. \A v \in Worker : v[1] = i => stage[v] = "exited" /\ batch[v] = <<>>
    BY DEF EngineInv, WorkerInv
  <2> QED
    BY <1>1, <2>1 DEF EngineTypes
<1>3. AllRefs' = AllRefs
  BY DEF AllRefs
<1>4. EngineTypes'
  <2>1. /\ stage' \in [Worker -> {"select", "handle", "dlq", "commit", "exited", "dead"}]
        /\ disp' \in [Instance -> {"fetch", "send", "done", "down"}]
        /\ cancelled' \in [Instance -> BOOLEAN]
        /\ \A j \in Instance : disp'[j] = "send" => held'[j] \in AllRefs
    BY <1>1, <1>2 DEF EngineTypes
  <2> QED
    BY <1>1, <1>3, <2>1 DEF EngineTypes
<1>5. ASSUME NEW v \in Worker PROVE WorkerInv(v)'
  <2>1. /\ WorkerInv(v) /\ HeldBy(v)' = HeldBy(v) /\ \A m : SlotOf(m)' = SlotOf(m)
    BY DEF EngineInv, SlotOf, RecordAt, HeldBy
  <2>2. CASE v[1] = i
    <3>1. Len(batch'[v]) < BatchSize
      BY <1>2, <2>2, ConsumerAssumption
    <3> QED
      BY <1>2, <2>1, <2>2, <3>1 DEF WorkerInv
  <2>3. CASE v[1] # i
    BY <1>2, <2>1, <2>3, WorkerFacts DEF WorkerInv
  <2> QED
    BY <2>2, <2>3
<1>6. ASSUME NEW m PROVE /\ m \in InMemory' => m \in InMemory
                         /\ m \in Pending => m \in Pending'
  <2>1. \A j \in Instance : disp'[j] = "send" <=> disp[j] = "send"
    BY <1>2
  <2>2. \A v \in Worker : /\ chan'[v] = chan[v] /\ batch'[v] = batch[v]
                          /\ stage'[v] = "commit" <=> stage[v] = "commit"
    BY <1>2
  <2> QED
    BY <2>1, <2>2, MemoryFacts DEF MemoryIs
<1>7. PositionsStep
  BY <1>1 DEF PositionsStep, CommitsHeld, EngineTypes
<1> QED
  BY <1>4, <1>5, <1>6, <1>7, AccountKept DEF EngineInv, Accounted

LEMMA EngineInvStep ==
  ASSUME EngineInv, [Next]_vars
  PROVE  EngineInv'
<1>1. ASSUME NEW w \in Worker, WorkerStep(w) PROVE EngineInv'
  BY <1>1, ReceiveKeeps, FlushKeeps, ExitKeeps, ResultKeeps, DlqOkKeeps, DlqFailKeeps,
     CommitKeeps, StillStep DEF WorkerStep, FlushStep
<1>2. ASSUME NEW w \in Worker, Deadline(w) PROVE EngineInv'
  BY <1>2, StillStep
<1>3. ASSUME NEW i \in Instance, Dispatcher(i) PROVE EngineInv'
  BY <1>3, FetchKeeps, SendKeeps, StillStep DEF Dispatcher
<1>4. ASSUME NEW i \in Instance, Cancel(i) PROVE EngineInv'
  BY <1>4, StillStep
<1>5. ASSUME NEW p \in Partition, Revoke(p) \/ \E i \in Instance : Assign(p, i)
      PROVE  EngineInv'
  BY <1>5, StillStep
<1>6. ASSUME NEW i \in Instance, Leave(i) PROVE EngineInv'
  BY <1>6, StoppedKeeps DEF Leave, EngineInv, EngineTypes
<1>7. ASSUME NEW i \in Instance, Crash(i) PROVE EngineInv'
  BY <1>7, StoppedKeeps, FaultTypes DEF Crash
<1>8. ASSUME NEW i \in Instance, Restart(i) PROVE EngineInv'
  BY <1>8, RestartKeeps
<1>9. CASE UNCHANGED vars
  <2>1. PositionsStep /\ HistoryTypes
    BY <1>9 DEF vars, kafka, history, PositionsStep, CommitsHeld, HistoryTypes, EngineInv, EngineTypes
  <2> QED
    BY <1>9, <2>1, StillKeeps DEF vars, kafka, dispatcher, workers, history, EngineInv, EngineTypes
<1> QED
  BY <1>1, <1>2, <1>3, <1>4, <1>5, <1>6, <1>7, <1>8, <1>9 DEF Next

-----------------------------------------------------------------------------
(* What is proved about UpdSvr holds of the handlers of the engine.        *)

LEMMA UpdSvrFacts ==
  /\ Serves \in [Worker -> SUBSET Client]
  /\ MaxRetries \in Nat \ {0}
BY ConsumerAssumption DEF Serves

LEMMA SameNext == [U!Next]_(U!vars) <=> [UP!Next]_(UP!vars)
BY DEF U!vars, UP!vars, U!handler, UP!handler,
   U!Next, UP!Next, U!Call, UP!Call, U!Begin, UP!Begin, U!Goto, UP!Goto,
   U!Expire, UP!Expire, U!Step, UP!Step, U!CreateOk, UP!CreateOk,
   U!CreateFail, UP!CreateFail, U!DeleteOk, UP!DeleteOk, U!DeleteFail, UP!DeleteFail,
   U!QueryOk, UP!QueryOk, U!QueryFail, UP!QueryFail, U!SyncOk, UP!SyncOk,
   U!SyncFail, UP!SyncFail, U!Return, UP!Return, U!Crash, UP!Crash,
   U!Forget, UP!Forget, U!RetryOrFail, UP!RetryOrFail, U!Touched, UP!Touched,
   U!DelOnly, UP!DelOnly, U!ClientsOf, UP!ClientsOf, U!Running, UP!Running,
   U!BatchCreateOrders, UP!BatchCreateOrders, U!BatchDeleteOrders, UP!BatchDeleteOrders,
   U!GetActiveClients, UP!GetActiveClients, U!HasOrders, UP!HasOrders,
   U!PipeExec, UP!PipeExec, U!OrderKey, UP!OrderKey

LEMMA SameTypes == /\ U!TypeOK <=> UP!TypeOK
                   /\ U!TypeOK' <=> UP!TypeOK'
BY DEF U!TypeOK, UP!TypeOK, U!StoresTypeOK, UP!StoresTypeOK, U!Phase, UP!Phase,
   U!OrderKey, UP!OrderKey

LEMMA SameInit == U!Init <=> UP!Init
BY DEF U!Init, UP!Init, U!StoresInit, UP!StoresInit, U!HandlerInit, UP!HandlerInit

-----------------------------------------------------------------------------
(* The theorems.                                                           *)

LEMMA InitConsumerInv == Init => ConsumerInv
<1> SUFFICES ASSUME Init PROVE ConsumerInv
  OBVIOUS
<1>1. UP!HandlerInv
  BY InitImplements, SameInit, UpdSvrFacts, UP!InitHandlerInv
<1>2. UP!TypeOK
  BY <1>1 DEF UP!HandlerInv
<1> QED
  BY <1>2, SameTypes, InitEngineInv, InvParts

LEMMA ConsumerInvStep == ConsumerInv /\ [Next]_vars => ConsumerInv'
<1> SUFFICES ASSUME ConsumerInv, [Next]_vars PROVE ConsumerInv'
  OBVIOUS
<1>1. EngineInv /\ U!TypeOK
  BY InvParts
<1>2. [UP!Next]_(UP!vars)
  BY <1>1, StepImplements, SameNext
<1>3. UP!TypeOK'
  BY <1>1, <1>2, SameTypes, UpdSvrFacts, UP!TypeStep
<1> QED
  BY <1>1, <1>3, SameTypes, EngineInvStep, InvParts

(* Every state of the consumer group satisfies the inductive invariant.    *)
THEOREM ConsumerSafe == Spec => []ConsumerInv
BY InitConsumerInv, ConsumerInvStep, PTL DEF Spec

(* The variables of the engine keep their types and bounds: channels and   *)
(* batches never exceed their capacity, no offset beyond the end of its    *)
(* partition is committed.                                                 *)
THEOREM ConsumerTypeCorrect == Spec => []TypeOK
<1>1. ConsumerInv => TypeOK
  BY DEF ConsumerInv
<1> QED
  BY <1>1, ConsumerSafe, PTL

(* Whatever crashes, restarts, moves or fails, a record below the          *)
(* committed offset of its partition was handled, put aside, is still held *)
(* by a process, or was forgotten in one of the two ways the findings show.*)
THEOREM CommitsAccounted == Spec => []CommittedAccounted
<1>1. ConsumerInv => CommittedAccounted
  <2> SUFFICES ASSUME ConsumerInv, NEW m \in Processed
               PROVE  m \in settled \cup dlq \cup InMemory \cup forgotten
    BY DEF CommittedAccounted
  <2>1. m \in Accounted
    BY DEF ConsumerInv, Processed, Reached
  <2>2. m \in Pending => m \in InMemory
    BY MemoryFacts DEF MemoryIs
  <2> QED
    BY <2>1, <2>2 DEF Accounted
<1> QED
  BY <1>1, ConsumerSafe, PTL

(* The engine calls HandleBatch as UpdSvr assumes: the consumer group      *)
(* implements the component on its own.                                    *)
THEOREM EngineImplementsUpdSvr == Spec => ImplementsUpdSvr
<1>1. ConsumerInv /\ [Next]_vars => [U!Next]_(U!vars)
  BY StepImplements, InvParts
<1> QED
  BY <1>1, InitImplements, ConsumerSafe, PTL DEF Spec, ImplementsUpdSvr, U!Spec

SingleProcess == \A i, j \in Instance : i = j

LEMMA OneWorkerEach == ASSUME SingleProcess PROVE UP!OneWorkerPerClient
<1> SUFFICES ASSUME NEW v \in Worker, NEW w \in Worker, v # w
             PROVE  Serves[v] \cap Serves[w] = {}
  BY DEF UP!OneWorkerPerClient
<1>1. v[2] # w[2]
  BY DEF SingleProcess, Worker
<1> QED
  BY <1>1 DEF Serves

(* What is proved about any handlers with a worker per client carries over *)
(* to the engine of a single process.                                      *)
LEMMA SingleSafe ==
  ASSUME SingleProcess
  PROVE  Spec => [](ConsumerInv /\ UP!HandlerInv)
<1>1. Init => UP!HandlerInv
  BY InitImplements, SameInit, UpdSvrFacts, UP!InitHandlerInv
<1>2. ConsumerInv /\ UP!HandlerInv /\ [Next]_vars => UP!HandlerInv'
  <2> SUFFICES ASSUME ConsumerInv, UP!HandlerInv, [Next]_vars PROVE UP!HandlerInv'
    OBVIOUS
  <2>1. [UP!Next]_(UP!vars)
    BY StepImplements, InvParts, SameNext
  <2> QED
    BY <2>1, OneWorkerEach, UpdSvrFacts, UP!HandlerInvStep, UP!ServedStep
<1> QED
  BY <1>1, <1>2, ConsumerSafe, PTL DEF Spec

(* Within a process no two workers ever handle the same client at a time,  *)
(* however records are batched, retried and delivered again.               *)
THEOREM HandlersApart ==
  ASSUME SingleProcess
  PROVE  Spec => []OneHandlerPerClient
<1>1. UP!HandlerInv => OneHandlerPerClient
  <2> SUFFICES ASSUME UP!HandlerInv, NEW v \in Worker, NEW w \in Worker, v # w
               PROVE  U!Touched(v) \cap U!Touched(w) = {}
    BY DEF OneHandlerPerClient
  <2>1. UP!Touched(v) \subseteq Serves[v] /\ UP!Touched(w) \subseteq Serves[w]
    BY DEF UP!HandlerInv, UP!BatchInv
  <2>2. U!Touched(v) = UP!Touched(v) /\ U!Touched(w) = UP!Touched(w)
    BY DEF U!Touched, UP!Touched, U!ClientsOf, UP!ClientsOf
  <2> QED
    BY <2>1, <2>2, OneWorkerEach DEF UP!OneWorkerPerClient
<1> QED
  BY <1>1, SingleSafe, PTL

LEMMA HandlersAgree == UP!HandlerInv => StoresAgree
BY DEF UP!HandlerInv, StoresAgree, U!SyncedClientsAgree, UP!SyncedClientsAgree,
   U!InFlight, UP!InFlight, U!Touched, UP!Touched, U!ClientsOf, UP!ClientsOf,
   U!Running, UP!Running, U!HasOrders, UP!HasOrders

(* With a single process, through crashes, restarts, redeliveries and the  *)
(* moves of partitions, MySQL and Redis agree about every client of no     *)
(* running batch whose last update was not cut off or lost.                *)
THEOREM GroupStoresAgree ==
  ASSUME SingleProcess
  PROVE  Spec => []StoresAgree
BY HandlersAgree, SingleSafe, PTL

=============================================================================
