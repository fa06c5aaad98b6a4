------------------------ MODULE ProducerSync_proofs ------------------------
(***************************************************************************)
(* Theorems about the synchronous producer and the configuration: for any  *)
(* number of senders and workers, any orders, any number of tries, and any *)
(* file and environment with integers in it.                               *)
(***************************************************************************)
EXTENDS ProducerSync, Offsets

USE ProducerSyncAssumption

-----------------------------------------------------------------------------
(* The configuration.                                                      *)

(* Whatever the file and the environment hold, LoadConfig returns a number *)
(* for every key: the variable if it is one and the key has one, else that *)
(* of the file, else the default (config.go:123).                          *)
LEMMA Loaded ==
  ASSUME NEW f \in Files, NEW e \in Envs
  PROVE  /\ LoadConfig(f, e) \in [Key -> Int]
         /\ \A k \in EnvKey : e[k] \notin {Unset, Bad} => LoadConfig(f, e)[k] = e[k]
         /\ \A k \in Key : k \notin EnvKey \/ e[k] \in {Unset, Bad} =>
              LoadConfig(f, e)[k] = IF k \in DOMAIN f THEN f[k] ELSE SetDefault[k]
<1>1. SetDefault \in [Key -> Int]
  BY DEF SetDefault, Key
<1>2. Unmarshal(f, SetDefault) \in [Key -> Int]
  BY <1>1 DEF Unmarshal
<1>3. \A k \in EnvKey : k \in Key /\ e[k] \in Int \cup {Unset, Bad}
  BY DEF EnvKey
<1> QED
  BY <1>2, <1>3 DEF LoadConfig, Override, Unmarshal

LEMMA QuotientOfPositives ==
  ASSUME NEW a \in Int, NEW b \in Int, a > 0, b > 0
  PROVE  Quotient(a, b) >= 0
BY DEF Quotient

LEMMA Defaults ==
  /\ SetDefault["worker_num"] > 0 /\ SetDefault["max_queue_size"] > 0
  /\ SetDefault["db_batch_size"] = 0 /\ SetDefault["db_batch_tout"] = 0
  /\ {"worker_num", "max_queue_size"} \subseteq EnvKey
  /\ {"db_batch_size", "db_batch_tout"} \subseteq Key \ EnvKey
BY DEF SetDefault, Key, EnvKey

(* Of the numbers a consumer computes with, only db_batch_tout has to be   *)
(* in the file: for every file and environment, not only those of the run. *)
THEOREM BatchToutIsNeeded == OnlyBatchToutIsNeeded
<1> SUFFICES ASSUME NEW f \in Files, NEW e \in Envs,
                    \A k \in DOMAIN f : f[k] > 0,
                    \A k \in EnvKey : e[k] \in {Unset, Bad} \/ e[k] > 0
             PROVE  ConsumerStart(LoadConfig(f, e)) =
                      IF "db_batch_tout" \in DOMAIN f THEN "runs" ELSE "dead workers"
  BY DEF OnlyBatchToutIsNeeded
<1> DEFINE c == LoadConfig(f, e)
<1>1. c \in [Key -> Int]
  BY Loaded
<1>2. \A k \in {"worker_num", "max_queue_size"} : c[k] > 0
  <2> TAKE k \in {"worker_num", "max_queue_size"}
  <2>0. k \in EnvKey /\ k \in Key /\ SetDefault[k] > 0
    BY Defaults DEF EnvKey
  <2>1. CASE e[k] \in {Unset, Bad}
    <3>1. c[k] = IF k \in DOMAIN f THEN f[k] ELSE SetDefault[k]
      BY <2>0, <2>1, Loaded
    <3> QED
      BY <2>0, <3>1
  <2>2. CASE e[k] \notin {Unset, Bad}
    BY <2>2, Loaded, Defaults
  <2> QED
    BY <2>1, <2>2
<1>3. \A k \in {"db_batch_size", "db_batch_tout"} :
        c[k] = IF k \in DOMAIN f THEN f[k] ELSE 0
  BY Loaded, Defaults
<1>4. c["worker_num"] \in Int /\ c["max_queue_size"] \in Int
  <2>1. "worker_num" \in Key /\ "max_queue_size" \in Key
    BY DEF Key
  <2> HIDE DEF c
  <2> QED
    BY <1>1, <2>1
<1> HIDE DEF c
<1>5. Quotient(c["max_queue_size"], c["worker_num"]) >= 0
  BY <1>2, <1>4, QuotientOfPositives
<1>6. Quotient(c["max_queue_size"], c["worker_num"]) \in Int
  BY <1>2, <1>4 DEF Quotient
<1>7. ConsumerStart(c) = IF c["db_batch_size"] < 0 \/ c["db_batch_tout"] <= 0
                         THEN "dead workers" ELSE "runs"
  <2> DEFINE q == Quotient(c["max_queue_size"], c["worker_num"])
  <2>1. ~(q + 1 < 0) /\ q + 1 >= 0
    BY <1>5, <1>6
  <2>2. ~(c["worker_num"] < 0) /\ c["worker_num"] # 0 /\ c["worker_num"] > 0
    BY <1>2, <1>4
  <2> HIDE DEF q
  <2> QED
    BY <2>1, <2>2 DEF ConsumerStart, q
<1>8. ~(c["db_batch_size"] < 0) /\ (c["db_batch_tout"] <= 0 <=> "db_batch_tout" \notin DOMAIN f)
  BY <1>3
<1> QED
  BY <1>7, <1>8 DEF c

-----------------------------------------------------------------------------
(* Types.                                                                  *)

LEMMA InitTypeOK == Init => TypeOK
<1> SUFFICES ASSUME Init PROVE TypeOK
  OBVIOUS
<1>1. cfg \in [Key -> Int]
  BY Loaded DEF Init
<1>2. 0 \in 0 .. MaxTries - 1 /\ 0 \in 0 .. MaxAttempts
  OBVIOUS
<1>3. panicked \in BOOLEAN
  BY DEF Init
<1>4. <<>> \in Seq(Message)
  OBVIOUS
<1> QED
  BY <1>1, <1>2, <1>3, <1>4 DEF Init, TypeOK

(* What the steps that send, hold and write do to the types.               *)
LEMMA SenderTypes ==
  ASSUME TypeOK, NEW s \in Sender, SenderStep(s)
  PROVE  TypeOK'
<1>1. ASSUME NEW o \in Order, SendOrder(s, o) PROVE TypeOK'
  <2>1. attempt' \in 1 .. MaxAttempts /\ <<attempt', o>> \in Message
    BY <1>1 DEF SendOrder, TypeOK, Message
  <2> QED
    BY <1>1, <2>1 DEF SendOrder, TypeOK, pool, Message
<1>2. ASSUME NEW o \in Order, Reject(s, o) PROVE TypeOK'
  BY <1>2 DEF Reject, TypeOK, vars, pool, counters, Message
<1>3. CASE Enqueue(s)
  <2>1. offering[s] \in Message
    BY <1>3 DEF Enqueue, Accept, TypeOK
  <2>2. /\ taskChan' \in Seq(Message) /\ accepted' \in Seq(Message)
        /\ Len(taskChan') = Len(taskChan) + 1
    BY <1>3, <2>1 DEF Enqueue, Accept, TypeOK
  <2>3. Len(taskChan') <= cfg["max_queue_size"]
    <3>1. Len(taskChan) \in Nat /\ cfg["max_queue_size"] \in Int
      BY DEF TypeOK, Key
    <3> QED
      BY <1>3, <2>2, <3>1 DEF Enqueue
  <2> QED
    BY <1>3, <2>2, <2>3 DEF Enqueue, Accept, TypeOK, pool, counters, Message
<1>4. CASE GiveUp(s)
  BY <1>4 DEF GiveUp, TypeOK, pool, Message
<1>5. CASE SendPanics(s)
  BY <1>5 DEF SendPanics, TypeOK, pool, counters, Message
<1> QED
  BY <1>1, <1>2, <1>3, <1>4, <1>5 DEF SenderStep

LEMMA WorkerTypes ==
  ASSUME TypeOK, NEW w \in Pool, WorkerStep(w)
  PROVE  TypeOK'
<1>1. CASE Take(w)
  <2>1. /\ Head(taskChan) \in Message /\ taskChan' \in Seq(Message)
        /\ Len(taskChan') = Len(taskChan) - 1 /\ Len(taskChan) \in Nat
    BY <1>1 DEF Take, TypeOK
  <2>2. Len(taskChan') <= cfg["max_queue_size"]
    <3>1. cfg["max_queue_size"] \in Int
      BY DEF TypeOK, Key
    <3> QED
      BY <1>1, <2>1, <3>1 DEF Take, TypeOK
  <2>3. 0 \in 0 .. MaxTries - 1
    OBVIOUS
  <2> QED
    BY <1>1, <2>1, <2>2, <2>3 DEF Take, Hold, TypeOK, counters, Message
<1>2. ASSUME NEW s \in Sender, HandOver(s, w) PROVE TypeOK'
  <2>1. offering[s] \in Message
    BY <1>2 DEF HandOver, Accept, TypeOK
  <2>2. accepted' \in Seq(Message)
    BY <1>2, <2>1 DEF HandOver, Accept, TypeOK
  <2>3. 0 \in 0 .. MaxTries - 1
    OBVIOUS
  <2> QED
    BY <1>2, <2>1, <2>2, <2>3 DEF HandOver, Accept, Hold, TypeOK, counters, Message
<1>3. ASSUME holding[w] # None PROVE Append(topic, holding[w]) \in Seq(Message)
  BY <1>3 DEF TypeOK
<1>4. CASE WriteOk(w)
  BY <1>3, <1>4 DEF WriteOk, TypeOK, Message
<1>5. CASE Retry(w)
  <2>1. tries' \in [Pool -> 0 .. MaxTries - 1]
    BY <1>5 DEF Retry, TypeOK
  <2> QED
    BY <1>3, <1>5, <2>1 DEF Retry, Failed, TypeOK, Message
<1>6. CASE Drop(w)
  <2>1. topic' \in Seq(Message)
    BY <1>3, <1>6 DEF Drop, Failed, TypeOK
  <2>2. fail' \in Nat
    BY <1>6 DEF Drop, TypeOK
  <2>3. holding' \in [Pool -> Message \cup {None}]
    BY <1>6 DEF Drop, TypeOK
  <2> QED
    BY <1>6, <2>1, <2>2, <2>3 DEF Drop, Failed, TypeOK, Message
<1>7. CASE Exit(w)
  BY <1>7 DEF Exit, TypeOK, counters, Message
<1> QED
  BY <1>1, <1>2, <1>4, <1>5, <1>6, <1>7 DEF WorkerStep

LEMMA NextTypeOK ==
  ASSUME TypeOK, [Next]_vars
  PROVE  TypeOK'
<1>1. CASE Close
  BY <1>1 DEF Close, SetClosed, CloseChan, WaitDone, TypeOK, pool, counters, Message
<1>2. CASE UNCHANGED vars
  BY <1>2 DEF vars, pool, counters, TypeOK, Message
<1> QED
  BY <1>1, <1>2, SenderTypes, WorkerTypes DEF Next

-----------------------------------------------------------------------------
(* The counters.                                                           *)

(* How many members of S have something in f.                              *)
Count(S, f) == Cardinality({x \in S : f[x] # None})

LEMMA CountType == \A S, f : IsFiniteSet(S) => Count(S, f) \in Nat
<1> SUFFICES ASSUME NEW S, NEW f, IsFiniteSet(S) PROVE Count(S, f) \in Nat
  OBVIOUS
<1> DEFINE busy == {x \in S : f[x] # None}
<1>1. busy \subseteq S
  OBVIOUS
<1> HIDE DEF busy
<1>2. Cardinality(busy) \in Nat
  BY <1>1, FS_Subset, FS_CardinalityType
<1> QED
  BY <1>2 DEF Count, busy

(* x has something in g, and nothing in f; for the rest they agree.        *)
OneMore(S, f, g, x) ==
  x \in S /\ f[x] = None /\ g[x] # None /\ \A y \in S : y # x => g[y] = f[y]

LEMMA CountOneMore ==
  ASSUME NEW S, IsFiniteSet(S), NEW f, NEW g, NEW x, OneMore(S, f, g, x)
  PROVE  Count(S, g) = Count(S, f) + 1
<1> DEFINE before == {y \in S : f[y] # None}
           after == {y \in S : g[y] # None}
<1>1. before \subseteq S /\ x \notin before /\ after = before \cup {x}
  BY DEF OneMore
<1>2. Count(S, g) = Cardinality(after) /\ Count(S, f) = Cardinality(before)
  BY DEF Count
<1> HIDE DEF before, after
<1>3. IsFiniteSet(before)
  BY <1>1, FS_Subset
<1>4. Cardinality(before \cup {x}) = Cardinality(before) + 1
  BY <1>1, <1>3, FS_AddElement
<1> QED
  BY <1>1, <1>2, <1>4

LEMMA Sums ==
  /\ CountersAddUp <=>
       attempt = succ + fail + Len(taskChan) + Count(Pool, holding) + Count(Sender, offering)
  /\ CountersAddUp' <=>
       attempt' = succ' + fail' + Len(taskChan') + Count(Pool, holding') + Count(Sender, offering')
BY DEF CountersAddUp, Count

LEMMA InitCounters == Init => CountersAddUp
<1> SUFFICES ASSUME Init PROVE CountersAddUp
  OBVIOUS
<1>1. {w \in Pool : holding[w] # None} = {} /\ {s \in Sender : offering[s] # None} = {}
  BY DEF Init
<1>2. Cardinality({}) = 0 /\ Len(taskChan) = 0 /\ attempt = 0 /\ succ = 0 /\ fail = 0
  BY FS_EmptySet DEF Init
<1>3. Count(Pool, holding) = 0 /\ Count(Sender, offering) = 0
  BY <1>1, <1>2, Zenon DEF Count
<1> QED
  BY <1>2, <1>3, Sums

LEMMA NextCounters ==
  ASSUME TypeOK, CountersAddUp, [Next]_vars
  PROVE  CountersAddUp'
<1> DEFINE h == Count(Pool, holding)   hh == Count(Pool, holding')
           o == Count(Sender, offering) oo == Count(Sender, offering')
           Total == attempt' = succ' + fail' + Len(taskChan') + hh + oo
<1>1. /\ attempt \in Nat /\ succ \in Nat /\ fail \in Nat /\ Len(taskChan) \in Nat
      /\ h \in Nat /\ o \in Nat /\ hh \in Nat /\ oo \in Nat
      /\ attempt = succ + fail + Len(taskChan) + h + o
  <2>1. h \in Nat /\ o \in Nat /\ hh \in Nat /\ oo \in Nat
    BY CountType
  <2> QED
    BY <2>1, Sums DEF TypeOK
<1>2. /\ \A w \in Pool : OneMore(Pool, holding, holding', w) => hh = h + 1
      /\ \A w \in Pool : OneMore(Pool, holding', holding, w) => h = hh + 1
      /\ \A s \in Sender : OneMore(Sender, offering, offering', s) => oo = o + 1
      /\ \A s \in Sender : OneMore(Sender, offering', offering, s) => o = oo + 1
      /\ holding' = holding => hh = h
      /\ offering' = offering => oo = o
  BY CountOneMore
<1> SUFFICES Total
  BY Sums
<1> HIDE DEF h, hh, o, oo
<1>3. /\ DOMAIN holding = Pool /\ DOMAIN offering = Sender
      /\ \A w \in Pool : \A m : holding' = [holding EXCEPT ![w] = m] =>
           holding'[w] = m /\ \A v \in Pool : v # w => holding'[v] = holding[v]
      /\ \A s \in Sender : \A m : offering' = [offering EXCEPT ![s] = m] =>
           offering'[s] = m /\ \A t \in Sender : t # s => offering'[t] = offering[t]
  BY DEF TypeOK
<1>4. ASSUME NEW s \in Sender, NEW q \in Order, SendOrder(s, q) PROVE Total
  <2>1. <<attempt', q>> # None
    BY <1>4 DEF SendOrder, TypeOK
  <2>2. OneMore(Sender, offering, offering', s)
    BY <1>3, <1>4, <2>1 DEF SendOrder, OneMore
  <2>3. /\ attempt' = attempt + 1 /\ succ' = succ /\ fail' = fail
        /\ taskChan' = taskChan /\ holding' = holding
    BY <1>4 DEF SendOrder, pool
  <2> QED
    BY <1>1, <1>2, <2>2, <2>3
<1>5. \A s \in Sender : Accept(s) \/ GiveUp(s) => OneMore(Sender, offering', offering, s)
  BY <1>3 DEF Accept, GiveUp, OneMore
<1>6. ASSUME NEW s \in Sender, Enqueue(s) PROVE Total
  <2>1. /\ Len(taskChan') = Len(taskChan) + 1
        /\ UNCHANGED <<attempt, succ, fail, holding>> /\ Accept(s)
    BY <1>6 DEF Enqueue, Accept, TypeOK, counters, pool
  <2> QED
    BY <1>1, <1>2, <1>5, <2>1
<1>7. ASSUME NEW s \in Sender, GiveUp(s) PROVE Total
  <2>1. fail' = fail + 1 /\ UNCHANGED <<attempt, succ, taskChan, holding>>
    BY <1>7 DEF GiveUp, pool
  <2> QED
    BY <1>1, <1>2, <1>5, <1>7, <2>1
<1>8. \A w \in Pool : \A m : Hold(w, m) /\ m # None => OneMore(Pool, holding, holding', w)
  BY <1>3 DEF Hold, OneMore
<1>9. ASSUME NEW w \in Pool, Take(w) PROVE Total
  <2>1. /\ Head(taskChan) # None /\ Len(taskChan') = Len(taskChan) - 1
        /\ UNCHANGED <<attempt, succ, fail, offering>> /\ Hold(w, Head(taskChan))
    BY <1>9 DEF Take, TypeOK, Message, counters
  <2> QED
    BY <1>1, <1>2, <1>8, <2>1
<1>10. ASSUME NEW w \in Pool, NEW s \in Sender, HandOver(s, w) PROVE Total
  <2>1. /\ offering[s] # None /\ Accept(s) /\ Hold(w, offering[s])
        /\ UNCHANGED <<attempt, succ, fail, taskChan>>
    BY <1>10 DEF HandOver, Accept, counters
  <2> QED
    BY <1>1, <1>2, <1>5, <1>8, <2>1
<1>11. ASSUME NEW w \in Pool, WriteOk(w) \/ Drop(w) PROVE Total
  <2>1. OneMore(Pool, holding', holding, w)
    BY <1>3, <1>11 DEF WriteOk, Drop, Failed, OneMore
  <2>2. /\ UNCHANGED <<attempt, taskChan, offering>>
        /\ \/ succ' = succ + 1 /\ fail' = fail
           \/ succ' = succ /\ fail' = fail + 1
    BY <1>11 DEF WriteOk, Drop, Failed
  <2> QED
    BY <1>1, <1>2, <2>1, <2>2
<1>12. ASSUME UNCHANGED <<counters, taskChan, holding, offering>> PROVE Total
  BY <1>1, <1>2, <1>12 DEF counters
<1>13. \A s \in Sender, q \in Order :
         Reject(s, q) => UNCHANGED <<counters, taskChan, holding, offering>>
  BY DEF Reject, vars, pool
<1>14. \A s \in Sender : SendPanics(s) => UNCHANGED <<counters, taskChan, holding, offering>>
  BY DEF SendPanics, pool
<1>15. \A w \in Pool :
         Exit(w) \/ Retry(w) => UNCHANGED <<counters, taskChan, holding, offering>>
  BY DEF Exit, Retry, Failed, counters
<1>16. Close \/ UNCHANGED vars => UNCHANGED <<counters, taskChan, holding, offering>>
  BY DEF Close, vars, pool
<1> HIDE DEF Total
<1> QED
  BY <1>4, <1>6, <1>7, <1>9, <1>10, <1>11, <1>12, <1>13, <1>14, <1>15, <1>16
     DEF Next, SenderStep, WorkerStep

-----------------------------------------------------------------------------
(* The pool.                                                               *)

LEMMA InitPool == Init => PoolInv
<1> SUFFICES ASSUME Init PROVE PoolInv
  OBVIOUS
<1> QED
  BY DEF Init, PoolInv

LEMMA NextPool ==
  ASSUME TypeOK, PoolInv, [Next]_vars
  PROVE  PoolInv'
<1>0. UNCHANGED cfg => Worker' = Worker
  BY DEF Worker
<1>1. ASSUME NEW s \in Sender, NEW o \in Order, SendOrder(s, o) PROVE PoolInv'
  BY <1>0, <1>1 DEF SendOrder, PoolInv, pool
<1>2. ASSUME NEW s \in Sender, Enqueue(s) PROVE PoolInv'
  BY <1>0, <1>2 DEF Enqueue, Accept, PoolInv, pool
<1>3. ASSUME NEW s \in Sender, GiveUp(s) \/ SendPanics(s) PROVE PoolInv'
  BY <1>0, <1>3 DEF GiveUp, SendPanics, PoolInv, pool
<1>4. ASSUME NEW w \in Pool, Take(w) PROVE PoolInv'
  <2>1. \A v \in Pool : ~gone[v]
    BY <1>4 DEF Take, PoolInv
  <2>2. \A v \in Pool : v # w => holding'[v] = holding[v]
    BY <1>4 DEF Take, Hold, TypeOK
  <2>3. w \in Worker /\ UNCHANGED <<cfg, closing, gone>>
    BY <1>4 DEF Take, Hold
  <2> QED
    BY <1>0, <2>1, <2>2, <2>3 DEF PoolInv
<1>5. ASSUME NEW w \in Pool, NEW s \in Sender, HandOver(s, w) PROVE PoolInv'
  <2>1. \A v \in Pool : ~gone[v]
    BY <1>5 DEF HandOver, Accept, PoolInv
  <2>2. \A v \in Pool : v # w => holding'[v] = holding[v]
    BY <1>5 DEF HandOver, Hold, TypeOK
  <2>3. w \in Worker /\ UNCHANGED <<cfg, closing, gone>>
    BY <1>5 DEF HandOver, Hold, Accept
  <2> QED
    BY <1>0, <2>1, <2>2, <2>3 DEF PoolInv
<1>6. ASSUME NEW w \in Pool, WriteOk(w) \/ Drop(w) PROVE PoolInv'
  <2>1. \A v \in Pool : holding'[v] \in {holding[v], None}
    BY <1>6 DEF WriteOk, Drop, TypeOK
  <2>2. UNCHANGED <<cfg, closing, gone, taskChan>>
    BY <1>6 DEF WriteOk, Drop, Failed
  <2> QED
    BY <1>0, <2>1, <2>2 DEF PoolInv
<1>7. ASSUME NEW w \in Pool, Retry(w) PROVE PoolInv'
  BY <1>0, <1>7 DEF Retry, Failed, PoolInv
<1>8. ASSUME NEW w \in Pool, Exit(w) PROVE PoolInv'
  <2>1. \A v \in Pool : gone'[v] => gone[v] \/ v = w
    BY <1>8 DEF Exit, TypeOK
  <2>2. \A v \in Pool : gone[v] => gone'[v]
    BY <1>8 DEF Exit, TypeOK
  <2> QED
    BY <1>0, <1>8, <2>1, <2>2 DEF Exit, PoolInv, Worker
<1>9. CASE Close
  BY <1>0, <1>9 DEF Close, SetClosed, CloseChan, WaitDone, PoolInv, pool
<1>10. ASSUME UNCHANGED vars PROVE PoolInv'
  BY <1>0, <1>10 DEF vars, pool, PoolInv
<1>11. \A s \in Sender, o \in Order : Reject(s, o) => UNCHANGED vars
  BY DEF Reject
<1> QED
  BY <1>1, <1>2, <1>3, <1>4, <1>5, <1>6, <1>7, <1>8, <1>9, <1>10, <1>11
     DEF Next, SenderStep, WorkerStep

-----------------------------------------------------------------------------
(* The numbers of the messages.                                            *)

LEMMA InitNumbers == Init => NumbersInv
BY DEF Init, NumbersInv

(* A message was offered, or given up, or accepted by a worker or the      *)
(* channel.                                                                *)
LEMMA NextNumbers ==
  ASSUME TypeOK, NumbersInv, [Next]_vars
  PROVE  NumbersInv'
<1>0. /\ attempt \in Nat /\ Len(accepted) \in Nat
      /\ DOMAIN accepted = 1 .. Len(accepted)
      /\ \A n \in DOMAIN accepted : accepted[n][1] \in Nat
      /\ \A s \in Sender : offering[s] # None => offering[s] \in Message /\ offering[s][1] \in Nat
  BY DEF TypeOK, Message
<1>1. ASSUME NEW s \in Sender, NEW o \in Order, SendOrder(s, o) PROVE NumbersInv'
  <2>1. /\ attempt' = attempt + 1 /\ accepted' = accepted
        /\ offering'[s] = <<attempt', o>> /\ offering[s] = None
        /\ \A t \in Sender : t # s => offering'[t] = offering[t]
    BY <1>1 DEF SendOrder, TypeOK
  <2>2. offering'[s][1] = attempt + 1 /\ offering'[s] # None
    BY <1>1, <2>1 DEF SendOrder, TypeOK
  <2>3. \A n \in DOMAIN accepted : accepted[n][1] <= attempt /\ accepted[n] # offering'[s]
    BY <1>0, <2>2 DEF NumbersInv
  <2>4. \A t \in Sender : offering[t] # None =>
          offering[t][1] <= attempt /\ offering[t] # offering'[s]
    BY <1>0, <2>2 DEF NumbersInv
  <2> QED
    BY <1>0, <2>1, <2>2, <2>3, <2>4 DEF NumbersInv
<1>2. ASSUME NEW s \in Sender, Accept(s) PROVE NumbersInv'
  <2>1. /\ attempt' = attempt /\ offering[s] # None
        /\ offering'[s] = None /\ \A t \in Sender : t # s => offering'[t] = offering[t]
    BY <1>2 DEF Accept, TypeOK, counters
  <2>2. /\ DOMAIN accepted' = 1 .. Len(accepted) + 1
        /\ accepted'[Len(accepted) + 1] = offering[s]
        /\ \A n \in DOMAIN accepted : accepted'[n] = accepted[n]
    BY <1>0, <1>2, <2>1 DEF Accept, TypeOK
  <2>3. \A n \in DOMAIN accepted' : n \in DOMAIN accepted \/ n = Len(accepted) + 1
    BY <1>0, <2>2
  <2>4. \A t \in Sender : offering'[t] # None => t # s /\ offering[t] # None
    BY <2>1
  <2> HIDE DEF Message
  <2> QED
    BY <2>1, <2>2, <2>3, <2>4 DEF NumbersInv
<1>3. ASSUME NEW s \in Sender, GiveUp(s) PROVE NumbersInv'
  <2>1. /\ attempt' = attempt /\ accepted' = accepted
        /\ offering'[s] = None /\ \A t \in Sender : t # s => offering'[t] = offering[t]
    BY <1>3 DEF GiveUp, TypeOK
  <2> QED
    BY <2>1 DEF NumbersInv
<1>4. ASSUME UNCHANGED <<attempt, offering, accepted>> PROVE NumbersInv'
  BY <1>4 DEF NumbersInv
<1>5. /\ \A s \in Sender, o \in Order : Reject(s, o) => UNCHANGED <<attempt, offering, accepted>>
      /\ \A s \in Sender : SendPanics(s) => UNCHANGED <<attempt, offering, accepted>>
  BY DEF Reject, SendPanics, vars, counters
<1>6. \A w \in Pool : Take(w) \/ WriteOk(w) \/ Retry(w) \/ Drop(w) \/ Exit(w)
                     => UNCHANGED <<attempt, offering, accepted>>
  BY DEF Take, WriteOk, Retry, Drop, Failed, Exit, counters
<1>7. Close \/ UNCHANGED vars => UNCHANGED <<attempt, offering, accepted>>
  BY DEF Close, vars, counters
<1>8. \A s \in Sender : Enqueue(s) \/ (\E w \in Pool : HandOver(s, w)) => Accept(s)
  BY DEF Enqueue, HandOver
<1> QED
  BY <1>1, <1>2, <1>3, <1>4, <1>5, <1>6, <1>7, <1>8 DEF Next, SenderStep, WorkerStep

-----------------------------------------------------------------------------
(* The order of the messages.                                              *)

LEMMA InitQueue == Init => QueueInv /\ ReorderedOnlyTogether
<1> SUFFICES ASSUME Init PROVE QueueInv /\ ReorderedOnlyTogether
  OBVIOUS
<1>1. accepted = <<>> /\ taskChan = <<>> /\ topic = <<>> /\ Held = {}
  BY DEF Init, Held
<1>2. ToSet(topic) = {} /\ ToSet(accepted) = {}
  BY <1>1, NothingInEmpty
<1> QED
  BY <1>1, <1>2 DEF QueueInv, ReorderedOnlyTogether

(* What follows talks of accepted by index only.                           *)
Facts ==
  /\ accepted \in Seq(Message) /\ taskChan \in Seq(Message) /\ topic \in Seq(Message)
  /\ \A i, j \in 1 .. Len(accepted) : accepted[i] = accepted[j] => i = j
  /\ QueueInv /\ ReorderedOnlyTogether

LEMMA NumbersGiveFacts ==
  TypeOK /\ NumbersInv /\ QueueInv /\ ReorderedOnlyTogether => Facts
<1> SUFFICES ASSUME TypeOK, NumbersInv, QueueInv, ReorderedOnlyTogether PROVE Facts
  OBVIOUS
<1>1. DOMAIN accepted = 1 .. Len(accepted)
  BY DEF TypeOK
<1> QED
  BY <1>1 DEF Facts, TypeOK, NumbersInv

(* A message in the topic has left the channel.                            *)
LEMMA WrittenHasLeft ==
  ASSUME Facts
  PROVE  /\ Left \in 0 .. Len(accepted) /\ Len(accepted) \in Nat
         /\ \A n \in DOMAIN topic : \E j \in 1 .. Left : accepted[j] = topic[n]
<1>1. Len(accepted) \in Nat /\ Len(taskChan) \in Nat /\ Len(taskChan) <= Len(accepted)
  BY DEF Facts, QueueInv
<1>2. \A n \in DOMAIN topic : topic[n] \in ToSet(topic)
  BY DEF ToSet
<1>3. \A m \in ToSet(topic) : \E j \in 1 .. Left : accepted[j] = m
  BY DEF Facts, QueueInv
<1> QED
  BY <1>1, <1>2, <1>3 DEF Left

(* A write at most adds a message that was held to the topic, and the      *)
(* workers hold nothing new.                                               *)
Writes ==
  /\ UNCHANGED <<accepted, taskChan, together>>
  /\ \A m : m \in Held' => m \in Held
  /\ topic' = topic \/ \E m \in Held : topic' = Append(topic, m)

LEMMA WritesKeepOrder ==
  ASSUME Facts, Writes, Held \subseteq Message
  PROVE  (QueueInv /\ ReorderedOnlyTogether)'
<1>1. Left' = Left
  BY DEF Writes, Left
<1>2. \A m : m \in ToSet(topic') => m \in ToSet(topic) \/ m \in Held
  <2>1. ASSUME NEW m \in Held, topic' = Append(topic, m)
        PROVE  ToSet(topic') = ToSet(topic) \cup {m}
    BY <2>1, ToSetFacts DEF Facts
  <2> QED
    BY <2>1 DEF Writes
<1>3. QueueInv'
  BY <1>1, <1>2 DEF Facts, QueueInv, Writes
<1>4. ASSUME NEW m \in Held, topic' = Append(topic, m)
      PROVE  ReorderedOnlyTogether'
  <2>1. m \in Message
    OBVIOUS
  <2>2. /\ DOMAIN topic = 1 .. Len(topic) /\ DOMAIN topic' = 1 .. Len(topic) + 1
        /\ topic'[Len(topic) + 1] = m /\ Len(topic) \in Nat
        /\ \A n \in 1 .. Len(topic) : topic'[n] = topic[n]
    BY <1>4, <2>1 DEF Facts
  <2> SUFFICES ASSUME NEW x \in ToSet(accepted), NEW y \in ToSet(accepted),
                      Precedes(x, y, accepted), Precedes(y, x, topic')
               PROVE  {x, y} \in together
    BY DEF Writes, ReorderedOnlyTogether
  <2>3. PICK i, j \in DOMAIN topic' : i < j /\ topic'[i] = y /\ topic'[j] = x
    BY DEF Precedes
  <2>4. i \in 1 .. Len(topic) /\ topic[i] = y
    BY <2>2, <2>3
  <2>5. CASE j \in 1 .. Len(topic)
    <3>1. Precedes(y, x, topic)
      BY <2>2, <2>3, <2>4, <2>5 DEF Precedes
    <3> QED
      BY <3>1 DEF Facts, ReorderedOnlyTogether
  <2>6. CASE j = Len(topic) + 1
    <3>1. x = m
      BY <2>2, <2>3, <2>6
    <3>2. PICK k \in 1 .. Left : accepted[k] = y
      BY <2>2, <2>4, WrittenHasLeft
    <3>3. PICK a, b \in 1 .. Len(accepted) : a < b /\ accepted[a] = x /\ accepted[b] = y
      BY DEF Precedes, Facts
    <3>4. k \in 1 .. Len(accepted)
      BY WrittenHasLeft
    <3>5. k = b
      BY <3>2, <3>3, <3>4 DEF Facts
    <3>6. a \in 1 .. Left /\ b \in 1 .. Left
      BY <3>3, <3>5, WrittenHasLeft
    <3>7. \A n \in 1 .. Left, l \in 1 .. Left :
            n < l /\ accepted[n] \in Held => {accepted[n], accepted[l]} \in together
      BY DEF Facts, QueueInv
    <3>8. accepted[a] \in Held
      BY <3>1, <3>3
    <3>9. {accepted[a], accepted[b]} \in together
      BY <3>3, <3>6, <3>7, <3>8
    <3> QED
      BY <3>3, <3>9
  <2> QED
    BY <2>2, <2>3, <2>5, <2>6
<1>5. ASSUME topic' = topic PROVE ReorderedOnlyTogether'
  BY <1>5 DEF Facts, ReorderedOnlyTogether, Writes
<1> QED
  BY <1>3, <1>4, <1>5 DEF Writes

(* x is the message that leaves the channel, or never enters it.           *)
LEMMA TakenKeepsQueue ==
  ASSUME Facts, NEW x, Left' = Left + 1, Len(taskChan') <= Len(accepted'),
         \A i \in DOMAIN taskChan' : taskChan'[i] = accepted'[Left' + i],
         \A n \in 1 .. Left : accepted'[n] = accepted[n] /\ accepted[n] # x,
         accepted'[Left + 1] = x, topic' = topic,
         \A m : m \in Held' => m \in Held \/ m = x,
         together' = together \cup {{x, n} : n \in Held}
  PROVE  QueueInv'
<1>1. Left \in Nat /\ \A n \in 1 .. Left' : n \in 1 .. Left \/ n = Left + 1
  BY WrittenHasLeft
<1>2. 1 .. Left \subseteq 1 .. Left' /\ Left + 1 \in 1 .. Left'
  BY <1>1
<1>3. \A m : m \in Held' \cup ToSet(topic') => \E n \in 1 .. Left' : accepted'[n] = m
  BY <1>2 DEF Facts, QueueInv
<1>4. ASSUME NEW i \in 1 .. Left', NEW j \in 1 .. Left', i < j, accepted'[i] \in Held'
      PROVE  {accepted'[i], accepted'[j]} \in together'
  <2>1. i \in 1 .. Left /\ accepted'[i] = accepted[i] /\ accepted[i] # x
    BY <1>1, <1>4
  <2>2. accepted[i] \in Held
    BY <1>4, <2>1
  <2>3. CASE j \in 1 .. Left
    BY <1>4, <2>1, <2>2, <2>3 DEF Facts, QueueInv
  <2>4. CASE j = Left + 1
    <3>1. {accepted'[i], accepted'[j]} = {x, accepted[i]}
      BY <2>1, <2>4
    <3> QED
      BY <2>2, <3>1
  <2> QED
    BY <1>1, <2>3, <2>4
<1> QED
  BY <1>3, <1>4 DEF QueueInv

(* A message that is accepted is in no topic yet.                          *)
LEMMA AcceptKeepsOrder ==
  ASSUME Facts, NEW x \in Message, \A n \in 1 .. Len(accepted) : accepted[n] # x,
         accepted' = Append(accepted, x), topic' = topic, together \subseteq together'
  PROVE  ReorderedOnlyTogether'
<1>1. /\ Len(accepted) \in Nat /\ DOMAIN accepted = 1 .. Len(accepted)
      /\ DOMAIN accepted' = 1 .. Len(accepted) + 1
      /\ accepted'[Len(accepted) + 1] = x
      /\ \A n \in 1 .. Len(accepted) : accepted'[n] = accepted[n]
  BY DEF Facts
<1> SUFFICES ASSUME NEW m, NEW n, Precedes(m, n, accepted'), Precedes(n, m, topic)
             PROVE  {m, n} \in together
  BY DEF ReorderedOnlyTogether
<1>2. PICK i, j \in 1 .. Len(accepted) + 1 : i < j /\ accepted'[i] = m /\ accepted'[j] = n
  BY <1>1 DEF Precedes
<1>3. PICK k \in 1 .. Left : accepted[k] = n
  BY WrittenHasLeft DEF Precedes
<1>4. k \in 1 .. Len(accepted)
  BY WrittenHasLeft
<1>5. i \in 1 .. Len(accepted) /\ j \in 1 .. Len(accepted)
  BY <1>1, <1>2, <1>3, <1>4
<1>6. accepted[i] = m /\ accepted[j] = n
  BY <1>1, <1>2, <1>5
<1>7. Precedes(m, n, accepted)
  BY <1>1, <1>2, <1>5, <1>6 DEF Precedes
<1>8. m \in ToSet(accepted) /\ n \in ToSet(accepted)
  BY <1>1, <1>5, <1>6 DEF ToSet
<1> QED
  BY <1>7, <1>8 DEF Facts, ReorderedOnlyTogether

LEMMA HoldFacts ==
  ASSUME TypeOK, NEW w \in Pool, NEW x, Hold(w, x)
  PROVE  /\ \A m : m \in Held' => m \in Held \/ m = x
         /\ together' = together \cup {{x, n} : n \in Held}
<1>1. \A v \in Pool : holding'[v] = holding[v] \/ holding'[v] = x
  BY DEF Hold, TypeOK
<1>2. \A m : m \in Held' => m \in Held \/ m = x
  BY <1>1 DEF Held
<1> QED
  BY <1>2 DEF Hold

LEMMA NextQueue ==
  ASSUME TypeOK, NumbersInv, QueueInv, ReorderedOnlyTogether, [Next]_vars
  PROVE  (QueueInv /\ ReorderedOnlyTogether)'
<1>1. Facts
  BY NumbersGiveFacts
<1>2. /\ Len(accepted) \in Nat /\ Len(taskChan) \in Nat /\ Len(taskChan) <= Len(accepted)
      /\ DOMAIN accepted = 1 .. Len(accepted) /\ Left = Len(accepted) - Len(taskChan)
      /\ Left \in 0 .. Len(accepted)
  BY WrittenHasLeft, <1>1 DEF Facts, QueueInv, Left
<1>3. ASSUME NEW s \in Sender, Accept(s)
      PROVE  /\ offering[s] \in Message /\ accepted' = Append(accepted, offering[s])
             /\ \A n \in 1 .. Len(accepted) : accepted[n] # offering[s]
             /\ Len(accepted') = Len(accepted) + 1
             /\ accepted'[Len(accepted) + 1] = offering[s]
             /\ \A n \in 1 .. Len(accepted) : accepted'[n] = accepted[n]
             /\ topic' = topic
  <2>1. offering[s] \in Message /\ accepted' = Append(accepted, offering[s]) /\ topic' = topic
    BY <1>3 DEF Accept, TypeOK
  <2>2. \A n \in 1 .. Len(accepted) : accepted[n] # offering[s]
    BY <1>2, <1>3 DEF Accept, NumbersInv
  <2> QED
    BY <1>2, <2>1, <2>2 DEF TypeOK
<1>4. ASSUME NEW s \in Sender, Enqueue(s)
      PROVE  (QueueInv /\ ReorderedOnlyTogether)'
  <2>1. Accept(s) /\ taskChan' = Append(taskChan, offering[s]) /\ UNCHANGED <<holding, together>>
    BY <1>4 DEF Enqueue, pool
  <2>2. Len(taskChan') = Len(taskChan) + 1 /\ DOMAIN taskChan' = 1 .. Len(taskChan) + 1
    BY <1>3, <2>1 DEF TypeOK
  <2>3. Left' = Left /\ Held' = Held
    BY <1>2, <1>3, <2>1, <2>2 DEF Left, Held
  <2>4. ASSUME NEW i \in DOMAIN taskChan' PROVE taskChan'[i] = accepted'[Left' + i]
    <3>1. CASE i \in 1 .. Len(taskChan)
      <4>1. taskChan'[i] = taskChan[i] /\ taskChan[i] = accepted[Left + i]
        BY <1>1, <1>3, <2>1, <3>1 DEF Facts, QueueInv
      <4>2. Left + i \in 1 .. Len(accepted)
        BY <1>2, <3>1
      <4> QED
        BY <1>3, <2>1, <2>3, <4>1, <4>2
    <3>2. CASE i = Len(taskChan) + 1
      <4>1. taskChan'[i] = offering[s] /\ Left + i = Len(accepted) + 1
        BY <1>2, <1>3, <2>1, <3>2 DEF TypeOK
      <4> QED
        BY <1>3, <2>1, <2>3, <4>1
    <3> QED
      BY <1>2, <2>2, <3>1, <3>2
  <2>5. \A n \in 1 .. Left : n \in 1 .. Len(accepted) /\ accepted'[n] = accepted[n]
    BY <1>2, <1>3, <2>1
  <2>6. topic' = topic /\ Len(taskChan') <= Len(accepted')
    BY <1>2, <1>3, <2>1, <2>2
  <2>7. QueueInv'
    BY <2>1, <2>3, <2>4, <2>5, <2>6 DEF QueueInv
  <2> QED
    BY <1>1, <1>3, <2>1, <2>7, AcceptKeepsOrder
<1>5. ASSUME NEW w \in Pool, NEW s \in Sender, HandOver(s, w)
      PROVE  (QueueInv /\ ReorderedOnlyTogether)'
  <2>1. Accept(s) /\ Hold(w, offering[s]) /\ taskChan' = taskChan /\ cfg["max_queue_size"] = 0
    BY <1>5 DEF HandOver
  <2>2. taskChan = <<>>
    BY <1>2, <2>1 DEF TypeOK
  <2>3. Left = Len(accepted) /\ Left' = Left + 1 /\ DOMAIN taskChan' = {}
    BY <1>2, <1>3, <2>1, <2>2 DEF Left
  <2>4. QueueInv'
    <3> DEFINE x == offering[s]
    <3>1. /\ \A m : m \in Held' => m \in Held \/ m = x
          /\ together' = together \cup {{x, n} : n \in Held}
      BY <2>1, HoldFacts
    <3>2. /\ \A n \in 1 .. Left : accepted'[n] = accepted[n] /\ accepted[n] # x
          /\ accepted'[Left + 1] = x /\ topic' = topic /\ Len(taskChan') <= Len(accepted')
      BY <1>2, <1>3, <2>1, <2>3
    <3>3. \A i \in DOMAIN taskChan' : taskChan'[i] = accepted'[Left' + i]
      BY <2>3
    <3> HIDE DEF x
    <3> QED
      BY <1>1, <2>3, <3>1, <3>2, <3>3, TakenKeepsQueue
  <2>5. together \subseteq together'
    BY <2>1 DEF Hold
  <2> QED
    BY <1>1, <1>3, <2>1, <2>4, <2>5, AcceptKeepsOrder
<1>6. ASSUME NEW w \in Pool, Take(w)
      PROVE  (QueueInv /\ ReorderedOnlyTogether)'
  <2> DEFINE x == Head(taskChan)
  <2>1. /\ Hold(w, x) /\ taskChan # <<>> /\ taskChan' = Tail(taskChan)
        /\ accepted' = accepted /\ topic' = topic
    BY <1>6 DEF Take
  <2>2. /\ x = taskChan[1] /\ Len(taskChan) > 0 /\ 1 \in DOMAIN taskChan
        /\ Len(taskChan') = Len(taskChan) - 1 /\ DOMAIN taskChan' = 1 .. Len(taskChan) - 1
        /\ DOMAIN taskChan = 1 .. Len(taskChan)
        /\ \A i \in 1 .. Len(taskChan) - 1 : taskChan'[i] = taskChan[i + 1]
    BY <2>1 DEF TypeOK
  <2>3. /\ \A m : m \in Held' => m \in Held \/ m = x
        /\ together' = together \cup {{x, n} : n \in Held}
    BY <2>1, HoldFacts
  <2> HIDE DEF x
  <2>4. Left' = Left + 1 /\ Left + 1 \in 1 .. Len(accepted) /\ Len(taskChan') <= Len(accepted')
    BY <1>2, <2>1, <2>2 DEF Left
  <2>5. \A i \in DOMAIN taskChan : taskChan[i] = accepted[Left + i]
    BY <1>1 DEF Facts, QueueInv
  <2>6. accepted'[Left + 1] = x
    BY <2>1, <2>2, <2>5
  <2>7. \A i \in DOMAIN taskChan' : taskChan'[i] = accepted'[Left' + i]
    <3> SUFFICES ASSUME NEW i \in 1 .. Len(taskChan) - 1 PROVE taskChan'[i] = accepted'[Left' + i]
      BY <2>2
    <3>1. taskChan'[i] = taskChan[i + 1] /\ i + 1 \in DOMAIN taskChan
      BY <1>2, <2>2
    <3>2. Left + (i + 1) = Left' + i
      BY <1>2, <2>4
    <3> QED
      BY <2>1, <2>5, <3>1, <3>2
  <2>8. \A n \in 1 .. Left : accepted'[n] = accepted[n] /\ accepted[n] # x
    <3>1. \A n \in 1 .. Left : n \in 1 .. Len(accepted) /\ n # Left + 1
      BY <1>2
    <3> QED
      BY <1>1, <2>1, <2>4, <2>6, <3>1 DEF Facts
  <2>9. QueueInv'
    BY <1>1, <2>1, <2>3, <2>4, <2>6, <2>7, <2>8, TakenKeepsQueue
  <2>10. ReorderedOnlyTogether'
    BY <2>1, <2>3 DEF ReorderedOnlyTogether
  <2> QED
    BY <2>9, <2>10
<1>7. ASSUME Writes PROVE (QueueInv /\ ReorderedOnlyTogether)'
  <2>1. Held \subseteq Message
    BY DEF Held, TypeOK
  <2> QED
    BY <1>1, <1>7, <2>1, WritesKeepOrder
<1>8. ASSUME NEW w \in Pool, WriteOk(w) \/ Retry(w) \/ Drop(w) PROVE Writes
  <2>1. \A v \in Pool : holding'[v] \in {holding[v], None}
    BY <1>8 DEF WriteOk, Retry, Drop, TypeOK
  <2>2. holding[w] \in Held
    BY <1>8 DEF WriteOk, Retry, Drop, Failed, Held
  <2> QED
    BY <1>8, <2>1, <2>2 DEF WriteOk, Retry, Drop, Failed, Held, Writes
<1>9. UNCHANGED <<accepted, taskChan, together, holding, topic>> => Writes
  BY DEF Writes, Held
<1>10. \A s \in Sender, o \in Order : SendOrder(s, o) \/ Reject(s, o)
         => UNCHANGED <<accepted, taskChan, together, holding, topic>>
  BY DEF SendOrder, Reject, vars, pool
<1>11. \A s \in Sender : GiveUp(s) \/ SendPanics(s)
         => UNCHANGED <<accepted, taskChan, together, holding, topic>>
  BY DEF GiveUp, SendPanics, pool
<1>12. \A w \in Pool : Exit(w) => UNCHANGED <<accepted, taskChan, together, holding, topic>>
  BY DEF Exit
<1>13. Close \/ UNCHANGED vars => UNCHANGED <<accepted, taskChan, together, holding, topic>>
  BY DEF Close, vars, pool
<1> QED
  BY <1>4, <1>5, <1>6, <1>7, <1>8, <1>9, <1>10, <1>11, <1>12, <1>13
     DEF Next, SenderStep, WorkerStep

-----------------------------------------------------------------------------
(* The inductive invariant: its parts hold together.                       *)
LEMMA InitSafe == Init => PoolSafe
BY InitTypeOK, InitCounters, InitPool, InitNumbers, InitQueue DEF PoolSafe

LEMMA NextSafe == PoolSafe /\ [Next]_vars => PoolSafe'
BY NextTypeOK, NextCounters, NextPool, NextNumbers, NextQueue DEF PoolSafe

THEOREM ProducerSafe == Spec => []PoolSafe
BY InitSafe, NextSafe, PTL DEF Spec

(* The types, for any configuration: no channel exceeds its capacity, no   *)
(* message is tried more than MaxTries times.                              *)
THEOREM ProducerSyncTypes == Spec => []TypeOK
<1>1. PoolSafe => TypeOK
  BY DEF PoolSafe
<1> QED
  BY <1>1, ProducerSafe, PTL

(* The counters of the pool lose nothing and count nothing twice, whether  *)
(* writes fail, Close races SendOrder, or the process panics.              *)
THEOREM EveryAttemptCounted == Spec => []CountersAddUp
<1>1. PoolSafe => CountersAddUp
  BY DEF PoolSafe
<1> QED
  BY <1>1, ProducerSafe, PTL

(* Close returns after everything SendOrder accepted was dealt with        *)
(* (producer_sync.go:137-138), for any number of workers but none.         *)
THEOREM NothingLeftBehind == Spec => []CloseDrains
<1>1. PoolSafe => CloseDrains
  <2> SUFFICES ASSUME PoolInv, closing = "done", Worker # {}
               PROVE  taskChan = <<>> /\ Held = {}
    BY DEF PoolSafe, CloseDrains
  <2>1. PICK w \in Worker : w \in Pool /\ gone[w]
    BY DEF PoolInv, Worker
  <2>2. \A v \in Pool : holding[v] = None
    BY DEF PoolInv
  <2> QED
    BY <2>1, <2>2 DEF PoolInv, Held
<1> QED
  BY <1>1, ProducerSafe, PTL

(* The pool reorders only what two of its workers held at the same time,   *)
(* for any number of workers, capacity of the channel and tries: with one  *)
(* worker it reorders nothing.                                             *)
THEOREM OrderOfTopic == Spec => []ReorderedOnlyTogether
<1>1. PoolSafe => ReorderedOnlyTogether
  BY DEF PoolSafe
<1> QED
  BY <1>1, ProducerSafe, PTL

=============================================================================
