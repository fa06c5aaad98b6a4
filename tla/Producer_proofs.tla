-------------------------- MODULE Producer_proofs --------------------------
(***************************************************************************)
(* Theorems about the keys of orders and the asynchronous producer: for    *)
(* any number of senders, partitions, orders and repetitions.              *)
(***************************************************************************)
EXTENDS Producer, Offsets

-----------------------------------------------------------------------------
(* The keys of orders, for every alphabet and every length.                *)

(* copy of a string that has the length of the array loses and adds        *)
(* nothing (order.go, BuildOrderKey).                                      *)
LEMMA CopyIsExact ==
  ASSUME NEW n \in Nat, NEW s \in Seq(Char), IsValid(s, n)
  PROVE  CopyTo(n, s) = s
<1>1. Len(s) = n
  BY DEF IsValid
<1>2. s = [i \in 1 .. n |-> s[i]]
  BY <1>1
<1>3. \A i \in 1 .. n : (IF i <= Len(s) THEN s[i] ELSE Nul) = s[i]
  BY <1>1
<1> QED
  BY <1>2, <1>3 DEF CopyTo

(* Of an order that Validate lets through, the key holds every character.  *)
LEMMA KeyOfValidOrder ==
  ASSUME NEW o \in AnyOrder, Validate(o)
  PROVE  /\ BuildOrderKey(o).client = o.client
         /\ <<BuildOrderKey(o).ex>> = o.ex
         /\ BuildOrderKey(o).stock = o.stock
<1>1. CopyTo(ClientLen, o.client) = o.client /\ CopyTo(StockLen, o.stock) = o.stock
  BY CopyIsExact, OrderModelAssumption DEF Validate, AnyOrder
<1>2. o.ex = <<SH>> \/ o.ex = <<SZ>>
  BY DEF Validate
<1>3. Len(o.ex) > 0 /\ <<o.ex[1]>> = o.ex
  <2>1. PICK a : o.ex = <<a>>
    BY <1>2
  <2>2. Len(<<a>>) = 1 /\ <<a>>[1] = a
    OBVIOUS
  <2> QED
    BY <2>1, <2>2
<1> QED
  BY <1>1, <1>3 DEF BuildOrderKey

(* The map of the consumer, by key, never folds valid orders on two rows   *)
(* into one, and always folds those on one row (main.go:126-137).          *)
THEOREM KeysAreExact ==
  \A o, q \in {x \in AnyOrder : Validate(x)} :
    BuildOrderKey(o) = BuildOrderKey(q) <=> SameInstrument(o, q)
<1> SUFFICES ASSUME NEW o \in AnyOrder, Validate(o), NEW q \in AnyOrder, Validate(q)
             PROVE  BuildOrderKey(o) = BuildOrderKey(q) <=> SameInstrument(o, q)
  OBVIOUS
<1>1. ASSUME BuildOrderKey(o) = BuildOrderKey(q)
      PROVE  SameInstrument(o, q)
  BY <1>1, KeyOfValidOrder DEF SameInstrument
<1>2. ASSUME SameInstrument(o, q)
      PROVE  BuildOrderKey(o) = BuildOrderKey(q)
  BY <1>2 DEF SameInstrument, BuildOrderKey
<1> QED
  BY <1>1, <1>2

USE OrderModelAssumption, ProducerAssumption

-----------------------------------------------------------------------------
(* Orders.                                                                 *)

LEMMA Digits ==
  ASSUME NEW n \in Nat, NEW s \in Seq(Char)
  PROVE  IsValid(s, n) => s \in [1 .. n -> Digit]
<1> SUFFICES ASSUME IsValid(s, n) PROVE s \in [1 .. n -> Digit]
  OBVIOUS
<1>1. DOMAIN s = 1 .. n /\ s = [i \in 1 .. n |-> s[i]]
  BY DEF IsValid
<1> QED
  BY <1>1 DEF IsValid

LEMMA DigitsAreValid ==
  ASSUME NEW n \in Nat, NEW s \in [1 .. n -> Digit]
  PROVE  s \in Seq(Char) /\ IsValid(s, n)
<1>1. s \in Seq(Char) /\ Len(s) = n
  OBVIOUS
<1> QED
  BY <1>1 DEF IsValid

(* Validate lets exactly the good orders through.                          *)
LEMMA ValidOrders == GoodOrder = {o \in AnyOrder : Validate(o)}
<1>1. ASSUME NEW o \in AnyOrder, Validate(o) PROVE o \in GoodOrder
  <2>1. /\ o.client \in [1 .. ClientLen -> Digit] /\ o.stock \in [1 .. StockLen -> Digit]
        /\ o.ex \in {<<SH>>, <<SZ>>} /\ o.act \in {"cre", "del"}
    BY <1>1, Digits DEF AnyOrder, Validate
  <2>2. o = [client |-> o.client, ex |-> o.ex, stock |-> o.stock, act |-> o.act]
    BY DEF AnyOrder
  <2> QED
    BY <2>1, <2>2 DEF GoodOrder
<1>2. ASSUME NEW o \in GoodOrder PROVE o \in AnyOrder /\ Validate(o)
  <2>1. /\ o.client \in [1 .. ClientLen -> Digit] /\ o.stock \in [1 .. StockLen -> Digit]
        /\ o.ex \in {<<SH>>, <<SZ>>} /\ o.act \in {"cre", "del"}
        /\ o = [client |-> o.client, ex |-> o.ex, stock |-> o.stock, act |-> o.act]
    BY DEF GoodOrder
  <2>2. /\ o.client \in Seq(Char) /\ IsValid(o.client, ClientLen)
        /\ o.stock \in Seq(Char) /\ IsValid(o.stock, StockLen)
    BY <2>1, DigitsAreValid
  <2>3. o.ex \in Seq(Char)
    <3>1. <<SH>> \in Seq(Char) /\ <<SZ>> \in Seq(Char)
      OBVIOUS
    <3> QED
      BY <2>1, <3>1, Zenon
  <2>4. o.act \in {"cre", "del", "other"}
    BY <2>1
  <2>5. o \in [client : Seq(Char), ex : Seq(Char), stock : Seq(Char), act : {"cre", "del", "other"}]
    BY <2>1, <2>2, <2>3, <2>4
  <2>6. Validate(o)
    BY <2>1, <2>2 DEF Validate
  <2> QED
    BY <2>5, <2>6 DEF AnyOrder
<1> QED
  BY <1>1, <1>2

-----------------------------------------------------------------------------
(* The sequences of the writer.                                            *)

LEMMA Remainder ==
  ASSUME NEW i \in Nat, NEW n \in Nat, n > 0
  PROVE  i % n \in 0 .. n - 1
OBVIOUS

LEMMA RepeatedType ==
  ASSUME NEW S, NEW s \in Seq(S), Len(s) > 0, NEW c \in Nat
  PROVE  Repeated(s, c) \in Seq(S)
<1>1. c * Len(s) \in Nat /\ Len(s) \in Nat
  OBVIOUS
<1>2. \A i \in 1 .. c * Len(s) : ((i - 1) % Len(s)) + 1 \in 1 .. Len(s)
  <2> TAKE i \in 1 .. c * Len(s)
  <2>1. i - 1 \in Nat
    BY <1>1
  <2>2. (i - 1) % Len(s) \in 0 .. Len(s) - 1
    BY <1>1, <2>1, Remainder
  <2> QED
    BY <1>1, <2>2
<1>3. \A i \in 1 .. c * Len(s) : s[((i - 1) % Len(s)) + 1] \in S
  BY <1>2
<1> QED
  BY <1>1, <1>3 DEF Repeated

LEMMA BatchFacts ==
  ASSUME TypeOK, NEW p \in Partition, NEW n \in BatchSizes(p), NEW copies \in Nat,
         EndBatch(p, n, copies)
  PROVE  /\ queue' \in [Partition -> Seq(GoodOrder)]
         /\ topic' \in [Partition -> Seq(GoodOrder)]
         /\ ToSet(SubSeq(queue[p], 1, n)) \subseteq GoodOrder /\ n \in Nat
<1> DEFINE q == queue[p]
           batch == SubSeq(q, 1, n)
           rest == SubSeq(q, n + 1, Len(q))
<1>1. q \in Seq(GoodOrder) /\ Len(q) \in Nat
  BY DEF TypeOK
<1>2. n \in 1 .. Len(q)
  BY <1>1 DEF BatchSizes
<1> HIDE DEF q
<1>3. batch \in Seq(GoodOrder) /\ Len(batch) = n /\ rest \in Seq(GoodOrder)
  BY <1>1, <1>2
<1> HIDE DEF batch, rest
<1>4. Repeated(batch, copies) \in Seq(GoodOrder)
  BY <1>2, <1>3, RepeatedType
<1>5. topic[p] \o Repeated(batch, copies) \in Seq(GoodOrder)
  BY <1>4 DEF TypeOK
<1>6. queue' = [queue EXCEPT ![p] = rest]
      /\ topic' = [topic EXCEPT ![p] = topic[p] \o Repeated(batch, copies)]
  BY DEF EndBatch, q, batch, rest
<1>7. ToSet(batch) \subseteq GoodOrder
  BY <1>3, ToSetFacts
<1> QED
  BY <1>2, <1>3, <1>5, <1>6, <1>7 DEF TypeOK, q, batch

-----------------------------------------------------------------------------
(* Types.                                                                  *)

LEMMA InitTypeOK == Init => TypeOK
<1> SUFFICES ASSUME Init PROVE TypeOK
  OBVIOUS
<1>1. <<>> \in Seq(GoodOrder)
  OBVIOUS
<1>2. queue \in [Partition -> Seq(GoodOrder)] /\ topic \in [Partition -> Seq(GoodOrder)]
  BY <1>1 DEF Init
<1>3. sending \in [Sender -> GoodOrder \cup {None}] /\ 0 \in 0 .. MaxAttempts
  BY DEF Init
<1>4. closed \in BOOLEAN /\ writer \in {"open", "closing", "closed"}
  BY DEF Init
<1> QED
  BY <1>1, <1>2, <1>3, <1>4 DEF Init, TypeOK

LEMMA NextTypeOK ==
  ASSUME TypeOK, [Next]_vars
  PROVE  TypeOK'
<1>1. ASSUME NEW s \in Sender, NEW o \in Order, SendOrder(s, o) PROVE TypeOK'
  <2>1. o \in GoodOrder /\ attempt' \in 0 .. MaxAttempts
    BY <1>1, ValidOrders DEF SendOrder, TypeOK
  <2> QED
    BY <1>1, <2>1 DEF SendOrder, TypeOK, kafka, history
<1>2. ASSUME NEW s \in Sender, Written(s) PROVE TypeOK'
  <2>1. sending[s] \in GoodOrder
    BY <1>2 DEF Written, TypeOK
  <2>2. ASSUME NEW p, queue' = [queue EXCEPT ![p] = Append(queue[p], sending[s])]
        PROVE  queue' \in [Partition -> Seq(GoodOrder)]
    <3>1. p \in Partition => Append(queue[p], sending[s]) \in Seq(GoodOrder)
      BY <2>1 DEF TypeOK
    <3> QED
      BY <2>2, <3>1 DEF TypeOK
  <2>3. queue' \in [Partition -> Seq(GoodOrder)] /\ taken' \in Seq(GoodOrder)
    BY <1>2, <2>1, <2>2 DEF Written, TypeOK
  <2> QED
    BY <1>2, <2>3 DEF Written, TypeOK, counters
<1>3. ASSUME NEW s \in Sender, Refused(s) PROVE TypeOK'
  BY <1>3 DEF Refused, TypeOK, counters, kafka
<1>4. ASSUME NEW p \in Partition, CompleteOk(p) PROVE TypeOK'
  <2>1. PICK n \in BatchSizes(p), copies \in 1 .. MaxCopies :
          /\ EndBatch(p, n, copies) /\ succ' = succ + n
          /\ UNCHANGED <<closed, sending, attempt, fail, writer, history>>
    BY <1>4 DEF CompleteOk
  <2>2. copies \in Nat
    OBVIOUS
  <2>3. queue' \in [Partition -> Seq(GoodOrder)] /\ topic' \in [Partition -> Seq(GoodOrder)] /\ n \in Nat
    BY <2>1, <2>2, BatchFacts
  <2> QED
    BY <2>1, <2>3 DEF TypeOK, history
<1>5. ASSUME NEW p \in Partition, CompleteFail(p) PROVE TypeOK'
  <2>1. PICK n \in BatchSizes(p), copies \in 0 .. MaxCopies :
          /\ EndBatch(p, n, copies) /\ fail' = fail + n
          /\ lost' = lost \cup ToSet(SubSeq(queue[p], 1, n))
          /\ UNCHANGED <<closed, sending, attempt, succ, writer, taken, refused>>
    BY <1>5 DEF CompleteFail
  <2>2. copies \in Nat
    OBVIOUS
  <2>3. /\ queue' \in [Partition -> Seq(GoodOrder)] /\ topic' \in [Partition -> Seq(GoodOrder)]
        /\ ToSet(SubSeq(queue[p], 1, n)) \subseteq GoodOrder /\ n \in Nat
    BY <2>1, <2>2, BatchFacts
  <2> QED
    BY <2>1, <2>3 DEF TypeOK
<1>6. CASE Close \/ CloseWriter \/ WriterClosed
  BY <1>6 DEF Close, CloseWriter, WriterClosed, TypeOK, counters, kafka, history
<1>7. ASSUME UNCHANGED vars PROVE TypeOK'
  BY <1>7 DEF vars, counters, kafka, history, TypeOK
<1>8. \A s \in Sender, o \in Order : Reject(s, o) => UNCHANGED vars
  BY DEF Reject
<1> QED
  BY <1>1, <1>2, <1>3, <1>4, <1>5, <1>6, <1>7, <1>8 DEF Next

(* Whatever is sent at the same time, batched and repeated, only what      *)
(* Validate let through is on its way or in the topic (producer.go:62).    *)
THEOREM ProducerTypeCorrect == Spec => []TypeOK
BY InitTypeOK, NextTypeOK, PTL DEF Spec

(* The keys the consumer makes of the records of the topic tell their      *)
(* instruments apart (order.go:49): KeysAreExact applies to all of them.   *)
THEOREM TopicKeysAreExact == Spec => []KeysTellOrdersApart
<1>1. TypeOK => KeysTellOrdersApart
  <2> SUFFICES ASSUME TypeOK,
                      NEW o \in UNION {ToSet(topic[p]) : p \in Partition},
                      NEW q \in UNION {ToSet(topic[p]) : p \in Partition}
               PROVE  BuildOrderKey(o) = BuildOrderKey(q) <=> SameInstrument(o, q)
    BY DEF KeysTellOrdersApart
  <2>1. \A p \in Partition : ToSet(topic[p]) \subseteq GoodOrder
    <3> TAKE p \in Partition
    <3>1. topic[p] \in Seq(GoodOrder)
      BY DEF TypeOK
    <3> QED
      BY <3>1, ToSetFacts
  <2>2. o \in GoodOrder /\ q \in GoodOrder
    BY <2>1
  <2> QED
    BY <2>2, ValidOrders, KeysAreExact
<1> QED
  BY <1>1, ProducerTypeCorrect, PTL

-----------------------------------------------------------------------------
(* The counters.                                                           *)

LEMMA WaitingIs ==
  /\ \A x : x \in Waiting <=> \E p \in Partition : \E i \in DOMAIN queue[p] : x = <<p, i>>
  /\ \A x : x \in Waiting' <=> \E p \in Partition : \E i \in DOMAIN queue'[p] : x = <<p, i>>
BY DEF Waiting

LEMMA WaitingFinite ==
  ASSUME TypeOK
  PROVE  IsFiniteSet(Waiting) /\ Cardinality(Waiting) \in Nat
<1> DEFINE f == [p \in Partition |-> {p} \X DOMAIN queue[p]]
           parts == {f[p] : p \in Partition}
<1>1. IsFiniteSet(Partition)
  BY ProducerAssumption
<1>2. IsFiniteSet(parts)
  <2>1. f \in Surjection(Partition, parts)
    BY DEF Surjection
  <2> HIDE DEF f, parts
  <2> QED
    BY <1>1, <2>1, FS_Surjection
<1>3. \A T \in parts : IsFiniteSet(T)
  <2> TAKE T \in parts
  <2>1. PICK p \in Partition : T = {p} \X DOMAIN queue[p]
    OBVIOUS
  <2>2. queue[p] \in Seq(GoodOrder)
    BY DEF TypeOK
  <2>3. DOMAIN queue[p] = 1 .. Len(queue[p]) /\ Len(queue[p]) \in Nat
    BY <2>2
  <2>4. IsFiniteSet({p}) /\ IsFiniteSet(DOMAIN queue[p])
    <3>1. \A n \in Nat : IsFiniteSet(1 .. n)
      BY FS_Interval
    <3> QED
      BY <2>3, <3>1, FS_Singleton
  <2> HIDE DEF f, parts
  <2> QED
    BY <2>1, <2>4, FS_Product
<1>4. Waiting = UNION parts
  BY DEF Waiting
<1> HIDE DEF f, parts
<1>5. IsFiniteSet(Waiting)
  BY <1>2, <1>3, <1>4, FS_UNION
<1> QED
  BY <1>5, FS_CardinalityType

LEMMA BusyFinite == IsFiniteSet(Busy) /\ Cardinality(Busy) \in Nat
<1>1. IsFiniteSet(Busy)
  BY ProducerAssumption, FS_Subset DEF Busy
<1> QED
  BY <1>1, FS_CardinalityType

(* A batch leaves the queue: the places behind it move up.                 *)
LEMMA BatchLeaves ==
  ASSUME TypeOK, NEW p \in Partition, NEW n \in BatchSizes(p), NEW copies \in Nat,
         EndBatch(p, n, copies)
  PROVE  Cardinality(Waiting') = Cardinality(Waiting) - n /\ n \in Nat
<1>1. PICK m : m = Len(queue[p])
  OBVIOUS
<1>2. PICK q : q = queue[p]
  OBVIOUS
<1>3. q \in Seq(GoodOrder) /\ m \in Nat /\ DOMAIN q = 1 .. m
  BY <1>1, <1>2 DEF TypeOK
<1>4. n \in 1 .. m
  BY <1>1, <1>3 DEF BatchSizes
<1>5. DOMAIN SubSeq(q, n + 1, m) = 1 .. m - n
  BY <1>3, <1>4
<1>6. /\ DOMAIN queue'[p] = 1 .. m - n
      /\ \A r \in Partition : r # p => queue'[r] = queue[r]
  BY <1>1, <1>2, <1>5 DEF EndBatch, TypeOK
<1>7. PICK B : B = {p} \X (m - n + 1 .. m)
  OBVIOUS
<1>8. B \subseteq Waiting
  BY <1>2, <1>3, <1>4, <1>7, WaitingIs
<1>9. Waiting' = Waiting \ B
  <2>1. ASSUME NEW r \in Partition, NEW i PROVE
           i \in DOMAIN queue'[r] <=> i \in DOMAIN queue[r] /\ <<r, i>> \notin B
    BY <1>2, <1>3, <1>4, <1>6, <1>7
  <2>2. \A r, i, s, j : <<r, i>> = <<s, j>> => r = s /\ i = j
    OBVIOUS
  <2> QED
    BY <2>1, <2>2, WaitingIs
<1>10. Cardinality(B) = n
  <2>1. IsFiniteSet(m - n + 1 .. m) /\ Cardinality(m - n + 1 .. m) = n
    BY <1>3, <1>4, FS_Interval
  <2>2. IsFiniteSet({p}) /\ Cardinality({p}) = 1
    BY FS_Singleton
  <2>3. Cardinality(B) = Cardinality({p}) * Cardinality(m - n + 1 .. m)
    <3>1. \A S, T : IsFiniteSet(S) /\ IsFiniteSet(T)
                    => Cardinality(S \X T) = Cardinality(S) * Cardinality(T)
      BY FS_Product
    <3> QED
      BY <1>7, <2>1, <2>2, <3>1
  <2> QED
    BY <1>3, <1>4, <2>1, <2>2, <2>3
<1>11. Waiting \cap B = B
  BY <1>8
<1>12. Cardinality(Waiting \ B) = Cardinality(Waiting) - Cardinality(Waiting \cap B)
  BY WaitingFinite, FS_Difference
<1>13. Cardinality(Waiting') = Cardinality(Waiting \ B)
  BY <1>9
<1>14. n \in Nat
  BY <1>3, <1>4
<1> QED
  BY <1>10, <1>11, <1>12, <1>13, <1>14

LEMMA InitCounters == Init => CountersAddUp
<1> SUFFICES ASSUME Init PROVE CountersAddUp
  OBVIOUS
<1>1. Waiting = {}
  BY WaitingIs DEF Init
<1>2. Busy = {}
  BY DEF Init, Busy
<1> QED
  BY <1>1, <1>2, FS_EmptySet DEF Init, CountersAddUp

LEMMA CountersStep ==
  ASSUME TypeOK, FromSenders, CountersAddUp, [Next]_vars
  PROVE  CountersAddUp'
<1> USE DEF counters, kafka, history
<1>1. PICK wait, busy : wait = Cardinality(Waiting) /\ busy = Cardinality(Busy)
  OBVIOUS
<1>2. /\ wait \in Nat /\ busy \in Nat /\ attempt \in Nat
      /\ succ \in Nat /\ fail \in Nat /\ refused \in Nat
      /\ attempt = succ + fail + refused + wait + busy
  BY <1>1, WaitingFinite, BusyFinite DEF CountersAddUp, TypeOK
<1>3. queue' = queue => Cardinality(Waiting') = wait
  BY <1>1 DEF Waiting
<1>4. sending' = sending => Cardinality(Busy') = busy
  BY <1>1 DEF Busy
<1>5. ASSUME NEW s \in Sender, NEW o \in Order, SendOrder(s, o) PROVE CountersAddUp'
  <2>1. Busy' = Busy \cup {s} /\ s \notin Busy
    BY <1>5, ProducerAssumption DEF SendOrder, Busy, TypeOK
  <2>2. Cardinality(Busy') = busy + 1
    BY <1>1, <2>1, BusyFinite, FS_AddElement
  <2> QED
    BY <1>2, <1>3, <1>5, <2>2 DEF SendOrder, CountersAddUp
<1>6. ASSUME NEW s \in Sender, sending[s] # None, sending' = [sending EXCEPT ![s] = None]
      PROVE  Cardinality(Busy') = busy - 1
  <2>1. Busy' = Busy \ {s} /\ s \in Busy
    BY <1>6 DEF Busy, TypeOK
  <2> QED
    BY <1>1, <2>1, BusyFinite, FS_RemoveElement
<1>7. ASSUME NEW s \in Sender, Refused(s) PROVE CountersAddUp'
  <2>1. Cardinality(Busy') = busy - 1
    BY <1>6, <1>7 DEF Refused
  <2>2. Cardinality(Waiting') = wait
    BY <1>3, <1>7 DEF Refused
  <2> QED
    BY <1>2, <1>7, <2>1, <2>2 DEF Refused, CountersAddUp
<1>8. ASSUME NEW s \in Sender, Written(s) PROVE CountersAddUp'
  <2>1. PICK h : h = Hash[sending[s].client]
    OBVIOUS
  <2>2. h \in Partition
    BY <1>8, <2>1, ProducerAssumption DEF Written, FromSenders
  <2>3. /\ queue[h] \in Seq(GoodOrder) /\ sending[s] \in GoodOrder
        /\ queue'[h] = Append(queue[h], sending[s])
        /\ \A r \in Partition : r # h => queue'[r] = queue[r]
    BY <1>8, <2>1, <2>2 DEF Written, TypeOK
  <2>4. PICK k : k = Len(queue[h]) + 1
    OBVIOUS
  <2>5. \A i : /\ i \in DOMAIN queue'[h] <=> i \in DOMAIN queue[h] \/ i = k
               /\ k \notin DOMAIN queue[h]
    BY <2>3, <2>4
  <2>6. \A r, i, q, j : <<r, i>> = <<q, j>> => r = q /\ i = j
    OBVIOUS
  <2>7. Waiting' = Waiting \cup {<<h, k>>}
    BY <2>2, <2>3, <2>5, WaitingIs
  <2>8. <<h, k>> \notin Waiting
    BY <2>5, <2>6, WaitingIs
  <2>9. Cardinality(Waiting') = wait + 1
    BY <1>1, <2>7, <2>8, WaitingFinite, FS_AddElement
  <2>10. Cardinality(Busy') = busy - 1
    BY <1>6, <1>8 DEF Written
  <2> QED
    BY <1>2, <1>8, <2>9, <2>10 DEF Written, CountersAddUp
<1>9. ASSUME NEW p \in Partition, CompleteOk(p) \/ CompleteFail(p) PROVE CountersAddUp'
  <2>1. PICK copies \in Nat, n \in BatchSizes(p) :
          /\ EndBatch(p, n, copies)
          /\ \/ succ' = succ + n /\ fail' = fail
             \/ succ' = succ /\ fail' = fail + n
          /\ UNCHANGED <<sending, attempt, refused>>
    <3>1. 0 .. MaxCopies \subseteq Nat /\ 1 .. MaxCopies \subseteq Nat
      OBVIOUS
    <3>2. CASE CompleteOk(p)
      BY <3>1, <3>2 DEF CompleteOk
    <3>3. CASE CompleteFail(p)
      BY <3>1, <3>3 DEF CompleteFail
    <3> QED
      BY <1>9, <3>2, <3>3
  <2>2. Cardinality(Waiting') = wait - n /\ n \in Nat
    BY <1>1, <2>1, BatchLeaves
  <2>3. Cardinality(Busy') = busy
    BY <1>4, <2>1
  <2> QED
    BY <1>2, <2>1, <2>2, <2>3 DEF CountersAddUp
<1>10. CASE Close \/ CloseWriter \/ WriterClosed
  BY <1>2, <1>3, <1>4, <1>10 DEF Close, CloseWriter, WriterClosed, CountersAddUp
<1>11. ASSUME UNCHANGED vars PROVE CountersAddUp'
  BY <1>2, <1>3, <1>4, <1>11 DEF vars, CountersAddUp
<1>12. \A s \in Sender, o \in Order : Reject(s, o) => UNCHANGED vars
  BY DEF Reject
<1> QED
  BY <1>5, <1>7, <1>8, <1>9, <1>10, <1>11, <1>12 DEF Next

(* Orders come to the producer from its callers only.                      *)
LEMMA InitFromSenders == Init => FromSenders
BY NothingInEmpty DEF Init, FromSenders

LEMMA SendersStep ==
  ASSUME TypeOK, FromSenders, [Next]_vars
  PROVE  FromSenders'
<1> USE DEF counters, kafka, history
<1>1. ASSUME NEW s \in Sender, NEW o \in Order, SendOrder(s, o) PROVE FromSenders'
  BY <1>1 DEF SendOrder, FromSenders, TypeOK
<1>2. ASSUME NEW s \in Sender, Written(s) PROVE FromSenders'
  <2>1. taken \in Seq(GoodOrder) /\ sending[s] \in GoodOrder /\ sending[s] \in Order
    BY <1>2 DEF Written, TypeOK, FromSenders
  <2>2. ToSet(taken') = ToSet(taken) \cup {sending[s]}
    BY <1>2, <2>1, ToSetFacts DEF Written
  <2> QED
    BY <1>2, <2>1, <2>2 DEF Written, FromSenders, TypeOK
<1>3. ASSUME NEW s \in Sender, Refused(s) PROVE FromSenders'
  BY <1>3 DEF Refused, FromSenders, TypeOK
<1>4. ASSUME NEW p \in Partition, CompleteOk(p) \/ CompleteFail(p) PROVE FromSenders'
  BY <1>4 DEF CompleteOk, CompleteFail, FromSenders
<1>5. CASE Close \/ CloseWriter \/ WriterClosed
  BY <1>5 DEF Close, CloseWriter, WriterClosed, FromSenders
<1>6. ASSUME UNCHANGED vars PROVE FromSenders'
  BY <1>6 DEF vars, FromSenders
<1>7. \A s \in Sender, o \in Order : Reject(s, o) => UNCHANGED vars
  BY DEF Reject
<1> QED
  BY <1>1, <1>2, <1>3, <1>4, <1>5, <1>6, <1>7 DEF Next

(* Whatever is sent at the same time, batched, retried and refused: no     *)
(* attempt is lost from the counters or counted twice (producer.go:68-85). *)
THEOREM EveryAttemptCounted == Spec => []CountersAddUp
<1>1. Init => TypeOK /\ FromSenders /\ CountersAddUp
  BY InitTypeOK, InitFromSenders, InitCounters
<1>2. TypeOK /\ FromSenders /\ CountersAddUp /\ [Next]_vars
      => TypeOK' /\ FromSenders' /\ CountersAddUp'
  BY NextTypeOK, SendersStep, CountersStep
<1> QED
  BY <1>1, <1>2, PTL DEF Spec

-----------------------------------------------------------------------------
(* What a sequence of orders says last of an instrument.                   *)

(* The quotient and the remainder that \div and % give are the only ones.  *)
LEMMA Quotient ==
  ASSUME NEW a \in Nat, NEW n \in Nat, n > 0
  PROVE  /\ a \div n \in Nat /\ a % n \in 0 .. n - 1
         /\ a = n * (a \div n) + (a % n)
OBVIOUS

LEMMA NextMultiple ==
  ASSUME NEW a \in Nat, NEW b \in Nat, NEW n \in Nat, a < b
  PROVE  n * a + n <= n * b
<1>1. PICK d \in Nat : b = a + 1 + d
  <2>1. b - a - 1 \in Nat /\ b = a + 1 + (b - a - 1)
    OBVIOUS
  <2> QED
    BY <2>1
<1>2. n * b = n * a + n + n * d
  BY <1>1
<1>3. n * d \in Nat /\ n * a \in Nat
  OBVIOUS
<1> QED
  BY <1>2, <1>3

LEMMA RemainderIs ==
  ASSUME NEW n \in Nat, NEW k \in Nat, NEW r \in 0 .. n - 1
  PROVE  (n * k + r) % n = r
<1>1. PICK a : a = n * k + r
  OBVIOUS
<1>2. a \in Nat /\ n > 0 /\ n * k \in Nat
  BY <1>1
<1>3. PICK q \in Nat, s \in 0 .. n - 1 : a = n * q + s /\ s = a % n
  BY <1>2, Quotient
<1>4. n * q \in Nat
  OBVIOUS
<1>5. ~ (q < k)
  <2> SUFFICES ASSUME q < k PROVE FALSE
    OBVIOUS
  <2>1. n * q + n <= n * k
    BY NextMultiple
  <2> QED
    BY <1>1, <1>2, <1>3, <1>4, <2>1
<1>6. ~ (k < q)
  <2> SUFFICES ASSUME k < q PROVE FALSE
    OBVIOUS
  <2>1. n * k + n <= n * q
    BY NextMultiple
  <2> QED
    BY <1>1, <1>2, <1>3, <1>4, <2>1
<1>7. q = k
  BY <1>5, <1>6
<1>8. s = r /\ (n * k + r) % n = a % n
  BY <1>1, <1>3, <1>4, <1>7
<1> QED
  BY <1>3, <1>8

LEMMA MentionsIs ==
  ASSUME NEW S, NEW s \in Seq(S), NEW o
  PROVE  Mentions(o, s) <=> \E n \in 1 .. Len(s) : SameInstrument(o, s[n])
BY ElementsOf DEF Mentions

(* Of two sequences in a row, the second has the last word.                *)
LEMMA SaysLast ==
  ASSUME NEW S, NEW s \in Seq(S), NEW t \in Seq(S), NEW o
  PROVE  /\ Mentions(o, s \o t) <=> (Mentions(o, s) \/ Mentions(o, t))
         /\ EndsWith(o, s \o t)
            <=> (EndsWith(o, t) \/ (EndsWith(o, s) /\ ~Mentions(o, t)))
<1>1. PICK k, m : k = Len(s) /\ m = Len(t)
  OBVIOUS
<1>2. PICK u : u = s \o t
  OBVIOUS
<1>3. /\ k \in Nat /\ m \in Nat
      /\ u \in Seq(S) /\ Len(u) = k + m
      /\ DOMAIN u = 1 .. k + m /\ DOMAIN s = 1 .. k /\ DOMAIN t = 1 .. m
      /\ \A n \in 1 .. k : u[n] = s[n]
      /\ \A n \in 1 .. m : n + k \in 1 .. k + m /\ u[n + k] = t[n]
      /\ \A n \in k + 1 .. k + m : n - k \in 1 .. m /\ u[n] = t[n - k]
  BY <1>1, <1>2
<1>4. Mentions(o, u) <=> (Mentions(o, s) \/ Mentions(o, t))
  <2>1. /\ Mentions(o, u) <=> \E n \in 1 .. k + m : SameInstrument(o, u[n])
        /\ Mentions(o, s) <=> \E n \in 1 .. k : SameInstrument(o, s[n])
        /\ Mentions(o, t) <=> \E n \in 1 .. m : SameInstrument(o, t[n])
    BY <1>1, <1>3, MentionsIs
  <2>2. ASSUME NEW n \in 1 .. k + m, SameInstrument(o, u[n])
        PROVE  Mentions(o, s) \/ Mentions(o, t)
    <3>1. CASE n \in 1 .. k
      BY <1>3, <2>1, <2>2, <3>1
    <3>2. CASE n \in k + 1 .. k + m
      BY <1>3, <2>1, <2>2, <3>2
    <3> QED
      BY <1>3, <3>1, <3>2
  <2>3. ASSUME NEW n \in 1 .. k, SameInstrument(o, s[n]) PROVE Mentions(o, u)
    <3>1. n \in 1 .. k + m /\ SameInstrument(o, u[n])
      BY <1>3, <2>3
    <3> QED
      BY <2>1, <3>1
  <2>4. ASSUME NEW n \in 1 .. m, SameInstrument(o, t[n]) PROVE Mentions(o, u)
    <3>1. n + k \in 1 .. k + m /\ SameInstrument(o, u[n + k])
      BY <1>3, <2>4
    <3> QED
      BY <2>1, <3>1
  <2> QED
    BY <2>1, <2>2, <2>3, <2>4
<1>5. ASSUME EndsWith(o, t) PROVE EndsWith(o, u)
  <2>1. PICK n \in 1 .. m :
          /\ SameInstrument(o, t[n]) /\ t[n].act = o.act
          /\ \A j \in 1 .. m : SameInstrument(o, t[j]) => j <= n
    BY <1>3, <1>5 DEF EndsWith
  <2>2. n + k \in 1 .. k + m /\ u[n + k] = t[n]
    BY <1>3
  <2>3. ASSUME NEW j \in 1 .. k + m, SameInstrument(o, u[j]) PROVE j <= n + k
    <3>1. CASE j \in 1 .. k
      BY <1>3, <3>1
    <3>2. CASE j \in k + 1 .. k + m
      <4>1. j - k \in 1 .. m /\ SameInstrument(o, t[j - k])
        BY <1>3, <2>3, <3>2
      <4>2. j - k <= n
        BY <2>1, <4>1
      <4> QED
        BY <1>3, <4>2
    <3> QED
      BY <1>3, <3>1, <3>2
  <2> QED
    BY <1>3, <2>1, <2>2, <2>3 DEF EndsWith
<1>6. ASSUME EndsWith(o, s), ~Mentions(o, t) PROVE EndsWith(o, u)
  <2>1. PICK n \in 1 .. k :
          /\ SameInstrument(o, s[n]) /\ s[n].act = o.act
          /\ \A j \in 1 .. k : SameInstrument(o, s[j]) => j <= n
    BY <1>3, <1>6 DEF EndsWith
  <2>2. n \in 1 .. k + m /\ u[n] = s[n]
    BY <1>3
  <2>3. \A j \in 1 .. m : ~SameInstrument(o, t[j])
    BY <1>1, <1>6, MentionsIs
  <2>4. ASSUME NEW j \in 1 .. k + m, SameInstrument(o, u[j]) PROVE j <= n
    <3>1. CASE j \in 1 .. k
      BY <1>3, <2>1, <2>4, <3>1
    <3>2. CASE j \in k + 1 .. k + m
      BY <1>3, <2>3, <2>4, <3>2
    <3> QED
      BY <1>3, <3>1, <3>2
  <2> QED
    BY <1>3, <2>1, <2>2, <2>4 DEF EndsWith
<1>7. ASSUME EndsWith(o, u) PROVE EndsWith(o, t) \/ (EndsWith(o, s) /\ ~Mentions(o, t))
  <2>1. PICK n \in 1 .. k + m :
          /\ SameInstrument(o, u[n]) /\ u[n].act = o.act
          /\ \A j \in 1 .. k + m : SameInstrument(o, u[j]) => j <= n
    BY <1>3, <1>7 DEF EndsWith
  <2>2. ASSUME NEW j \in 1 .. m, SameInstrument(o, t[j]) PROVE j + k <= n
    BY <1>3, <2>1, <2>2
  <2>3. CASE n \in 1 .. k
    <3>1. \A j \in 1 .. m : ~SameInstrument(o, t[j])
      BY <1>3, <2>2, <2>3
    <3>2. ~Mentions(o, t)
      BY <1>1, <3>1, MentionsIs
    <3>3. \A j \in 1 .. k : SameInstrument(o, s[j]) => j <= n
      BY <1>3, <2>1
    <3>4. SameInstrument(o, s[n]) /\ s[n].act = o.act
      BY <1>3, <2>1, <2>3
    <3> QED
      BY <1>3, <2>3, <3>2, <3>3, <3>4 DEF EndsWith
  <2>4. CASE n \in k + 1 .. k + m
    <3>1. n - k \in 1 .. m /\ SameInstrument(o, t[n - k]) /\ t[n - k].act = o.act
      BY <1>3, <2>1, <2>4
    <3>2. \A j \in 1 .. m : SameInstrument(o, t[j]) => j <= n - k
      BY <1>3, <2>2
    <3> QED
      BY <1>3, <3>1, <3>2 DEF EndsWith
  <2> QED
    BY <1>3, <2>3, <2>4
<1> QED
  BY <1>2, <1>4, <1>5, <1>6, <1>7

LEMMA EndsMention ==
  ASSUME NEW S, NEW s \in Seq(S), NEW o, EndsWith(o, s)
  PROVE  Mentions(o, s)
BY MentionsIs DEF EndsWith

(* A batch that is written several times over says what it says once.      *)
LEMMA RepeatedSays ==
  ASSUME NEW S, NEW s \in Seq(S), Len(s) > 0, NEW c \in Nat, NEW o
  PROVE  /\ Mentions(o, Repeated(s, c)) => Mentions(o, s)
         /\ c > 0 /\ EndsWith(o, s) => EndsWith(o, Repeated(s, c))
<1>1. PICK k : k = Len(s)
  OBVIOUS
<1>2. PICK u : u = Repeated(s, c)
  OBVIOUS
<1>3. k \in Nat /\ k > 0 /\ c * k \in Nat
  BY <1>1
<1>4. u \in Seq(S) /\ Len(u) = c * k /\ DOMAIN u = 1 .. c * k /\ DOMAIN s = 1 .. k
  <2>1. u \in Seq(S)
    BY <1>2, RepeatedType
  <2>2. DOMAIN u = 1 .. c * k
    BY <1>1, <1>2 DEF Repeated
  <2> QED
    BY <1>1, <1>3, <2>1, <2>2
<1>5. ASSUME NEW i \in 1 .. c * k
      PROVE  \E q \in 0 .. c - 1, n \in 1 .. k : i = k * q + n /\ u[i] = s[n]
  <2>1. i - 1 \in Nat
    BY <1>3
  <2>2. PICK q \in Nat, r \in 0 .. k - 1 : i - 1 = k * q + r /\ r = (i - 1) % k
    BY <1>3, <2>1, Quotient
  <2>3. u[i] = s[r + 1]
    BY <1>1, <1>2, <2>2 DEF Repeated
  <2>4. k * q \in Nat /\ k * c = c * k
    BY <1>3
  <2>5. ~ (c <= q)
    <3>1. CASE c = q
      BY <1>3, <2>2, <2>4, <3>1
    <3>2. CASE c < q
      <4>1. k * c + k <= k * q
        BY <1>3, <3>2, NextMultiple
      <4> QED
        BY <1>3, <2>2, <2>4, <4>1
    <3> QED
      BY <3>1, <3>2
  <2>6. q \in 0 .. c - 1 /\ r + 1 \in 1 .. k
    BY <1>3, <2>2, <2>5
  <2>7. i = k * q + (r + 1)
    BY <2>1, <2>2, <2>4
  <2> QED
    BY <2>3, <2>6, <2>7
<1>6. ASSUME Mentions(o, u) PROVE Mentions(o, s)
  <2>1. PICK i \in 1 .. c * k : SameInstrument(o, u[i])
    BY <1>4, <1>6, MentionsIs
  <2>2. PICK n \in 1 .. k : u[i] = s[n]
    BY <1>5
  <2> QED
    BY <1>1, <2>1, <2>2, MentionsIs
<1>7. ASSUME c > 0, EndsWith(o, s) PROVE EndsWith(o, u)
  <2>1. PICK n \in 1 .. k :
          /\ SameInstrument(o, s[n]) /\ s[n].act = o.act
          /\ \A j \in 1 .. k : SameInstrument(o, s[j]) => j <= n
    BY <1>4, <1>7 DEF EndsWith
  <2>2. PICK d \in Nat : c = d + 1
    <3>1. c - 1 \in Nat /\ c = (c - 1) + 1
      BY <1>7
    <3> QED
      BY <3>1
  <2>3. PICK i : i = k * d + n
    OBVIOUS
  <2>4. k * d \in Nat /\ c * k = k * d + k
    BY <1>3, <2>2
  <2>5. i \in 1 .. c * k
    BY <1>3, <2>3, <2>4
  <2>6. u[i] = s[n]
    <3>1. n - 1 \in 0 .. k - 1 /\ i - 1 = k * d + (n - 1)
      BY <1>3, <2>3, <2>4
    <3>2. (k * d + (n - 1)) % k = n - 1
      BY <1>3, <3>1, RemainderIs
    <3>3. (i - 1) % k = n - 1
      BY <3>1, <3>2
    <3>4. u[i] = s[((i - 1) % k) + 1]
      BY <1>1, <1>2, <2>5 DEF Repeated
    <3>5. n - 1 + 1 = n
      OBVIOUS
    <3> QED
      BY <3>3, <3>4, <3>5
  <2>7. ASSUME NEW j \in 1 .. c * k, SameInstrument(o, u[j]) PROVE j <= i
    <3>1. PICK q \in 0 .. d, m \in 1 .. k : j = k * q + m /\ u[j] = s[m]
      BY <1>5, <2>2
    <3>2. m <= n
      BY <2>1, <2>7, <3>1
    <3>3. k * q \in Nat /\ k * q <= k * d
      <4>1. CASE q = d
        BY <1>3, <4>1
      <4>2. CASE q < d
        <5>1. k * q + k <= k * d
          BY <1>3, <4>2, NextMultiple
        <5>2. k * q \in Nat
          BY <1>3
        <5> QED
          BY <1>3, <2>4, <5>1, <5>2
      <4> QED
        BY <4>1, <4>2
    <3> QED
      BY <1>3, <2>3, <2>4, <3>1, <3>2, <3>3
  <2> QED
    BY <1>4, <2>1, <2>5, <2>6, <2>7 DEF EndsWith
<1> QED
  BY <1>2, <1>6, <1>7

-----------------------------------------------------------------------------
(* What the partitions say last.                                           *)

LEMMA LineType ==
  ASSUME TypeOK, NEW p \in Partition
  PROVE  topic[p] \in Seq(GoodOrder) /\ queue[p] \in Seq(GoodOrder) /\ Line(p) \in Seq(GoodOrder)
BY DEF TypeOK, Line

LEMMA ConcatElements ==
  ASSUME NEW S, NEW s \in Seq(S), NEW t \in Seq(S)
  PROVE  ToSet(s \o t) = ToSet(s) \cup ToSet(t)
<1>1. PICK k, m : k = Len(s) /\ m = Len(t)
  OBVIOUS
<1>2. PICK u : u = s \o t
  OBVIOUS
<1>3. /\ k \in Nat /\ m \in Nat
      /\ u \in Seq(S) /\ Len(u) = k + m
      /\ \A n \in 1 .. k : n \in 1 .. k + m /\ u[n] = s[n]
      /\ \A n \in 1 .. m : n + k \in 1 .. k + m /\ u[n + k] = t[n]
      /\ \A n \in 1 .. k + m : n \in 1 .. k \/ (n - k \in 1 .. m /\ u[n] = t[n - k])
  BY <1>1, <1>2
<1>4. /\ \A x : x \in ToSet(u) <=> \E n \in 1 .. k + m : x = u[n]
      /\ \A x : x \in ToSet(s) <=> \E n \in 1 .. k : x = s[n]
      /\ \A x : x \in ToSet(t) <=> \E n \in 1 .. m : x = t[n]
  <2>1. \A v \in Seq(S) : \A x : x \in ToSet(v) <=> \E n \in 1 .. Len(v) : x = v[n]
    BY ElementsOf
  <2> QED
    BY <1>1, <1>3, <2>1
<1>5. ASSUME NEW x, x \in ToSet(u) PROVE x \in ToSet(s) \cup ToSet(t)
  <2>1. PICK n \in 1 .. k + m : x = u[n]
    BY <1>4, <1>5
  <2>2. CASE n \in 1 .. k
    <3>1. x = s[n]
      BY <1>3, <2>1, <2>2
    <3> QED
      BY <1>4, <2>2, <3>1
  <2>3. CASE n - k \in 1 .. m /\ x = t[n - k]
    BY <1>4, <2>3
  <2> QED
    BY <1>3, <2>1, <2>2, <2>3
<1>6. ASSUME NEW x, x \in ToSet(s) \cup ToSet(t) PROVE x \in ToSet(u)
  <2>1. CASE x \in ToSet(s)
    <3>1. PICK n \in 1 .. k : x = s[n]
      BY <1>4, <2>1
    <3>2. n \in 1 .. k + m /\ x = u[n]
      BY <1>3, <3>1
    <3> QED
      BY <1>4, <3>2
  <2>2. CASE x \in ToSet(t)
    <3>1. PICK n \in 1 .. m : x = t[n]
      BY <1>4, <2>2
    <3>2. n + k \in 1 .. k + m /\ x = u[n + k]
      BY <1>3, <3>1
    <3> QED
      BY <1>4, <3>2
  <2> QED
    BY <1>6, <2>1, <2>2
<1> QED
  BY <1>2, <1>5, <1>6

LEMMA RepeatedElements ==
  ASSUME NEW S, NEW s \in Seq(S), Len(s) > 0, NEW c \in Nat
  PROVE  ToSet(Repeated(s, c)) \subseteq ToSet(s)
<1>1. PICK k : k = Len(s)
  OBVIOUS
<1>2. k \in Nat /\ k > 0 /\ c * k \in Nat
  BY <1>1
<1>3. Repeated(s, c) \in Seq(S) /\ DOMAIN Repeated(s, c) = 1 .. c * k
  BY <1>1, RepeatedType DEF Repeated
<1>4. ASSUME NEW i \in 1 .. c * k PROVE Repeated(s, c)[i] \in ToSet(s)
  <2>1. i - 1 \in Nat
    BY <1>2
  <2>2. ((i - 1) % k) + 1 \in 1 .. k
    BY <1>2, <2>1, Quotient
  <2>3. Repeated(s, c)[i] = s[((i - 1) % k) + 1]
    BY <1>1 DEF Repeated
  <2> QED
    BY <1>1, <2>2, <2>3, ElementsOf
<1> QED
  BY <1>3, <1>4 DEF ToSet

(* A batch that is written, however often, leaves what its line says last  *)
(* of an instrument, unless it speaks of the instrument and is lost.       *)
LEMMA BatchKeepsLine ==
  ASSUME TypeOK, NEW p \in Partition, NEW n \in BatchSizes(p), NEW copies \in Nat,
         EndBatch(p, n, copies)
  PROVE  /\ \A r \in Partition : r # p => Line(r)' = Line(r)
         /\ ToSet(Line(p)') \subseteq ToSet(Line(p))
         /\ \A o : /\ copies > 0 \/ ~Mentions(o, SubSeq(queue[p], 1, n))
                   /\ EndsWith(o, Line(p))
                   => EndsWith(o, Line(p)')
<1>1. PICK m : m = Len(queue[p])
  OBVIOUS
<1>2. PICK q : q = queue[p]
  OBVIOUS
<1>3. q \in Seq(GoodOrder) /\ m \in Nat /\ n \in 1 .. m
  BY <1>1, <1>2 DEF BatchSizes, TypeOK
<1>4. PICK b, t, d : b = SubSeq(q, 1, n) /\ t = SubSeq(q, n + 1, m) /\ d = topic[p]
  OBVIOUS
<1>5. /\ b \in Seq(GoodOrder) /\ t \in Seq(GoodOrder) /\ d \in Seq(GoodOrder)
      /\ Len(b) = n /\ Len(b) > 0
  BY <1>1, <1>2, <1>3, <1>4, LineType
<1>6. q = b \o t
  BY <1>1, <1>2, <1>3, <1>4
<1>7. PICK u : u = Repeated(b, copies)
  OBVIOUS
<1>8. u \in Seq(GoodOrder) /\ ToSet(u) \subseteq ToSet(b)
  BY <1>5, <1>7, RepeatedType, RepeatedElements
<1>9. /\ queue'[p] = t /\ topic'[p] = d \o u
      /\ \A r \in Partition : r # p => queue'[r] = queue[r] /\ topic'[r] = topic[r]
  BY <1>1, <1>2, <1>4, <1>7 DEF EndBatch, TypeOK
<1>10. PICK g, h : g = b \o t /\ h = d \o u
  OBVIOUS
<1>11. /\ g \in Seq(GoodOrder) /\ h \in Seq(GoodOrder)
       /\ Line(p) = d \o g /\ Line(p)' = h \o t
  <2>1. g \in Seq(GoodOrder) /\ h \in Seq(GoodOrder)
    BY <1>5, <1>8, <1>10
  <2>2. Line(p) = d \o g
    BY <1>2, <1>4, <1>6, <1>10 DEF Line
  <2>3. Line(p)' = h \o t
    BY <1>9, <1>10 DEF Line
  <2> QED
    BY <2>1, <2>2, <2>3
<1>12. ToSet(Line(p)') \subseteq ToSet(Line(p))
  <2>1. \A v, w \in Seq(GoodOrder) : ToSet(v \o w) = ToSet(v) \cup ToSet(w)
    BY ConcatElements
  <2>2. /\ ToSet(g) = ToSet(b) \cup ToSet(t) /\ ToSet(h) = ToSet(d) \cup ToSet(u)
        /\ ToSet(d \o g) = ToSet(d) \cup ToSet(g) /\ ToSet(h \o t) = ToSet(h) \cup ToSet(t)
    BY <1>5, <1>8, <1>10, <1>11, <2>1
  <2> QED
    BY <1>8, <1>11, <2>2
<1>13. ASSUME NEW o, EndsWith(o, Line(p)), copies > 0 \/ ~Mentions(o, b)
       PROVE  EndsWith(o, Line(p)')
  <2>1. /\ EndsWith(o, d \o g) <=> (EndsWith(o, g) \/ (EndsWith(o, d) /\ ~Mentions(o, g)))
        /\ EndsWith(o, g) <=> (EndsWith(o, t) \/ (EndsWith(o, b) /\ ~Mentions(o, t)))
        /\ Mentions(o, g) <=> (Mentions(o, b) \/ Mentions(o, t))
        /\ EndsWith(o, h \o t) <=> (EndsWith(o, t) \/ (EndsWith(o, h) /\ ~Mentions(o, t)))
        /\ EndsWith(o, h) <=> (EndsWith(o, u) \/ (EndsWith(o, d) /\ ~Mentions(o, u)))
    <3>1. \A v, w \in Seq(GoodOrder) :
            /\ Mentions(o, v \o w) <=> (Mentions(o, v) \/ Mentions(o, w))
            /\ EndsWith(o, v \o w)
               <=> (EndsWith(o, w) \/ (EndsWith(o, v) /\ ~Mentions(o, w)))
      BY SaysLast
    <3> QED
      BY <1>5, <1>8, <1>10, <1>11, <3>1
  <2>2. /\ Mentions(o, u) => Mentions(o, b)
        /\ copies > 0 /\ EndsWith(o, b) => EndsWith(o, u)
    BY <1>5, <1>7, RepeatedSays
  <2>3. EndsWith(o, b) => Mentions(o, b)
    BY <1>5, EndsMention
  <2> QED
    BY <1>11, <1>13, <2>1, <2>2, <2>3
<1>14. \A r \in Partition : r # p => Line(r)' = Line(r)
  BY <1>9 DEF Line
<1> QED
  BY <1>2, <1>4, <1>12, <1>13, <1>14

(* A record behind the others has the last word on its instrument and none *)
(* on another.                                                             *)
LEMMA OneMore ==
  ASSUME NEW S, NEW s \in Seq(S), NEW w \in S, NEW o
  PROVE  EndsWith(o, Append(s, w))
         <=> IF SameInstrument(o, w) THEN w.act = o.act ELSE EndsWith(o, s)
<1>1. PICK t : t = <<w>>
  OBVIOUS
<1>2. t \in Seq(S) /\ DOMAIN t = {1} /\ Len(t) = 1 /\ t[1] = w /\ Append(s, w) = s \o t
  BY <1>1
<1>3. Mentions(o, t) <=> SameInstrument(o, w)
  BY <1>2, MentionsIs
<1>4. EndsWith(o, t) <=> (SameInstrument(o, w) /\ w.act = o.act)
  <2>1. 1 <= 1
    OBVIOUS
  <2> QED
    BY <1>2, <2>1 DEF EndsWith
<1>5. EndsWith(o, s \o t) <=> (EndsWith(o, t) \/ (EndsWith(o, s) /\ ~Mentions(o, t)))
  BY <1>2, SaysLast
<1> QED
  BY <1>2, <1>3, <1>4, <1>5

LEMMA InitLine == Init => LineInv
<1> SUFFICES ASSUME Init PROVE LineInv
  OBVIOUS
<1>1. <<>> \o <<>> = <<>>
  OBVIOUS
<1>2. \A p \in Partition : Line(p) = <<>>
  BY <1>1 DEF Init, Line
<1> QED
  BY <1>2, NothingInEmpty DEF Init, LineInv

(* A step that takes nothing and writes nothing.                           *)
LEMMA LineStutter ==
  ASSUME LineInv, UNCHANGED <<queue, topic, taken, lost>>
  PROVE  LineInv'
<1>1. \A p : Line(p)' = Line(p)
  BY DEF Line
<1> QED
  BY <1>1 DEF LineInv

LEMMA WrittenLine ==
  ASSUME TypeOK, FromSenders, LineInv, NEW s \in Sender, Written(s)
  PROVE  LineInv'
<1>1. PICK w : w = sending[s]
  OBVIOUS
<1>2. PICK h : h = Hash[w.client]
  OBVIOUS
<1>3. w \in GoodOrder /\ w \in Order
  BY <1>1 DEF Written, TypeOK, FromSenders
<1>4. h \in Partition
  BY <1>2, <1>3, ProducerAssumption
<1>5. /\ queue'[h] = Append(queue[h], w) /\ topic' = topic
      /\ \A r \in Partition : r # h => queue'[r] = queue[r]
      /\ taken' = Append(taken, w) /\ lost' = lost
  BY <1>1, <1>2, <1>4 DEF Written, TypeOK
<1>6. \A r \in Partition : r # h => Line(r)' = Line(r)
  BY <1>5 DEF Line
<1>7. Line(h)' = Append(Line(h), w)
  <2>1. \A t, q \in Seq(GoodOrder) : t \o Append(q, w) = Append(t \o q, w)
    BY <1>3
  <2> QED
    BY <1>4, <1>5, <2>1, LineType DEF Line
<1>8. Line(h) \in Seq(GoodOrder) /\ taken \in Seq(GoodOrder)
  BY <1>4, LineType DEF TypeOK
<1>9. /\ ToSet(Line(h)') = ToSet(Line(h)) \cup {w}
      /\ ToSet(taken') = ToSet(taken) \cup {w}
  BY <1>3, <1>5, <1>7, <1>8, ToSetFacts
<1>10. ASSUME NEW p \in Partition, NEW q \in ToSet(Line(p)') PROVE Hash[q.client] = p
  <2>1. CASE p = h
    BY <1>2, <1>4, <1>9, <1>10, <2>1 DEF LineInv
  <2>2. CASE p # h
    BY <1>6, <1>10, <2>2 DEF LineInv
  <2> QED
    BY <2>1, <2>2
<1>11. ASSUME NEW o \in ToSet(taken'), EndsWith(o, taken'),
              \A q \in lost' : ~SameInstrument(o, q)
       PROVE  EndsWith(o, Line(Hash[o.client])')
  <2>1. EndsWith(o, Append(taken, w))
        <=> IF SameInstrument(o, w) THEN w.act = o.act ELSE EndsWith(o, taken)
    BY <1>3, <1>8, OneMore
  <2>2. EndsWith(o, Append(Line(h), w))
        <=> IF SameInstrument(o, w) THEN w.act = o.act ELSE EndsWith(o, Line(h))
    BY <1>3, <1>8, OneMore
  <2>3. CASE SameInstrument(o, w)
    <3>1. Hash[o.client] = h
      BY <1>2, <2>3 DEF SameInstrument
    <3> QED
      BY <1>5, <1>7, <1>11, <2>1, <2>2, <2>3, <3>1
  <2>4. CASE ~SameInstrument(o, w)
    <3>1. o \in ToSet(taken)
      BY <1>9, <2>4 DEF SameInstrument
    <3>2. EndsWith(o, Line(Hash[o.client]))
      BY <1>5, <1>11, <2>1, <2>4, <3>1 DEF LineInv
    <3>3. Hash[o.client] \in Partition
      BY <3>1, ProducerAssumption DEF FromSenders
    <3>4. CASE Hash[o.client] = h
      BY <1>7, <2>2, <2>4, <3>2, <3>4
    <3>5. CASE Hash[o.client] # h
      BY <1>6, <3>2, <3>3, <3>5
    <3> QED
      BY <3>4, <3>5
  <2> QED
    BY <2>3, <2>4
<1> QED
  BY <1>10, <1>11 DEF LineInv

LEMMA BatchLine ==
  ASSUME TypeOK, FromSenders, LineInv, NEW p \in Partition, CompleteOk(p) \/ CompleteFail(p)
  PROVE  LineInv'
<1>1. PICK copies \in Nat, n \in BatchSizes(p) :
        /\ EndBatch(p, n, copies)
        /\ (copies > 0 /\ lost' = lost) \/ lost' = lost \cup ToSet(SubSeq(queue[p], 1, n))
        /\ taken' = taken
  <2>1. 0 .. MaxCopies \subseteq Nat /\ \A c \in 1 .. MaxCopies : c \in Nat /\ c > 0
    OBVIOUS
  <2>2. CASE CompleteOk(p)
    BY <2>1, <2>2 DEF CompleteOk, history
  <2>3. CASE CompleteFail(p)
    BY <2>1, <2>3 DEF CompleteFail
  <2> QED
    BY <2>2, <2>3
<1>2. /\ \A r \in Partition : r # p => Line(r)' = Line(r)
      /\ ToSet(Line(p)') \subseteq ToSet(Line(p))
      /\ \A o : /\ copies > 0 \/ ~Mentions(o, SubSeq(queue[p], 1, n))
                /\ EndsWith(o, Line(p))
                => EndsWith(o, Line(p)')
  BY <1>1, BatchKeepsLine
<1>3. ASSUME NEW r \in Partition, NEW q \in ToSet(Line(r)') PROVE Hash[q.client] = r
  BY <1>2, <1>3 DEF LineInv
<1>4. ASSUME NEW o \in ToSet(taken'), EndsWith(o, taken'),
             \A q \in lost' : ~SameInstrument(o, q)
      PROVE  EndsWith(o, Line(Hash[o.client])')
  <2>1. EndsWith(o, Line(Hash[o.client]))
    BY <1>1, <1>4 DEF LineInv
  <2>2. Hash[o.client] \in Partition
    BY <1>1, ProducerAssumption DEF FromSenders
  <2>3. copies > 0 \/ ~Mentions(o, SubSeq(queue[p], 1, n))
    BY <1>1, <1>4 DEF Mentions
  <2> QED
    BY <1>2, <2>1, <2>2, <2>3
<1> QED
  BY <1>3, <1>4 DEF LineInv

LEMMA LineStep ==
  ASSUME TypeOK, FromSenders, LineInv, [Next]_vars
  PROVE  LineInv'
<1> USE DEF counters, kafka, history
<1>1. ASSUME NEW s \in Sender, NEW o \in Order, SendOrder(s, o) PROVE LineInv'
  BY <1>1, LineStutter DEF SendOrder
<1>2. ASSUME NEW s \in Sender, Written(s) PROVE LineInv'
  BY <1>2, WrittenLine
<1>3. ASSUME NEW s \in Sender, Refused(s) PROVE LineInv'
  BY <1>3, LineStutter DEF Refused
<1>4. ASSUME NEW p \in Partition, CompleteOk(p) \/ CompleteFail(p) PROVE LineInv'
  BY <1>4, BatchLine
<1>5. CASE Close \/ CloseWriter \/ WriterClosed
  BY <1>5, LineStutter DEF Close, CloseWriter, WriterClosed
<1>6. ASSUME UNCHANGED vars PROVE LineInv'
  BY <1>6, LineStutter DEF vars
<1>7. \A s \in Sender, o \in Order : Reject(s, o) => UNCHANGED vars
  BY DEF Reject
<1> QED
  BY <1>1, <1>2, <1>3, <1>4, <1>5, <1>6, <1>7 DEF Next

LEMMA LineTellsLastAction ==
  ASSUME TypeOK, FromSenders, LineInv
  PROVE  TopicTellsLastAction
<1> SUFFICES ASSUME NEW o \in ToSet(taken), NEW p \in Partition,
                    EndsWith(o, taken),
                    \A q \in lost : ~SameInstrument(o, q),
                    \A r \in Partition : ~Mentions(o, queue[r])
             PROVE  IF p = Hash[o.client] THEN EndsWith(o, topic[p]) ELSE ~Mentions(o, topic[p])
  BY DEF TopicTellsLastAction
<1>1. topic[p] \in Seq(GoodOrder) /\ queue[p] \in Seq(GoodOrder)
  BY LineType
<1>2. CASE p = Hash[o.client]
  <2>1. EndsWith(o, topic[p] \o queue[p])
    BY <1>2 DEF LineInv, Line
  <2>2. EndsWith(o, queue[p]) => Mentions(o, queue[p])
    BY <1>1, EndsMention
  <2>3. EndsWith(o, topic[p] \o queue[p])
        <=> (EndsWith(o, queue[p]) \/ (EndsWith(o, topic[p]) /\ ~Mentions(o, queue[p])))
    BY <1>1, SaysLast
  <2> QED
    BY <1>2, <2>1, <2>2, <2>3
<1>3. CASE p # Hash[o.client]
  <2>1. ASSUME NEW q \in ToSet(topic[p]) PROVE ~SameInstrument(o, q)
    <3>1. q \in ToSet(Line(p))
      BY <1>1, ConcatElements DEF Line
    <3>2. Hash[q.client] = p
      BY <3>1 DEF LineInv
    <3> QED
      BY <1>3, <3>2 DEF SameInstrument
  <2> QED
    BY <1>3, <2>1 DEF Mentions
<1> QED
  BY <1>2, <1>3

(* The inductive invariant holds in every reachable state.                 *)
THEOREM ProducerSafe == Spec => []ProducerInv
<1>1. Init => ProducerInv
  BY InitTypeOK, InitFromSenders, InitLine, InitCounters DEF ProducerInv
<1>2. ProducerInv /\ [Next]_vars => ProducerInv'
  BY NextTypeOK, SendersStep, LineStep, CountersStep DEF ProducerInv
<1> QED
  BY <1>1, <1>2, PTL DEF Spec

(* However many goroutines send, and however the writer batches, retries   *)
(* and repeats: the partition of a client ends with the action taken last  *)
(* for an instrument, unless a batch with the instrument failed            *)
(* (producer.go:75-85; the key of the message is the client).              *)
THEOREM TopicEndsAsTaken == Spec => []TopicTellsLastAction
<1>1. ProducerInv => TopicTellsLastAction
  BY LineTellsLastAction DEF ProducerInv
<1> QED
  BY <1>1, ProducerSafe, PTL

=============================================================================
