--------------------------- MODULE Delivery_proofs ---------------------------
(***************************************************************************)
(* Proofs about the order in which the consumer group handles the records  *)
(* of the topic, and about the rows that come of it, for any number of     *)
(* processes and any faults but a rebalance: a partition changes its owner *)
(* only when a process has ended.                                          *)
(*                                                                         *)
(* In this order: commits and the records before them (OrderInv), the      *)
(* handlers of the whole group (HandsOver and the invariant of UpdSvr), the*)
(* rows once everything was handled (RowsInv), and the rows at every       *)
(* moment (the refinement of OrderRows).                                   *)
(***************************************************************************)
EXTENDS Consumer_proofs

NoRebalance == "rebalance" \notin Faults

-----------------------------------------------------------------------------
(* Sequences of records in the order of the log.                           *)

LEMMA IncreasingAppend ==
  ASSUME NEW S, NEW ms \in Seq(S), NEW m \in S, Increasing(ms),
         \A n \in ToSet(ms) : Ahead(n, m)
  PROVE  Increasing(Append(ms, m))
<1>1. /\ DOMAIN ms = 1 .. Len(ms) /\ Len(ms) \in Nat
      /\ DOMAIN Append(ms, m) = 1 .. Len(ms) + 1
      /\ Append(ms, m)[Len(ms) + 1] = m
      /\ \A a \in 1 .. Len(ms) : Append(ms, m)[a] = ms[a] /\ ms[a] \in ToSet(ms)
  BY DEF ToSet
<1>2. ASSUME NEW a \in 1 .. Len(ms) + 1, NEW b \in 1 .. Len(ms) + 1, a < b
      PROVE  Ahead(Append(ms, m)[a], Append(ms, m)[b])
  <2>1. a \in 1 .. Len(ms) /\ (b \in 1 .. Len(ms) \/ b = Len(ms) + 1)
    BY <1>1, <1>2
  <2>2. Increasing(ms) => (b \in 1 .. Len(ms) => Ahead(ms[a], ms[b]))
    BY <1>1, <1>2, <2>1 DEF Increasing
  <2> QED
    BY <1>1, <2>1, <2>2
<1> QED
  BY <1>1, <1>2 DEF Increasing

LEMMA IncreasingTail ==
  ASSUME NEW S, NEW ms \in Seq(S), ms # <<>>, Increasing(ms)
  PROVE  Increasing(Tail(ms)) /\ \A m \in ToSet(Tail(ms)) : Ahead(Head(ms), m)
<1>1. PICK t : t = Tail(ms)
  OBVIOUS
<1>2. /\ DOMAIN ms = 1 .. Len(ms) /\ Len(ms) \in Nat /\ Len(ms) > 0 /\ Head(ms) = ms[1]
      /\ t \in Seq(S) /\ Len(t) = Len(ms) - 1 /\ DOMAIN t = 1 .. Len(t)
      /\ \A a \in 1 .. Len(t) : t[a] = ms[a + 1]
  BY <1>1, HeadTailProperties
<1>3. ASSUME NEW a \in DOMAIN t, NEW b \in DOMAIN t, a < b PROVE Ahead(t[a], t[b])
  <2>1. a + 1 \in DOMAIN ms /\ b + 1 \in DOMAIN ms /\ a + 1 < b + 1
    BY <1>2, <1>3
  <2> QED
    BY <1>2, <2>1 DEF Increasing
<1>4. ASSUME NEW m \in ToSet(t) PROVE Ahead(ms[1], m)
  <2>1. PICK a \in 1 .. Len(t) : m = t[a]
    BY <1>2, ElementsOf
  <2>2. a + 1 \in DOMAIN ms /\ 1 \in DOMAIN ms /\ 1 < a + 1
    BY <1>2
  <2> QED
    BY <1>2, <2>1, <2>2 DEF Increasing
<1> QED
  BY <1>1, <1>2, <1>3, <1>4 DEF Increasing

LEMMA IncreasingNothing == Increasing(<<>>)
BY DEF Increasing

-----------------------------------------------------------------------------
(* A process handles its records in the order of the log.                  *)

LEMMA LogKept ==
  ASSUME log' = log
  PROVE  /\ AllRefs' = AllRefs
         /\ \A m : RecordAt(m)' = RecordAt(m) /\ SlotOf(m)' = SlotOf(m)
         /\ \A m, k : IsOpOn(m, k)' <=> IsOpOn(m, k)
BY DEF AllRefs, RecordAt, SlotOf, IsOpOn

LEMMA PlaceFacts ==
  ASSUME EngineInv
  PROVE  \A m \in AllRefs : /\ m[1] \in Partition /\ m[2] \in Nat /\ m = <<m[1], m[2]>>
                            /\ pos[m[1]] \in Nat /\ committed[m[1]] \in Nat
                            /\ SlotOf(m) \in Slot
BY RefFacts DEF EngineInv, EngineTypes

LEMMA InitOrderInv == Init => OrderInv
<1> SUFFICES ASSUME Init PROVE OrderInv
  OBVIOUS
<1>1. \A w \in Worker : /\ chan[w] = <<>> /\ batch[w] = <<>> /\ disp[w[1]] = "fetch"
                        /\ HeldBy(w) = {}
  BY WorkerFacts, NothingInEmpty DEF Init, HeldBy
<1>2. \A w \in Worker : InLine(w) /\ NoneSkipped(w)
  BY <1>1, NothingInEmpty, IncreasingNothing DEF InLine, NoneSkipped
<1>3. OwnersHold /\ PositionsInv
  BY <1>1 DEF OwnersHold, PositionsInv, Init
<1> QED
  BY <1>2, <1>3 DEF OrderInv

(* The offsets that are committed are of records in memory.                *)
LEMMA CommitsBelow ==
  ASSUME EngineInv, OrderInv, CommitsHeld
  PROVE  \A p \in Partition : committed'[p] <= pos[p]
<1>1. ASSUME NEW m \in InMemory \cap AllRefs PROVE m[2] <= pos[m[1]]
  <2>1. CASE \E w \in Worker : m \in HeldBy(w)
    BY <2>1 DEF OrderInv, PositionsInv
  <2>2. CASE \E i \in Instance : disp[i] = "send" /\ m = held[i]
    BY <2>2, RefFacts DEF OrderInv, PositionsInv, EngineInv, EngineTypes
  <2> QED
    BY <2>1, <2>2, MemoryFacts DEF MemoryIs, HeldBy
<1> QED
  BY <1>1 DEF CommitsHeld, OrderInv, PositionsInv

(* A worker that goes on with the batch b and the channel c.               *)
OrderedChange(w, c, b) ==
  /\ Increasing(b) /\ Increasing(c)
  /\ \A m \in ToSet(b), n \in ToSet(c) : Ahead(m, n)
  /\ ToSet(c) \cup ToSet(b) \subseteq HeldBy(w)
  /\ \A m \in ToSet(c) \cup ToSet(b), n \in HeldBy(w) :
       m[1] = n[1] /\ m[2] < n[2] => n \in ToSet(c) \cup ToSet(b)

LEMMA OrderedKeeps ==
  ASSUME EngineInv, OrderInv, NEW w \in Worker, NEW c, NEW b, OrderedChange(w, c, b),
         chan' = [chan EXCEPT ![w] = c], batch' = [batch EXCEPT ![w] = b],
         UNCHANGED <<log, pos, owner, disp, held>>, CommitsHeld
  PROVE  OrderInv'
<1>1. /\ chan'[w] = c /\ batch'[w] = b
      /\ HeldBy(w)' = ToSet(c) \cup ToSet(b)
      /\ \A v \in Worker \ {w} : chan'[v] = chan[v] /\ batch'[v] = batch[v] /\ HeldBy(v)' = HeldBy(v)
  BY DEF HeldBy, EngineInv, EngineTypes
<1>2. AllRefs' = AllRefs /\ \A m : SlotOf(m)' = SlotOf(m)
  BY DEF AllRefs, SlotOf, RecordAt
<1>3. \A v \in Worker : HeldBy(v)' \subseteq HeldBy(v)
  BY <1>1 DEF OrderedChange
<1>4. OwnersHold'
  BY <1>3 DEF OrderInv, OwnersHold
<1>5. PositionsInv'
  BY <1>3, CommitsBelow DEF OrderInv, PositionsInv
<1>6. ASSUME NEW v \in Worker PROVE InLine(v)' /\ NoneSkipped(v)'
  <2>1. InLine(v) /\ NoneSkipped(v)
    BY DEF OrderInv
  <2>2. CASE v = w
    <3>1. InLine(v)'
      BY <1>1, <1>3, <2>1, <2>2 DEF InLine, OrderedChange, Increasing
    <3>2. NoneSkipped(v)'
      BY <1>1, <1>2, <1>3, <2>1, <2>2 DEF NoneSkipped, OrderedChange
    <3> QED
      BY <3>1, <3>2
  <2>3. CASE v # w
    BY <1>1, <1>2, <2>1, <2>3 DEF InLine, NoneSkipped, Increasing
  <2> QED
    BY <2>2, <2>3
<1> QED
  BY <1>4, <1>5, <1>6 DEF OrderInv

(* What the worker may keep: the channel and the batch as they are, with   *)
(* or without what comes first.                                            *)
LEMMA KeepsOrdered ==
  ASSUME EngineInv, OrderInv, NEW w \in Worker
  PROVE  /\ OrderedChange(w, chan[w], batch[w]) /\ OrderedChange(w, chan[w], <<>>)
         /\ chan[w] # <<>> =>
              /\ OrderedChange(w, Tail(chan[w]), Append(batch[w], Head(chan[w])))
              /\ OrderedChange(w, Tail(chan[w]), <<>>)
<1>1. /\ chan[w] \in Seq(AllRefs) /\ batch[w] \in Seq(AllRefs)
      /\ HeldBy(w) = ToSet(chan[w]) \cup ToSet(batch[w]) /\ HeldBy(w) \subseteq AllRefs
  BY MemoryTypes
<1>2. InLine(w)
  BY DEF OrderInv
<1>3. \A m \in HeldBy(w) : m[2] \in Nat
  BY <1>1, RefFacts DEF EngineInv, EngineTypes
<1>4. \A m, n \in HeldBy(w) : Ahead(m, n) /\ m[1] = n[1] => ~ (n[2] < m[2])
  BY <1>3 DEF Ahead
<1>5. OrderedChange(w, chan[w], batch[w]) /\ OrderedChange(w, chan[w], <<>>)
  BY <1>1, <1>2, <1>4, NothingInEmpty, IncreasingNothing DEF OrderedChange, InLine
<1>6. ASSUME chan[w] # <<>>
      PROVE  /\ OrderedChange(w, Tail(chan[w]), Append(batch[w], Head(chan[w])))
             /\ OrderedChange(w, Tail(chan[w]), <<>>)
  <2>1. PICK h, t, b : h = Head(chan[w]) /\ t = Tail(chan[w]) /\ b = Append(batch[w], h)
    OBVIOUS
  <2>2. /\ h \in AllRefs /\ ToSet(chan[w]) = ToSet(t) \cup {h}
        /\ ToSet(b) = ToSet(batch[w]) \cup {h}
    BY <1>1, <1>6, <2>1, ToSetFacts
  <2>3. Increasing(t) /\ \A m \in ToSet(t) : Ahead(h, m)
    BY <1>1, <1>2, <1>6, <2>1, IncreasingTail DEF InLine
  <2>4. Increasing(b)
    BY <1>1, <1>2, <2>1, <2>2, IncreasingAppend DEF InLine
  <2>5. \A m \in ToSet(b), n \in ToSet(t) : Ahead(m, n)
    BY <1>2, <2>2, <2>3 DEF InLine
  <2>6. OrderedChange(w, t, b)
    BY <1>1, <2>2, <2>3, <2>4, <2>5 DEF OrderedChange
  <2>7. OrderedChange(w, t, <<>>)
    BY <1>1, <1>4, <2>2, <2>3, <2>5, NothingInEmpty, IncreasingNothing DEF OrderedChange
  <2> QED
    BY <2>1, <2>6, <2>7
<1> QED
  BY <1>5, <1>6

LEMMA WorkerOrder ==
  ASSUME EngineInv, OrderInv, NEW w \in Worker,
         Receive(w) \/ Flush(w) \/ DlqFail(w) \/ CommitOk(w) \/ CommitFail(w)
  PROVE  OrderInv'
<1> USE DEF kafka, dispatcher
<1>1. ASSUME UNCHANGED committed PROVE CommitsHeld
  BY <1>1 DEF CommitsHeld
<1>3. CASE Receive(w)
  <2>1. PICK c, b : c = Tail(chan[w]) /\ b = Append(batch[w], Head(chan[w]))
    OBVIOUS
  <2>2. /\ chan' = [chan EXCEPT ![w] = c]
        /\ batch' = [batch EXCEPT ![w] = b] \/ batch' = [batch EXCEPT ![w] = <<>>]
        /\ UNCHANGED <<log, committed, pos, owner, disp, held>>
    BY <1>3, <2>1 DEF Receive, StartFlush
  <2>3. OrderedChange(w, c, b) /\ OrderedChange(w, c, <<>>)
    BY <1>3, <2>1, KeepsOrdered DEF Receive
  <2> QED
    BY <1>1, <2>2, <2>3, OrderedKeeps
<1>4. ASSUME \/ UNCHANGED batch \/ batch' = [batch EXCEPT ![w] = batch[w]]
             \/ batch' = [batch EXCEPT ![w] = <<>>],
             UNCHANGED <<log, pos, owner, disp, held, chan>>, CommitsHeld
      PROVE  OrderInv'
  <2>1. /\ chan' = [chan EXCEPT ![w] = chan[w]]
        /\ batch' = [batch EXCEPT ![w] = batch[w]] \/ batch' = [batch EXCEPT ![w] = <<>>]
    BY <1>4, MemoryTypes
  <2> QED
    BY <1>4, <2>1, KeepsOrdered, OrderedKeeps
<1>5. CASE Flush(w)
  BY <1>1, <1>4, <1>5 DEF Flush, StartFlush
<1>6. CASE DlqFail(w)
  BY <1>1, <1>4, <1>6 DEF DlqFail, EndFlush
<1>7. CASE CommitOk(w) \/ CommitFail(w)
  <2>1. CommitsHeld
    BY <1>1, <1>7, CommittedByFacts DEF CommitOk, CommitFail
  <2> QED
    BY <1>4, <1>7, <2>1 DEF CommitOk, CommitFail, EndFlush
<1> QED
  BY <1>3, <1>5, <1>6, <1>7

(* Steps that leave the memory of the processes alone.                     *)
LEMMA StillOrder ==
  ASSUME EngineInv, OrderInv, UNCHANGED <<log, held, chan, batch>>,
         UNCHANGED <<committed, pos, owner>>,
         \A i \in Instance : disp'[i] = "send" <=> disp[i] = "send"
  PROVE  OrderInv'
<1>1. AllRefs' = AllRefs /\ (\A m : SlotOf(m)' = SlotOf(m)) /\ \A w : HeldBy(w)' = HeldBy(w)
  BY DEF AllRefs, SlotOf, RecordAt, HeldBy
<1>2. \A w \in Worker : disp'[w[1]] = "send" <=> disp[w[1]] = "send"
  BY WorkerFacts
<1>3. OwnersHold' /\ PositionsInv'
  BY <1>1 DEF OrderInv, OwnersHold, PositionsInv
<1>4. \A w \in Worker : InLine(w)' /\ NoneSkipped(w)'
  BY <1>1, <1>2 DEF OrderInv, InLine, NoneSkipped, Increasing
<1> QED
  BY <1>3, <1>4 DEF OrderInv

(* The record that is fetched follows all that were fetched before.        *)
LEMMA FetchOrder ==
  ASSUME EngineInv, OrderInv, NEW i \in Instance, NEW p \in Partition, Fetch(i, p)
  PROVE  OrderInv'
<1>1. PICK r : r = <<p, pos[p] + 1>>
  OBVIOUS
<1>2. /\ disp[i] = "fetch" /\ owner[p] = i /\ disp'[i] = "send" /\ held'[i] = r
      /\ \A j \in Instance \ {i} : disp'[j] = disp[j] /\ held'[j] = held[j]
      /\ pos[p] \in Nat /\ pos'[p] = pos[p] + 1
      /\ \A q \in Partition \ {p} : pos'[q] = pos[q]
      /\ \A q \in Partition : pos[q] <= pos'[q] /\ committed[q] <= pos'[q]
      /\ r[1] = p /\ r[2] = pos[p] + 1
      /\ UNCHANGED <<log, committed, owner, chan, batch>>
  <2>1. pos[p] \in Nat /\ pos'[p] = pos[p] + 1 /\ \A q \in Partition \ {p} : pos'[q] = pos[q]
    BY DEF Fetch, EngineInv, EngineTypes
  <2>2. \A q \in Partition : pos[q] \in Nat /\ committed[q] \in Nat /\ committed[q] <= pos[q]
    BY DEF OrderInv, PositionsInv, EngineInv, EngineTypes
  <2>3. \A q \in Partition : pos[q] <= pos'[q] /\ committed[q] <= pos'[q]
    BY <2>1, <2>2
  <2> QED
    BY <1>1, <2>1, <2>3 DEF Fetch, workers, EngineInv, EngineTypes
<1>3. /\ AllRefs' = AllRefs /\ (\A m : SlotOf(m)' = SlotOf(m))
      /\ \A w : HeldBy(w)' = HeldBy(w)
      /\ \A m \in AllRefs : /\ m[1] \in Partition /\ m[2] \in Nat /\ pos[m[1]] \in Nat
                            /\ m = <<m[1], m[2]>>
      /\ \A w \in Worker : HeldBy(w) \subseteq AllRefs
  <2>1. \A w : HeldBy(w)' = HeldBy(w)
    BY <1>2 DEF HeldBy
  <2>2. \A w \in Worker : HeldBy(w) \subseteq AllRefs
    BY MemoryTypes
  <2> QED
    BY <1>2, <2>1, <2>2, LogKept, PlaceFacts
<1>4. OwnersHold'
  BY <1>2, <1>3 DEF OrderInv, OwnersHold
<1>5. PositionsInv'
  <2>1. ASSUME NEW w \in Worker, NEW m \in HeldBy(w) PROVE m[2] <= pos'[m[1]]
    <3>1. /\ m[2] \in Nat /\ m[1] \in Partition /\ pos[m[1]] \in Nat /\ m[2] <= pos[m[1]]
          /\ pos'[m[1]] = pos[m[1]] \/ pos'[m[1]] = pos[m[1]] + 1
      BY <1>2, <1>3 DEF OrderInv, PositionsInv
    <3> QED
      BY <3>1
  <2>2. ASSUME NEW j \in Instance, disp'[j] = "send" PROVE held'[j][2] = pos'[held'[j][1]]
    <3>1. CASE j = i
      BY <1>2, <3>1
    <3>2. CASE j # i
      <4>1. /\ held[j] \in AllRefs /\ held[j][2] = pos[held[j][1]] /\ owner[held[j][1]] = j
        BY <1>2, <2>2, <3>2 DEF OrderInv, PositionsInv, OwnersHold, EngineInv, EngineTypes
      <4>2. held[j][1] # p /\ held[j][1] \in Partition
        BY <1>2, <1>3, <3>2, <4>1
      <4> QED
        BY <1>2, <3>2, <4>1, <4>2
    <3> QED
      BY <3>1, <3>2
  <2> QED
    BY <1>2, <1>3, <2>1, <2>2 DEF PositionsInv
<1>6. ASSUME NEW w \in Worker PROVE InLine(w)' /\ NoneSkipped(w)'
  <2>1. InLine(w) /\ NoneSkipped(w) /\ w[1] \in Instance
    BY WorkerFacts DEF OrderInv
  <2>2. \A m \in HeldBy(w) : m[1] = p => w[1] = i /\ m[2] < r[2]
    BY <1>2, <1>3 DEF OrderInv, OwnersHold, PositionsInv
  <2>3. InLine(w)'
    <3>1. CASE w[1] = i
      BY <1>2, <1>3, <2>1, <2>2, <3>1 DEF InLine, Increasing, Ahead
    <3>2. CASE w[1] # i
      BY <1>2, <1>3, <2>1, <3>2 DEF InLine, Increasing
    <3> QED
      BY <3>1, <3>2
  <2>4. ASSUME NEW m \in HeldBy(w), NEW n \in AllRefs,
               m[1] = n[1], m[2] < n[2], n[2] <= pos'[n[1]], SlotOf(n) = w[2]
        PROVE  n \in HeldBy(w) \/ (disp'[w[1]] = "send" /\ n = held'[w[1]])
    <3>1. CASE n = r
      BY <1>2, <2>2, <2>4, <3>1
    <3>2. CASE n # r
      <4>1. n[2] <= pos[n[1]]
        <5>1. n[1] \in Partition /\ n[2] \in Nat /\ pos[n[1]] \in Nat /\ n = <<n[1], n[2]>>
          BY <1>3
        <5>2. n[1] = p => n[2] # pos[p] + 1
          BY <1>1, <3>2, <5>1
        <5> QED
          BY <1>2, <2>4, <5>1, <5>2
      <4>2. n \in HeldBy(w) \/ (disp[w[1]] = "send" /\ n = held[w[1]])
        BY <2>1, <2>4, <4>1 DEF NoneSkipped
      <4> QED
        BY <1>2, <2>1, <4>2
    <3> QED
      BY <3>1, <3>2
  <2>5. NoneSkipped(w)'
    BY <1>3, <2>4 DEF NoneSkipped
  <2> QED
    BY <2>3, <2>5
<1> QED
  BY <1>4, <1>5, <1>6 DEF OrderInv

(* The dispatcher puts the record behind those the worker has already.     *)
LEMMA SendOrder ==
  ASSUME EngineInv, OrderInv, NEW i \in Instance, Send(i)
  PROVE  OrderInv'
<1>1. PICK r, w, c : r = held[i] /\ w = <<i, SlotOf(r)>> /\ c = Append(chan[w], r)
  OBVIOUS
<1>2. /\ disp[i] = "send" /\ r \in AllRefs /\ w \in Worker /\ w[1] = i /\ w[2] = SlotOf(r)
      /\ UNCHANGED <<log, committed, owner, pos, batch>>
      /\ disp'[i] # "send" /\ \A j \in Instance \ {i} : disp'[j] = disp[j] /\ held'[j] = held[j]
      /\ chan' = [chan EXCEPT ![w] = c]
  BY <1>1, RefFacts, WorkerFacts DEF Send, kafka, EngineInv, EngineTypes
<1>3. /\ chan[w] \in Seq(AllRefs) /\ ToSet(c) = ToSet(chan[w]) \cup {r}
      /\ chan'[w] = c /\ \A v \in Worker \ {w} : chan'[v] = chan[v]
  <2>1. chan[w] \in Seq(AllRefs) /\ chan \in [Worker -> Seq(AllRefs)]
    BY <1>2, MemoryTypes
  <2>2. ToSet(c) = ToSet(chan[w]) \cup {r}
    <3>1. r \in AllRefs
      BY <1>2
    <3>2. ToSet(Append(chan[w], r)) = ToSet(chan[w]) \cup {r}
      BY <2>1, <3>1, ToSetFacts
    <3> QED
      BY <1>1, <3>2
  <2> QED
    BY <1>2, <2>1, <2>2
<1>4. /\ AllRefs' = AllRefs /\ (\A m : SlotOf(m)' = SlotOf(m))
      /\ HeldBy(w)' = HeldBy(w) \cup {r}
      /\ \A v \in Worker \ {w} : HeldBy(v)' = HeldBy(v)
  BY <1>2, <1>3 DEF AllRefs, SlotOf, RecordAt, HeldBy
<1>5. owner[r[1]] = i /\ r[2] = pos[r[1]] /\ pos[r[1]] \in Nat
  BY <1>1, <1>2, RefFacts DEF OrderInv, OwnersHold, PositionsInv, EngineInv, EngineTypes
<1>6. OwnersHold'
  BY <1>2, <1>4, <1>5 DEF OrderInv, OwnersHold
<1>7. PositionsInv'
  BY <1>2, <1>4, <1>5 DEF OrderInv, PositionsInv
<1>8. ASSUME NEW v \in Worker PROVE InLine(v)' /\ NoneSkipped(v)'
  <2>1. InLine(v) /\ NoneSkipped(v) /\ v[1] \in Instance /\ v = <<v[1], v[2]>>
    BY WorkerFacts DEF OrderInv, Worker
  <2>2. CASE v = w
    <3>1. Increasing(c)
      BY <1>1, <1>2, <1>3, <2>1, <2>2, IncreasingAppend DEF InLine, HeldBy
    <3>2. InLine(v)'
      <4>1. \A m \in ToSet(chan[w]) \cup ToSet(batch[w]) : Ahead(m, r)
        BY <1>1, <1>2, <2>1, <2>2 DEF InLine, HeldBy
      <4>2. \A m \in ToSet(batch[w]), n \in ToSet(c) : Ahead(m, n)
        BY <1>3, <2>1, <2>2, <4>1 DEF InLine
      <4>3. Increasing(batch[w]) /\ batch'[w] = batch[w] /\ disp'[w[1]] # "send"
        BY <1>2, <2>1, <2>2 DEF InLine
      <4> QED
        BY <1>3, <2>2, <3>1, <4>2, <4>3 DEF InLine, Increasing
    <3>3. \A n \in AllRefs : r[1] = n[1] /\ r[2] < n[2] => ~ (n[2] <= pos[n[1]])
      BY <1>5, RefFacts DEF EngineInv, EngineTypes
    <3>4. NoneSkipped(v)'
      BY <1>1, <1>2, <1>4, <2>1, <2>2, <3>3 DEF NoneSkipped
    <3> QED
      BY <3>2, <3>4
  <2>3. CASE v # w
    <3>1. InLine(v)'
      BY <1>2, <1>3, <1>4, <2>1, <2>3 DEF InLine, Increasing
    <3>2. v[1] = i => SlotOf(r) # v[2]
      BY <1>1, <1>2, <2>1, <2>3
    <3>3. NoneSkipped(v)'
      BY <1>1, <1>2, <1>4, <2>1, <2>3, <3>2 DEF NoneSkipped
    <3> QED
      BY <3>1, <3>3
  <2> QED
    BY <2>2, <2>3
<1> QED
  BY <1>6, <1>7, <1>8 DEF OrderInv

(* What a process had in memory is gone; its partitions are free.          *)
LEMMA StoppedOrder ==
  ASSUME EngineInv, OrderInv, NEW i \in Instance, Stopped(i), UNCHANGED <<log, committed, pos>>
  PROVE  OrderInv'
<1>1. /\ \A v \in Worker : v[1] = i => chan'[v] = <<>> /\ batch'[v] = <<>> /\ HeldBy(v)' = {}
      /\ \A v \in Worker : v[1] # i => /\ chan'[v] = chan[v] /\ batch'[v] = batch[v]
                                       /\ HeldBy(v)' = HeldBy(v)
  BY NothingInEmpty DEF Stopped, HeldBy
<1>2. /\ disp'[i] = "down" /\ \A j \in Instance \ {i} : disp'[j] = disp[j] /\ held'[j] = held[j]
      /\ \A p \in Partition : owner[p] # i => owner'[p] = owner[p]
  BY DEF Stopped, Leaves, EngineInv, EngineTypes
<1>3. /\ AllRefs' = AllRefs /\ (\A m : SlotOf(m)' = SlotOf(m))
      /\ \A m \in AllRefs : m[1] \in Partition
      /\ \A v \in Worker : HeldBy(v) \subseteq AllRefs
      /\ \A j \in Instance : disp[j] = "send" => held[j] \in AllRefs
  <2>1. \A v \in Worker : HeldBy(v) \subseteq AllRefs
    BY MemoryTypes
  <2> QED
    BY <2>1, LogKept, PlaceFacts DEF EngineInv, EngineTypes
<1>4. OwnersHold'
  <2>1. ASSUME NEW v \in Worker, NEW m \in HeldBy(v)' PROVE owner'[m[1]] = v[1]
    BY <1>1, <1>2, <1>3 DEF OrderInv, OwnersHold
  <2>2. ASSUME NEW j \in Instance, disp'[j] = "send" PROVE owner'[held'[j][1]] = j
    BY <1>2, <1>3, <2>2 DEF OrderInv, OwnersHold
  <2> QED
    BY <2>1, <2>2 DEF OwnersHold
<1>5. PositionsInv'
  BY <1>1, <1>2 DEF OrderInv, PositionsInv
<1>6. ASSUME NEW v \in Worker PROVE InLine(v)' /\ NoneSkipped(v)'
  <2>1. InLine(v) /\ NoneSkipped(v) /\ v[1] \in Instance
    BY WorkerFacts DEF OrderInv
  <2>2. CASE v[1] = i
    BY <1>1, <2>2, NothingInEmpty, IncreasingNothing DEF InLine, NoneSkipped, Increasing
  <2>3. CASE v[1] # i
    BY <1>1, <1>2, <1>3, <2>1, <2>3 DEF InLine, NoneSkipped, Increasing
  <2> QED
    BY <2>2, <2>3
<1> QED
  BY <1>4, <1>5, <1>6 DEF OrderInv

(* A partition that is free has no records in memory; what is fetched      *)
(* again starts at the committed offset.                                   *)
LEMMA AssignOrder ==
  ASSUME EngineInv, OrderInv, NEW p \in Partition, NEW i \in Instance, Assign(p, i)
  PROVE  OrderInv'
<1>1. /\ owner[p] = None /\ owner'[p] = i /\ pos'[p] = committed[p]
      /\ \A q \in Partition \ {p} : owner'[q] = owner[q] /\ pos'[q] = pos[q]
      /\ UNCHANGED <<log, committed, disp, held, chan, batch>>
  BY DEF Assign, dispatcher, workers, EngineInv, EngineTypes
<1>2. /\ AllRefs' = AllRefs /\ (\A m : SlotOf(m)' = SlotOf(m))
      /\ \A v : HeldBy(v)' = HeldBy(v)
      /\ \A m \in AllRefs : m[1] \in Partition
      /\ \A v \in Worker : HeldBy(v) \subseteq AllRefs
      /\ \A j \in Instance : disp[j] = "send" => held[j] \in AllRefs
      /\ None \notin Instance /\ \A v \in Worker : v[1] \in Instance
      /\ \A q \in Partition : committed[q] \in Nat
  <2>1. \A v \in Worker : HeldBy(v) \subseteq AllRefs
    BY MemoryTypes
  <2>2. \A v : HeldBy(v)' = HeldBy(v)
    BY <1>1 DEF HeldBy
  <2> QED
    BY <1>1, <2>1, <2>2, LogKept, PlaceFacts, WorkerFacts, ConsumerAssumption DEF EngineInv, EngineTypes
<1>3. /\ \A v \in Worker : \A m \in HeldBy(v) : m[1] # p
      /\ \A j \in Instance : disp[j] = "send" => held[j][1] # p
  BY <1>1, <1>2 DEF OrderInv, OwnersHold
<1>4. OwnersHold'
  BY <1>1, <1>2, <1>3 DEF OrderInv, OwnersHold
<1>5. PositionsInv'
  BY <1>1, <1>2, <1>3 DEF OrderInv, PositionsInv
<1>6. ASSUME NEW v \in Worker PROVE InLine(v)' /\ NoneSkipped(v)'
  <2>1. InLine(v) /\ NoneSkipped(v)
    BY DEF OrderInv
  <2>2. InLine(v)'
    BY <1>1, <1>2, <2>1 DEF InLine, Increasing
  <2>3. NoneSkipped(v)'
    BY <1>1, <1>2, <1>3, <2>1 DEF NoneSkipped
  <2> QED
    BY <2>2, <2>3
<1> QED
  BY <1>4, <1>5, <1>6 DEF OrderInv

LEMMA OrderInvStep ==
  ASSUME NoRebalance, EngineInv, OrderInv, [Next]_vars
  PROVE  OrderInv'
<1> USE DEF kafka, dispatcher, workers, history
<1>1. ASSUME NEW w \in Worker, WorkerStep(w) PROVE OrderInv'
  <2>1. CASE Receive(w) \/ Flush(w) \/ DlqFail(w) \/ CommitOk(w) \/ CommitFail(w)
    BY <2>1, WorkerOrder
  <2>2. CASE Exit(w) \/ HandleOk(w) \/ HandleFail(w) \/ Result(w) \/ DlqOk(w)
    BY <2>2, StillOrder DEF Exit, HandleOk, HandleFail, Result, DlqOk
  <2> QED
    BY <1>1, <2>1, <2>2 DEF WorkerStep, FlushStep
<1>2. ASSUME NEW w \in Worker, Deadline(w) PROVE OrderInv'
  BY <1>2, StillOrder DEF Deadline
<1>3. ASSUME NEW i \in Instance, Dispatcher(i) PROVE OrderInv'
  <2>1. CASE CloseChans(i)
    <3>1. \A j \in Instance : disp'[j] = "send" <=> disp[j] = "send"
      BY <2>1 DEF CloseChans, EngineInv, EngineTypes
    <3> QED
      BY <2>1, <3>1, StillOrder DEF CloseChans
  <2> QED
    BY <1>3, <2>1, FetchOrder, SendOrder DEF Dispatcher
<1>4. ASSUME NEW i \in Instance, Cancel(i) PROVE OrderInv'
  BY <1>4, StillOrder DEF Cancel
<1>5. ASSUME NEW i \in Instance, Leave(i) \/ Crash(i) PROVE OrderInv'
  BY <1>5, StoppedOrder DEF Leave, Crash
<1>6. ASSUME NEW i \in Instance, Restart(i) PROVE OrderInv'
  <2>1. \A j \in Instance : disp'[j] = "send" <=> disp[j] = "send"
    BY <1>6 DEF Restart, EngineInv, EngineTypes
  <2> QED
    BY <1>6, <2>1, StillOrder DEF Restart
<1>7. ASSUME NEW p \in Partition, Revoke(p) \/ \E i \in Instance : Assign(p, i) PROVE OrderInv'
  BY <1>7, AssignOrder DEF Revoke, Fault, NoRebalance
<1>8. CASE UNCHANGED vars
  BY <1>8, StillOrder DEF vars
<1> QED
  BY <1>1, <1>2, <1>3, <1>4, <1>5, <1>6, <1>7, <1>8 DEF Next

-----------------------------------------------------------------------------
(* Where the records are that are not dealt with.                           *)

(* What worker w has not dealt with yet.                                   *)
PendingBy(w) == ToSet(chan[w]) \cup (IF stage[w] = "commit" THEN {} ELSE ToSet(batch[w]))

LEMMA PendingFacts ==
  /\ \A m : m \in Pending <=> \/ \E w \in Worker : m \in PendingBy(w)
                              \/ \E i \in Instance : disp[i] = "send" /\ m = held[i]
  /\ \A m : m \in Pending' <=> \/ \E w \in Worker : m \in PendingBy(w)'
                               \/ \E i \in Instance : disp'[i] = "send" /\ m = held'[i]
  /\ \A w : PendingBy(w) \subseteq HeldBy(w)
  /\ Pending \subseteq InMemory
<1>1. \A w : \A m : m \in PendingBy(w) <=>
        m \in ToSet(chan[w]) \/ (m \in ToSet(batch[w]) /\ stage[w] # "commit")
  BY DEF PendingBy
<1>2. \A w : \A m : m \in PendingBy(w)' <=>
        m \in ToSet(chan'[w]) \/ (m \in ToSet(batch'[w]) /\ stage'[w] # "commit")
  BY DEF PendingBy
<1>3. \A w : PendingBy(w) \subseteq HeldBy(w)
  BY DEF PendingBy, HeldBy
<1>4. Pending \subseteq InMemory
  BY MemoryFacts DEF MemoryIs
<1> QED
  BY <1>1, <1>2, <1>3, <1>4, MemoryFacts DEF MemoryIs

LEMMA PendingRefs == EngineInv => Pending \subseteq AllRefs
<1> SUFFICES ASSUME EngineInv, NEW m \in Pending PROVE m \in AllRefs
  OBVIOUS
<1>1. \A w \in Worker : PendingBy(w) \subseteq AllRefs
  BY MemoryTypes, PendingFacts
<1>2. \A i \in Instance : disp[i] = "send" => held[i] \in AllRefs
  BY DEF EngineInv, EngineTypes
<1> QED
  BY <1>1, <1>2, PendingFacts

(* Whoever else holds a record of the partition for the worker.            *)
LEMMA SameWorker ==
  ASSUME EngineInv, OrderInv, NEW w \in Worker, NEW m \in HeldBy(w), NEW n \in Pending,
         n[1] = m[1], SlotOf(n) = SlotOf(m)
  PROVE  n \in PendingBy(w) \/ (disp[w[1]] = "send" /\ n = held[w[1]])
<1>1. owner[m[1]] = w[1] /\ SlotOf(m) = w[2] /\ w = <<w[1], w[2]>>
  BY DEF OrderInv, OwnersHold, EngineInv, WorkerInv, Worker
<1>2. ASSUME NEW v \in Worker, n \in PendingBy(v) PROVE n \in PendingBy(w)
  <2>1. n \in HeldBy(v)
    BY <1>2, PendingFacts
  <2>2. owner[n[1]] = v[1] /\ SlotOf(n) = v[2] /\ v = <<v[1], v[2]>>
    BY <2>1 DEF OrderInv, OwnersHold, EngineInv, WorkerInv, Worker
  <2> QED
    BY <1>1, <1>2, <2>2
<1>3. ASSUME NEW i \in Instance, disp[i] = "send", n = held[i]
      PROVE  disp[w[1]] = "send" /\ n = held[w[1]]
  BY <1>1, <1>3 DEF OrderInv, OwnersHold
<1> QED
  BY <1>2, <1>3, PendingFacts

(* Worker w drops the records B, the first ones it has.                    *)
DropsFirst(w, B) ==
  /\ B \subseteq HeldBy(w) /\ stage[w] # "commit"
  /\ \A m \in B, n \in HeldBy(w) \ B : Ahead(m, n)
  /\ PendingBy(w)' = HeldBy(w) \ B
  /\ \A v \in Worker \ {w} : PendingBy(v)' = PendingBy(v)
  /\ UNCHANGED <<log, pos, disp, held>>

LEMMA DropFirst ==
  ASSUME EngineInv, OrderInv, NEW w \in Worker, NEW B, DropsFirst(w, B)
  PROVE  /\ B \subseteq Unacknowledged /\ B \subseteq AllRefs
         /\ \A m : m \in Pending' <=> m \in Pending /\ m \notin B
         /\ Unacknowledged' = Unacknowledged \ B
<1>1. HeldBy(w) \subseteq AllRefs /\ B \subseteq AllRefs
  BY MemoryTypes DEF DropsFirst
<1>2. B \subseteq PendingBy(w) /\ PendingBy(w) = HeldBy(w)
  BY DEF DropsFirst, PendingBy, HeldBy
<1>3. B \subseteq Pending
  BY <1>2, PendingFacts
<1>4. \A m \in B : ~ (m[2] > pos[m[1]])
  BY <1>1, PlaceFacts DEF OrderInv, PositionsInv, DropsFirst
<1>5. ASSUME NEW m \in B PROVE m \notin Pending'
  <2>1. ASSUME NEW v \in Worker, m \in PendingBy(v)' PROVE FALSE
    <3>1. v # w /\ m \in HeldBy(v)
      BY <2>1, PendingFacts DEF DropsFirst
    <3>2. /\ owner[m[1]] = v[1] /\ SlotOf(m) = v[2] /\ v = <<v[1], v[2]>>
          /\ owner[m[1]] = w[1] /\ SlotOf(m) = w[2] /\ w = <<w[1], w[2]>>
      BY <3>1 DEF OrderInv, OwnersHold, EngineInv, WorkerInv, DropsFirst, Worker
    <3> QED
      BY <3>1, <3>2
  <2>2. ASSUME NEW i \in Instance, disp[i] = "send", m = held[i] PROVE FALSE
    <3>1. i = w[1] /\ InLine(w)
      BY <2>2 DEF OrderInv, OwnersHold, DropsFirst
    <3>2. Ahead(m, m)
      BY <2>2, <3>1 DEF InLine, DropsFirst
    <3> QED
      BY <1>1, <3>2, PlaceFacts DEF Ahead
  <2>3. ~ \E i \in Instance : disp'[i] = "send" /\ m = held'[i]
    BY <2>2 DEF DropsFirst
  <2> QED
    BY <2>1, <2>3, PendingFacts
<1>6. \A m : m \in Pending' <=> m \in Pending /\ m \notin B
  <2>1. \A v \in Worker : \A m : m \in PendingBy(v)' => m \in PendingBy(v)
    BY <1>2 DEF DropsFirst
  <2>2. \A v \in Worker : \A m : m \in PendingBy(v) /\ m \notin B => m \in PendingBy(v)'
    BY <1>2 DEF DropsFirst
  <2>3. \A i \in Instance : disp'[i] = disp[i] /\ held'[i] = held[i]
    BY DEF DropsFirst
  <2> QED
    BY <1>5, <2>1, <2>2, <2>3, PendingFacts
<1>7. AllRefs' = AllRefs /\ pos' = pos
  BY LogKept DEF DropsFirst
<1> QED
  BY <1>1, <1>3, <1>4, <1>6, <1>7 DEF Unacknowledged

LEMMA FirstInLine ==
  ASSUME EngineInv, OrderInv, NEW w \in Worker, stage[w] # "commit",
         NEW c, NEW b, OrderedChange(w, c, b), ToSet(c) \cup ToSet(b) = HeldBy(w),
         PendingBy(w)' = ToSet(c), \A v \in Worker \ {w} : PendingBy(v)' = PendingBy(v),
         UNCHANGED <<log, pos, disp, held>>
  PROVE  DropsFirst(w, ToSet(b)) /\ ToSet(b) \subseteq Pending
<1>1. HeldBy(w) \subseteq AllRefs
  BY MemoryTypes
<1>2. \A m \in ToSet(b), n \in ToSet(c) : Ahead(m, n)
  BY DEF OrderedChange
<1>3. \A m \in HeldBy(w) : ~Ahead(m, m)
  BY <1>1, PlaceFacts DEF Ahead
<1>4. ToSet(c) = HeldBy(w) \ ToSet(b)
  BY <1>2, <1>3
<1>5. PendingBy(w) = HeldBy(w)
  BY DEF PendingBy, HeldBy
<1> QED
  BY <1>2, <1>4, <1>5, PendingFacts DEF DropsFirst

LEMMA ReceivedIsHeld ==
  ASSUME EngineInv, NEW w \in Worker, Receive(w)
  PROVE  ToSet(Tail(chan[w])) \cup ToSet(Append(batch[w], Head(chan[w]))) = HeldBy(w)
<1>1. chan[w] \in Seq(AllRefs) /\ chan[w] # <<>>
  BY MemoryTypes DEF Receive
<1>2. ToSet(chan[w]) = ToSet(Tail(chan[w])) \cup {Head(chan[w])}
  BY <1>1, ToSetFacts
<1>3. ToSet(Append(batch[w], Head(chan[w]))) = ToSet(batch[w]) \cup {Head(chan[w])}
  BY <1>1, NextBatch
<1> QED
  BY <1>2, <1>3 DEF HeldBy

LEMMA SentIsPending ==
  ASSUME EngineInv, NEW i \in Instance, Send(i)
  PROVE  \A m : m \in Pending' <=> m \in Pending
<1>1. PICK r, w, c : r = held[i] /\ w = <<i, SlotOf(r)>> /\ c = Append(chan[w], r)
  OBVIOUS
<1>2. /\ disp[i] = "send" /\ r \in AllRefs /\ w \in Worker /\ UNCHANGED <<batch, stage>>
      /\ disp'[i] # "send" /\ \A j \in Instance \ {i} : disp'[j] = disp[j] /\ held'[j] = held[j]
      /\ chan' = [chan EXCEPT ![w] = c]
  BY <1>1, RefFacts, WorkerFacts DEF Send, EngineInv, EngineTypes
<1>3. /\ ToSet(c) = ToSet(chan[w]) \cup {r}
      /\ chan'[w] = c /\ \A v \in Worker \ {w} : chan'[v] = chan[v]
  <2>1. chan[w] \in Seq(AllRefs) /\ chan \in [Worker -> Seq(AllRefs)] /\ r \in AllRefs
    BY <1>2, MemoryTypes
  <2>2. ToSet(Append(chan[w], r)) = ToSet(chan[w]) \cup {r}
    BY <2>1, ToSetFacts
  <2> QED
    BY <1>1, <1>2, <2>1, <2>2
<1>4. /\ PendingBy(w)' = PendingBy(w) \cup {r}
      /\ \A v \in Worker \ {w} : PendingBy(v)' = PendingBy(v)
  BY <1>2, <1>3 DEF PendingBy
<1>5. \A m : (\E v \in Worker : m \in PendingBy(v)') <=> m = r \/ \E v \in Worker : m \in PendingBy(v)
  BY <1>2, <1>4
<1>6. \A m : (\E j \in Instance : disp[j] = "send" /\ m = held[j]) <=>
           m = r \/ \E j \in Instance : disp'[j] = "send" /\ m = held'[j]
  BY <1>1, <1>2
<1> QED
  BY <1>5, <1>6, PendingFacts

-----------------------------------------------------------------------------
(* What a commit covers.                                                   *)

(* The inductive invariant behind CommitsFollowHandling.                   *)
LEMMA OrderSafe ==
  ASSUME NoRebalance
  PROVE  Spec => [](ConsumerInv /\ OrderInv)
<1>1. ConsumerInv /\ OrderInv /\ [Next]_vars => OrderInv'
  BY OrderInvStep, InvParts
<1> QED
  BY <1>1, InitOrderInv, ConsumerSafe, PTL DEF Spec

(* What a worker still has of a partition follows what is in its batch;    *)
(* no other worker has records of its clients.                             *)
LEMMA BatchIsFirst ==
  ASSUME EngineInv, OrderInv, NEW w \in Worker, stage[w] = "commit",
         NEW m \in ToSet(batch[w]), NEW n \in Pending,
         n[1] = m[1], SlotOf(n) = w[2]
  PROVE  Ahead(m, n)
<1>1. m \in HeldBy(w) /\ SlotOf(m) = w[2] /\ InLine(w)
  BY DEF OrderInv, EngineInv, WorkerInv, HeldBy
<1>2. n \in ToSet(chan[w]) \/ (disp[w[1]] = "send" /\ n = held[w[1]])
  BY <1>1, SameWorker DEF PendingBy
<1> QED
  BY <1>1, <1>2 DEF InLine

(* Whatever crashes, restarts or fails, and in whatever order the workers  *)
(* of a process finish: a commit covers records of the worker that commits *)
(* only when it has dealt with them.                                       *)
THEOREM CommitsAfterHandling ==
  ASSUME NoRebalance
  PROVE  Spec => CommitsFollowHandling
<1>1. ConsumerInv /\ OrderInv /\ [Next]_vars =>
        [\A p \in Partition :
           committed'[p] # committed[p] =>
             \A o \in 1 .. committed'[p] :
               SlotOf(<<p, o>>) = SlotOf(<<p, committed'[p]>>)
                 => <<p, o>> \in settled \cup dlq \cup forgotten]_vars
  <2> SUFFICES ASSUME EngineInv, OrderInv, [Next]_vars,
                      NEW p \in Partition, committed'[p] # committed[p],
                      NEW o \in 1 .. committed'[p],
                      SlotOf(<<p, o>>) = SlotOf(<<p, committed'[p]>>)
               PROVE  <<p, o>> \in settled \cup dlq \cup forgotten
    BY InvParts
  <2>1. PICK w \in Worker : stage[w] = "commit" /\ committed' = CommittedBy(batch[w])
    <3>1. CASE UNCHANGED committed
      BY <3>1
    <3>2. ASSUME NEW w \in Worker, CommitOk(w) \/ CommitFail(w)
          PROVE  UNCHANGED committed \/ (stage[w] = "commit" /\ committed' = CommittedBy(batch[w]))
      BY <3>2 DEF CommitOk, CommitFail
    <3>3. UNCHANGED committed \/ \E w \in Worker : CommitOk(w) \/ CommitFail(w)
      BY DEF Next, vars, kafka, Revoke, Assign, Dispatcher, Fetch, Send, CloseChans,
         Cancel, Leave, Crash, Restart, WorkerStep, FlushStep, Receive, Flush, Exit,
         HandleOk, HandleFail, Result, DlqOk, DlqFail, Deadline
    <3> QED
      BY <3>1, <3>2, <3>3
  <2>2. PICK m \in ToSet(batch[w]) : m[1] = p /\ committed'[p] = m[2]
    BY <2>1, CommittedByFacts
  <2>3. /\ m \in AllRefs /\ m[2] \in Nat /\ m = <<p, m[2]>> /\ m[2] <= pos[p] /\ SlotOf(m) = w[2]
        /\ pos[p] \in Nat /\ m[2] \in 1 .. Len(log[p]) /\ Len(log[p]) \in Nat
    <3>1. m \in HeldBy(w) /\ m \in AllRefs
      BY MemoryTypes DEF HeldBy
    <3> QED
      BY <2>2, <3>1, PlaceFacts, RefFacts DEF OrderInv, PositionsInv, EngineInv, EngineTypes, WorkerInv
  <2>4. PICK n : n = <<p, o>>
    OBVIOUS
  <2>5. n \in AllRefs /\ n[1] = p /\ n[2] = o /\ o \in Nat /\ o <= m[2] /\ SlotOf(n) = w[2]
    <3>1. o \in 1 .. Len(log[p]) /\ o \in Nat /\ o <= m[2]
      BY <2>2, <2>3
    <3> QED
      BY <2>2, <2>3, <2>4, <3>1, RefFacts DEF EngineInv, EngineTypes
  <2>6. n \in Accounted
    BY <2>3, <2>5 DEF EngineInv, Reached
  <2>7. n \notin Pending
    <3>1. n \in Pending => Ahead(m, n)
      BY <2>1, <2>2, <2>5, BatchIsFirst
    <3> QED
      BY <2>2, <2>3, <2>5, <3>1 DEF Ahead
  <2> QED
    BY <2>4, <2>6, <2>7 DEF Accounted
<1> QED
  BY <1>1, OrderSafe, PTL DEF Spec, CommitsFollowHandling

-----------------------------------------------------------------------------
(* What a handler works on is the fold of its batch.                       *)

LEMMA HandsAfter ==
  ASSUME log' = log, NEW w \in Worker
  PROVE  HandsOver(w)' <=>
           IF stage'[w] = "handle"
           THEN /\ ~Panics(batch'[w])
                /\ cres'[w] = Folded(batch'[w], "c") /\ dels'[w] = Folded(batch'[w], "d")
           ELSE phase'[w] = "idle" /\ cres'[w] = {} /\ dels'[w] = {}
<1>1. /\ Folded(batch[w], "c")' = Folded(batch'[w], "c")
      /\ Folded(batch[w], "d")' = Folded(batch'[w], "d")
  BY DEF Folded, IsOpOn, RecordAt, U!OrderKey
<1>2. Panics(batch[w])' <=> Panics(batch'[w])
  BY DEF Panics, RecordAt
<1> QED
  BY <1>1, <1>2 DEF HandsOver

LEMMA HandsKept ==
  ASSUME log' = log, NEW w \in Worker, HandsOver(w),
         phase'[w] = phase[w], cres'[w] = cres[w], dels'[w] = dels[w],
         \/ stage'[w] = stage[w] /\ (stage[w] = "handle" => batch'[w] = batch[w])
         \/ stage[w] # "handle" /\ stage'[w] # "handle"
  PROVE  HandsOver(w)'
BY HandsAfter DEF HandsOver

LEMMA FlushHands ==
  ASSUME EngineInv, U!TypeOK, \A v \in Worker : HandsOver(v), NEW w \in Worker, log' = log,
         NEW ms, StartFlush(w, ms), stage[w] = "select", NEW v \in Worker
  PROVE  HandsOver(v)'
<1>1. /\ stage \in [Worker -> {"select", "handle", "dlq", "commit", "exited", "dead"}]
      /\ batch \in [Worker -> Seq(AllRefs)]
      /\ DOMAIN phase = Worker /\ DOMAIN cres = Worker /\ DOMAIN dels = Worker
  BY DEF EngineInv, EngineTypes, U!TypeOK
<1>2. CASE v # w
  <2>1. /\ stage'[v] = stage[v] /\ batch'[v] = batch[v]
        /\ phase'[v] = phase[v] /\ cres'[v] = cres[v] /\ dels'[v] = dels[v]
    BY <1>1, <1>2 DEF StartFlush, U!Begin, U!Goto, handling
  <2> QED
    BY <2>1, HandsKept
<1>3. CASE v = w /\ Panics(ms)
  <2>1. stage'[v] = "dead" /\ phase'[v] = phase[v] /\ cres'[v] = cres[v] /\ dels'[v] = dels[v]
    BY <1>1, <1>3 DEF StartFlush, handling
  <2> QED
    BY <1>3, <2>1, HandsKept
<1>4. CASE v = w /\ ~Panics(ms)
  <2>1. /\ stage'[w] = "handle" /\ batch'[w] = ms
        /\ cres'[w] = Folded(ms, "c") /\ dels'[w] = Folded(ms, "d")
    BY <1>1, <1>4 DEF StartFlush, U!Begin
  <2> QED
    BY <1>4, <2>1, HandsAfter
<1> QED
  BY <1>2, <1>3, <1>4

LEMMA HandsStep ==
  ASSUME EngineInv, U!TypeOK, \A w \in Worker : HandsOver(w), [Next]_vars, NEW v \in Worker
  PROVE  HandsOver(v)'
<1> USE DEF handling, kafka, dispatcher, workers
<1>1. /\ stage \in [Worker -> {"select", "handle", "dlq", "commit", "exited", "dead"}]
      /\ DOMAIN phase = Worker /\ DOMAIN cres = Worker /\ DOMAIN dels = Worker
      /\ DOMAIN batch = Worker
  BY DEF EngineInv, EngineTypes, U!TypeOK
<1>2. ASSUME UNCHANGED <<log, phase, cres, dels, batch, stage>> PROVE HandsOver(v)'
  BY <1>2, HandsKept
<1>3. ASSUME NEW w \in Worker, WorkerStep(w) PROVE HandsOver(v)'
  <2>1. CASE Receive(w)
    <3>1. CASE StartFlush(w, Append(batch[w], Head(chan[w])))
      BY <2>1, <3>1, FlushHands DEF Receive
    <3>2. CASE batch' = [batch EXCEPT ![w] = Append(batch[w], Head(chan[w]))]
               /\ UNCHANGED <<handling, stage, forgotten>>
      <4>1. stage[v] = "handle" => v # w
        BY <2>1 DEF Receive
      <4>2. stage[v] = "handle" => batch'[v] = batch[v]
        BY <1>1, <3>2, <4>1
      <4> QED
        BY <2>1, <3>2, <4>2, HandsKept DEF Receive
    <3> QED
      BY <2>1, <3>1, <3>2 DEF Receive
  <2>2. CASE Flush(w)
    BY <2>2, FlushHands DEF Flush
  <2>3. CASE Exit(w) \/ DlqOk(w) \/ DlqFail(w) \/ CommitOk(w) \/ CommitFail(w)
    <3>1. /\ UNCHANGED <<log, phase, cres, dels>> /\ stage[w] # "handle" /\ stage'[w] # "handle"
          /\ \A u \in Worker \ {w} : stage'[u] = stage[u] /\ batch'[u] = batch[u]
      BY <1>1, <2>3 DEF Exit, DlqOk, DlqFail, CommitOk, CommitFail, EndFlush
    <3> QED
      BY <3>1, HandsKept
  <2>4. CASE HandleOk(w) \/ HandleFail(w)
    <3>1. /\ UNCHANGED <<log, batch, stage, cres, dels>> /\ phase[w] # "idle"
          /\ \A u \in Worker \ {w} : phase'[u] = phase[u]
      BY <1>1, <2>4 DEF HandleOk, HandleFail, U!CreateOk, U!DeleteOk, U!QueryOk, U!SyncOk,
         U!CreateFail, U!DeleteFail, U!QueryFail, U!SyncFail, U!RetryOrFail, U!Goto
    <3>2. stage[w] = "handle"
      BY <3>1 DEF HandsOver
    <3>3. CASE v = w
      BY <3>1, <3>2, <3>3, HandsAfter DEF HandsOver
    <3>4. CASE v # w
      BY <3>1, <3>4, HandsKept
    <3> QED
      BY <3>3, <3>4
  <2>5. CASE Result(w)
    <3>1. /\ UNCHANGED <<log, batch>> /\ stage'[w] # "handle"
          /\ \A u \in Worker \ {w} : stage'[u] = stage[u]
          /\ phase'[w] = "idle" /\ cres'[w] = {} /\ dels'[w] = {}
          /\ \A u \in Worker \ {w} : /\ phase'[u] = phase[u] /\ cres'[u] = cres[u]
                                     /\ dels'[u] = dels[u]
      BY <1>1, <2>5 DEF Result, U!Return, U!Forget
    <3>2. CASE v = w
      BY <3>1, <3>2 DEF HandsOver
    <3>3. CASE v # w
      BY <3>1, <3>3, HandsKept
    <3> QED
      BY <3>2, <3>3
  <2> QED
    BY <1>3, <2>1, <2>2, <2>3, <2>4, <2>5 DEF WorkerStep, FlushStep
<1>4. ASSUME NEW w \in Worker, Deadline(w) PROVE HandsOver(v)'
  BY <1>2, <1>4 DEF Deadline, U!Expire
<1>5. ASSUME NEW i \in Instance, Dispatcher(i) \/ Cancel(i) PROVE HandsOver(v)'
  BY <1>2, <1>5 DEF Dispatcher, Fetch, Send, CloseChans, Cancel, U!Expire
<1>6. ASSUME NEW p \in Partition, Revoke(p) \/ \E i \in Instance : Assign(p, i) PROVE HandsOver(v)'
  BY <1>2, <1>6 DEF Revoke, Assign
<1>7. ASSUME NEW i \in Instance, Leave(i) \/ Crash(i) PROVE HandsOver(v)'
  <2>1. /\ log' = log /\ (v \in WorkersOf(i) <=> v[1] = i)
        /\ v[1] = i => stage'[v] = "exited"
        /\ v[1] # i => stage'[v] = stage[v] /\ batch'[v] = batch[v]
    BY <1>7, WorkerFacts DEF Leave, Crash, Stopped
  <2>2. CASE v[1] # i
    <3>1. phase'[v] = phase[v] /\ cres'[v] = cres[v] /\ dels'[v] = dels[v]
      BY <1>7, <2>1, <2>2 DEF Leave, Crash, U!Crash, U!Forget
    <3> QED
      BY <2>1, <2>2, <3>1, HandsKept
  <2>3. CASE v[1] = i /\ Leave(i)
    <3>1. stage[v] # "handle" /\ phase'[v] = phase[v] /\ cres'[v] = cres[v] /\ dels'[v] = dels[v]
      BY <2>1, <2>3 DEF Leave
    <3> QED
      BY <2>1, <2>3, <3>1, HandsKept
  <2>4. CASE v[1] = i /\ Crash(i)
    <3>1. phase'[v] = "idle" /\ cres'[v] = {} /\ dels'[v] = {}
      BY <2>1, <2>4 DEF Crash, U!Crash, U!Forget
    <3> QED
      BY <2>1, <2>4, <3>1 DEF HandsOver
  <2> QED
    BY <1>7, <2>2, <2>3, <2>4
<1>8. ASSUME NEW i \in Instance, Restart(i) PROVE HandsOver(v)'
  <2>1. /\ UNCHANGED <<log, phase, cres, dels, batch>>
        /\ v[1] = i => stage'[v] = "select" /\ disp[i] = "down"
        /\ v[1] # i => stage'[v] = stage[v]
    BY <1>8 DEF Restart
  <2>2. v[1] = i => stage[v] = "exited"
    BY <2>1 DEF EngineInv, WorkerInv
  <2> QED
    BY <2>1, <2>2, HandsKept
<1>9. CASE UNCHANGED vars
  BY <1>2, <1>9 DEF vars
<1> QED
  BY <1>3, <1>4, <1>5, <1>6, <1>7, <1>8, <1>9 DEF Next

LEMMA InitHands == Init => \A w \in Worker : HandsOver(w)
BY DEF Init, U!Init, U!HandlerInit, HandsOver

LEMMA HandsSafe ==
  ASSUME NoRebalance
  PROVE  Spec => [](ConsumerInv /\ OrderInv /\ \A w \in Worker : HandsOver(w))
<1>1. ConsumerInv /\ (\A w \in Worker : HandsOver(w)) /\ [Next]_vars
        => (\A w \in Worker : HandsOver(w))'
  BY HandsStep, InvParts
<1> QED
  BY <1>1, InitHands, OrderSafe, PTL DEF Spec

(* The clients of a batch are those of records in it.                      *)
LEMMA TouchedAreHeld ==
  ASSUME EngineInv, NEW w \in Worker, HandsOver(w), NEW c \in UP!Touched(w)
  PROVE  \E m \in HeldBy(w) : m \in AllRefs /\ RecordAt(m).key.client = c
<1>1. PICK k \in cres[w] \cup dels[w] : k.client = c
  BY DEF UP!Touched, UP!ClientsOf
<1>2. PICK a : k \in Folded(batch[w], a)
  BY <1>1 DEF HandsOver
<1>3. PICK n \in DOMAIN batch[w] : RecordAt(batch[w][n]).key = k
  BY <1>2 DEF Folded, IsOpOn
<1>4. batch[w][n] \in HeldBy(w)
  BY DEF HeldBy, ToSet
<1> QED
  BY <1>1, <1>3, <1>4, MemoryTypes

(* No two workers, of whatever processes, handle batches of one client.    *)
LEMMA ClientsApart ==
  ASSUME ClientsKeepPartition, EngineInv, OrderInv, \A w \in Worker : HandsOver(w)
  PROVE  UP!Apart
<1> SUFFICES ASSUME NEW v \in Worker, NEW w \in Worker, NEW c \in UP!Touched(v),
                    c \in UP!Touched(w)
             PROVE  v = w
  BY DEF UP!Apart
<1>1. PICK m \in HeldBy(v) : m \in AllRefs /\ RecordAt(m).key.client = c
  BY TouchedAreHeld
<1>2. PICK n \in HeldBy(w) : n \in AllRefs /\ RecordAt(n).key.client = c
  BY TouchedAreHeld
<1>3. log \in Logs
  BY DEF EngineInv, EngineTypes
<1>4. /\ m[1] \in Partition /\ m[2] \in 1 .. Len(log[m[1]])
      /\ n[1] \in Partition /\ n[2] \in 1 .. Len(log[n[1]])
  BY <1>1, <1>2, <1>3, RefFacts
<1>5. m[2] \in DOMAIN log[m[1]] /\ n[2] \in DOMAIN log[n[1]]
  BY <1>3, <1>4, ConsumerAssumption
<1>6. m[1] = n[1]
  BY <1>1, <1>2, <1>3, <1>4, <1>5 DEF ClientsKeepPartition, RecordAt
<1>7. v[1] = w[1]
  BY <1>6 DEF OrderInv, OwnersHold
<1>8. v[2] = w[2]
  BY <1>1, <1>2 DEF EngineInv, WorkerInv, SlotOf
<1> QED
  BY <1>7, <1>8 DEF Worker

(* What is proved about handlers of separate clients carries over to the   *)
(* engines of any number of processes.                                     *)
LEMMA GroupSafe ==
  ASSUME NoRebalance, ClientsKeepPartition
  PROVE  Spec => [](/\ ConsumerInv /\ OrderInv
                    /\ \A w \in Worker : HandsOver(w)
                    /\ UP!Apart /\ UP!HandlerInv)
<1>1. Init => UP!HandlerInv
  BY InitImplements, SameInit, UpdSvrFacts, UP!InitHandlerInv
<1>2. ConsumerInv /\ OrderInv /\ (\A w \in Worker : HandsOver(w)) => UP!Apart
  BY ClientsApart, InvParts
<1>3. ConsumerInv /\ UP!HandlerInv /\ [Next]_vars /\ UP!Apart' => UP!HandlerInv'
  <2> SUFFICES ASSUME ConsumerInv, UP!HandlerInv, [Next]_vars, UP!Apart' PROVE UP!HandlerInv'
    OBVIOUS
  <2>1. [UP!Next]_(UP!vars)
    BY StepImplements, InvParts, SameNext
  <2> QED
    BY <2>1, UpdSvrFacts, UP!HandlerInvStep
<1> QED
  BY <1>1, <1>2, <1>3, HandsSafe, PTL DEF Spec

(* As long as no partition is taken from a running process, no two workers *)
(* ever handle the same client at a time, whatever process they belong to, *)
(* and however processes crash, leave and take over from each other.       *)
THEOREM GroupHandlersApart ==
  ASSUME NoRebalance, ClientsKeepPartition
  PROVE  Spec => []OneHandlerPerClient
<1>1. UP!Apart => OneHandlerPerClient
  BY DEF UP!Apart, OneHandlerPerClient, U!Touched, UP!Touched, U!ClientsOf, UP!ClientsOf
<1> QED
  BY <1>1, GroupSafe, PTL

(* MySQL and Redis then agree about every client of no running batch whose *)
(* last update was not cut off or lost.                                    *)
THEOREM StoresAgreeInGroup ==
  ASSUME NoRebalance, ClientsKeepPartition
  PROVE  Spec => []StoresAgree
<1>1. UP!HandlerInv => StoresAgree
  BY HandlersAgree
<1> QED
  BY <1>1, GroupSafe, PTL

-----------------------------------------------------------------------------
(* The rows follow the log.                                                *)

(* The keys of a client are in one partition, and of one worker.           *)
LEMMA OpsTogether ==
  ASSUME ClientsKeepPartition, log \in Logs, NEW k,
         NEW m \in AllRefs, NEW n \in AllRefs, IsOpOn(m, k), IsOpOn(n, k)
  PROVE  m[1] = n[1] /\ SlotOf(m) = SlotOf(n)
<1>1. log[m[1]] \in Seq(Record) /\ log[n[1]] \in Seq(Record)
  BY RefFacts, ConsumerAssumption
<1>2. m[2] \in DOMAIN log[m[1]] /\ n[2] \in DOMAIN log[n[1]]
  BY <1>1, RefFacts
<1>3. m[1] \in Partition /\ n[1] \in Partition
  BY RefFacts
<1>4. log[m[1]][m[2]].key.client = log[n[1]][n[2]].key.client
  BY DEF IsOpOn, RecordAt
<1>5. m[1] = n[1]
  BY <1>2, <1>3, <1>4 DEF ClientsKeepPartition
<1> QED
  BY <1>5 DEF IsOpOn, SlotOf

(* The last of the records B that is about key k.                          *)
LastOf(B, k, m) ==
  m \in B /\ IsOpOn(m, k) /\ \A n \in B : IsOpOn(n, k) => n[2] <= m[2]

LEMMA LastExists ==
  ASSUME ClientsKeepPartition, log \in Logs, NEW B \in SUBSET AllRefs,
         NEW k, NEW n \in B, IsOpOn(n, k)
  PROVE  \E m : LastOf(B, k, m)
<1> DEFINE os == {o \in 1 .. Len(log[n[1]]) : <<n[1], o>> \in B /\ IsOpOn(<<n[1], o>>, k)}
<1>1. /\ n[1] \in Partition /\ n[2] \in os /\ Len(log[n[1]]) \in Nat
      /\ \A m \in B : m[2] \in 1 .. Len(log[m[1]]) /\ m = <<m[1], m[2]>>
  BY RefFacts
<1>2. PICK l \in os : \A o \in os : l >= o
  <2>1. os \in SUBSET (1 .. Len(log[n[1]])) /\ os # {}
    BY <1>1
  <2> HIDE DEF os
  <2> QED
    BY <1>1, <2>1, GreatestOf
<1>3. PICK m : m = <<n[1], l>>
  OBVIOUS
<1>4. ASSUME NEW q \in B, IsOpOn(q, k) PROVE q[2] <= m[2]
  <2>1. q[1] = n[1]
    BY <1>4, OpsTogether
  <2>2. q[2] \in os
    BY <1>1, <1>4, <2>1
  <2> QED
    BY <1>1, <1>2, <1>3, <2>2
<1> QED
  BY <1>2, <1>3, <1>4 DEF LastOf

(* The last record of a batch that is about a key is in the fold.          *)
LEMMA LastFolded ==
  ASSUME EngineInv, OrderInv, NEW w \in Worker, ~Panics(batch[w]), NEW k,
         NEW m, LastOf(ToSet(batch[w]), k, m),
         \A n \in ToSet(batch[w]) : IsOpOn(n, k) => n[1] = m[1]
  PROVE  k \in Folded(batch[w], RecordAt(m).act) /\ RecordAt(m).act \in {"c", "d"}
<1>1. batch[w] \in Seq(AllRefs) /\ Increasing(batch[w])
  BY MemoryTypes DEF OrderInv, InLine
<1>2. PICK a \in DOMAIN batch[w] : m = batch[w][a]
  BY DEF ToSet, LastOf
<1>3. m \in AllRefs /\ RecordAt(m) \in Record /\ IsOpOn(m, k)
  BY <1>1, <1>2, RefFacts DEF EngineInv, EngineTypes, LastOf
<1>4. ASSUME NEW j \in DOMAIN batch[w], IsOpOn(batch[w][j], k) PROVE j <= a
  <2>1. batch[w][j] \in AllRefs /\ batch[w][j] \in ToSet(batch[w])
    BY <1>1 DEF ToSet
  <2>2. batch[w][j][1] = m[1] /\ batch[w][j][2] <= m[2]
    BY <1>4, <2>1 DEF LastOf
  <2>3. ~ (m[2] < batch[w][j][2])
    BY <1>3, <2>1, <2>2, PlaceFacts
  <2>4. a < j => Ahead(m, batch[w][j])
    BY <1>1, <1>2 DEF Increasing
  <2>5. j \in Nat /\ a \in Nat
    BY <1>1
  <2> QED
    BY <2>2, <2>3, <2>4, <2>5 DEF Ahead
<1>5. k \in U!OrderKey
  BY <1>3 DEF Record, IsOpOn
<1>6. RecordAt(m).act \in {"c", "d"}
  BY <1>3 DEF Record, IsOpOn, Panics, LastOf
<1> QED
  BY <1>2, <1>3, <1>4, <1>5, <1>6 DEF Folded

Clean(k) == \A n \in dlq \cup forgotten : ~IsOpOn(n, k)

(* The rows of the keys that nobody works on any more.                     *)
RowsSettled ==
  \A m \in AllRefs :
    Latest(m) /\ m[2] <= pos[m[1]] /\ m \notin Pending /\ Clean(RecordAt(m).key)
      => (RecordAt(m).key \in orders <=> RecordAt(m).act = "c")

LEMMA RowsParts ==
  /\ RowsInv <=> /\ settled \cap Pending = {}
                 /\ \A m \in settled : RecordAt(m).act # "blank"
                 /\ \A k \in orders : \E m \in AllRefs : IsOpOn(m, k)
                 /\ RowsSettled
  /\ RowsInv' <=> /\ settled' \cap Pending' = {}
                  /\ \A m \in settled' : RecordAt(m)'.act # "blank"
                  /\ \A k \in orders' : \E m \in AllRefs' : IsOpOn(m, k)'
                  /\ RowsSettled'
BY DEF RowsInv, RowsSettled, Clean

LEMMA LatestKept ==
  ASSUME log' = log
  PROVE  \A m : Latest(m)' <=> Latest(m)
BY LogKept DEF Latest, IsOpOn, RecordAt, AllRefs

(* Steps that do not touch the rows, and put aside or forget what leaves   *)
(* memory.                                                                 *)
LEMMA RowsKept ==
  ASSUME EngineInv, OrderInv, RowsInv, log' = log, orders' = orders, settled' \subseteq settled,
         dlq \cup forgotten \subseteq dlq' \cup forgotten',
         \A p \in Partition : pos'[p] <= pos[p] /\ pos'[p] \in Nat,
         Pending' \subseteq Pending,
         \A m \in Pending : m \notin Pending' => m \in dlq' \cup forgotten'
  PROVE  RowsInv'
<1>1. /\ settled' \cap Pending' = {}
      /\ \A m \in settled' : RecordAt(m)'.act # "blank"
      /\ \A k \in orders' : \E m \in AllRefs' : IsOpOn(m, k)'
  BY RowsParts, LogKept
<1>2. RowsSettled'
  <2> SUFFICES ASSUME NEW m \in AllRefs, Latest(m), m[2] <= pos'[m[1]], m \notin Pending',
                      Clean(RecordAt(m).key)'
               PROVE  RecordAt(m).key \in orders <=> RecordAt(m).act = "c"
    BY LogKept, LatestKept DEF RowsSettled, Clean
  <2>1. IsOpOn(m, RecordAt(m).key)
    BY DEF Latest
  <2>2. m \notin Pending
    BY <2>1, LogKept DEF Clean
  <2>3. Clean(RecordAt(m).key)
    BY LogKept DEF Clean
  <2>4. m[2] <= pos[m[1]]
    BY PlaceFacts
  <2> QED
    BY <2>2, <2>3, <2>4, RowsParts DEF RowsSettled
<1> QED
  BY <1>1, <1>2, RowsParts

(* Steps of a worker that do not touch the rows.                           *)
LEMMA WorkerRows ==
  ASSUME EngineInv, OrderInv, RowsInv, NEW w \in Worker,
         UNCHANGED <<log, orders, settled, pos, disp, held>>,
         \A v \in Worker \ {w} : chan'[v] = chan[v] /\ batch'[v] = batch[v] /\ stage'[v] = stage[v],
         dlq \cup forgotten \subseteq dlq' \cup forgotten',
         PendingBy(w)' \subseteq PendingBy(w),
         \A m \in PendingBy(w) : m \notin PendingBy(w)' => m \in dlq' \cup forgotten'
  PROVE  RowsInv'
<1>1. \A v \in Worker \ {w} : PendingBy(v)' = PendingBy(v)
  BY DEF PendingBy
<1>2. Pending' \subseteq Pending
  BY <1>1, PendingFacts
<1>3. \A m \in Pending : m \notin Pending' => m \in dlq' \cup forgotten'
  BY <1>1, PendingFacts
<1>4. \A p \in Partition : pos'[p] <= pos[p] /\ pos'[p] \in Nat
  BY DEF EngineInv, EngineTypes
<1> QED
  BY <1>2, <1>3, <1>4, RowsKept

(* What was not handled yet and leaves memory is put aside or forgotten.   *)
LEMMA ForgetFacts ==
  ASSUME RowsInv, NEW ms, Forget(ms)
  PROVE  /\ forgotten \subseteq forgotten'
         /\ \A m \in ms : m \in Pending => m \in dlq' \cup forgotten'
BY RowsParts DEF Forget

LEMMA FlushRows ==
  ASSUME EngineInv, OrderInv, RowsInv, NEW w \in Worker, NEW ms, StartFlush(w, ms),
         stage[w] = "select", UNCHANGED <<kafka, dispatcher, settled>>,
         NEW c, chan' = [chan EXCEPT ![w] = c], ToSet(c) \cup ToSet(ms) = HeldBy(w)
  PROVE  RowsInv'
<1> USE DEF kafka, dispatcher
<1>1. /\ stage \in [Worker -> {"select", "handle", "dlq", "commit", "exited", "dead"}]
      /\ DOMAIN batch = Worker /\ DOMAIN chan = Worker
  BY DEF EngineInv, EngineTypes
<1>2. \A m : m \in PendingBy(w) <=> m \in HeldBy(w)
  BY DEF PendingBy, HeldBy
<1>3. chan'[w] = c /\ \A v \in Worker \ {w} : chan'[v] = chan[v]
  BY <1>1
<1>4. /\ orders' = orders /\ dlq' = dlq
      /\ \A v \in Worker \ {w} : batch'[v] = batch[v] /\ stage'[v] = stage[v]
      /\ \/ batch'[w] = ms /\ stage'[w] = "handle" /\ forgotten' = forgotten
         \/ batch'[w] = <<>> /\ stage'[w] = "dead" /\ Forget(ToSet(ms))
  BY <1>1 DEF StartFlush, U!Begin, handling
<1>5. CASE batch'[w] = ms /\ stage'[w] = "handle" /\ forgotten' = forgotten
  <2>1. PendingBy(w)' = PendingBy(w)
    BY <1>2, <1>3, <1>5 DEF PendingBy
  <2> QED
    BY <1>3, <1>4, <1>5, <2>1, WorkerRows
<1>6. CASE batch'[w] = <<>> /\ stage'[w] = "dead" /\ Forget(ToSet(ms))
  <2>1. PendingBy(w)' = ToSet(c)
    BY <1>3, <1>6, NothingInEmpty DEF PendingBy
  <2>2. \A m \in PendingBy(w) : m \notin PendingBy(w)' => m \in dlq' \cup forgotten'
    BY <1>2, <1>6, <2>1, ForgetFacts, PendingFacts
  <2>3. PendingBy(w)' \subseteq PendingBy(w) /\ forgotten \subseteq forgotten'
    BY <1>2, <1>6, <2>1, ForgetFacts
  <2> QED
    BY <1>3, <1>4, <2>2, <2>3, WorkerRows
<1> QED
  BY <1>4, <1>5, <1>6

LEMMA ReceiveRows ==
  ASSUME EngineInv, OrderInv, RowsInv, NEW w \in Worker, Receive(w)
  PROVE  RowsInv'
<1>1. PICK c, ms : c = Tail(chan[w]) /\ ms = Append(batch[w], Head(chan[w]))
  OBVIOUS
<1>2. /\ stage[w] = "select" /\ UNCHANGED <<kafka, dispatcher, settled>>
      /\ chan' = [chan EXCEPT ![w] = c]
      /\ \/ batch' = [batch EXCEPT ![w] = ms] /\ UNCHANGED <<handling, stage, forgotten>>
         \/ StartFlush(w, ms)
  BY <1>1 DEF Receive
<1>3. ToSet(c) \cup ToSet(ms) = HeldBy(w)
  BY <1>1, ReceivedIsHeld
<1>4. CASE StartFlush(w, ms)
  BY <1>2, <1>3, <1>4, FlushRows
<1>5. CASE batch' = [batch EXCEPT ![w] = ms] /\ UNCHANGED <<handling, stage, forgotten>>
  <2>1. /\ chan'[w] = c /\ batch'[w] = ms /\ stage'[w] = "select"
        /\ \A v \in Worker \ {w} : chan'[v] = chan[v] /\ batch'[v] = batch[v]
    BY <1>2, <1>5 DEF EngineInv, EngineTypes
  <2>2. PendingBy(w)' = PendingBy(w)
    BY <1>2, <1>3, <2>1 DEF PendingBy, HeldBy
  <2> QED
    BY <1>2, <1>5, <2>1, <2>2, WorkerRows DEF kafka, dispatcher, handling
<1> QED
  BY <1>2, <1>4, <1>5

LEMMA PutAsideRows ==
  ASSUME EngineInv, OrderInv, RowsInv, NEW w \in Worker,
         Flush(w) \/ Exit(w) \/ DlqOk(w) \/ DlqFail(w) \/ CommitOk(w) \/ CommitFail(w)
  PROVE  RowsInv'
<1> USE DEF kafka, dispatcher, handling, history
<1>1. /\ stage \in [Worker -> {"select", "handle", "dlq", "commit", "exited", "dead"}]
      /\ DOMAIN batch = Worker
      /\ chan' = chan => chan' = [chan EXCEPT ![w] = chan[w]]
  <2>1. chan \in [Worker -> Seq(AllRefs)]
    BY MemoryTypes
  <2> QED
    BY <2>1 DEF EngineInv, EngineTypes
<1>2. CASE Flush(w)
  BY <1>1, <1>2, FlushRows DEF Flush, HeldBy
<1>3. CASE Exit(w)
  <2>1. PendingBy(w)' = PendingBy(w)
    BY <1>1, <1>3 DEF PendingBy, Exit
  <2> QED
    BY <1>1, <1>3, <2>1, WorkerRows DEF Exit
<1>4. CASE DlqOk(w)
  <2>1. PendingBy(w)' = ToSet(chan[w]) /\ PendingBy(w) = ToSet(chan[w]) \cup ToSet(batch[w])
    BY <1>1, <1>4 DEF PendingBy, DlqOk
  <2> QED
    BY <1>1, <1>4, <2>1, WorkerRows DEF DlqOk
<1>5. CASE DlqFail(w)
  <2>1. PendingBy(w)' = ToSet(chan[w]) /\ PendingBy(w) = ToSet(chan[w]) \cup ToSet(batch[w])
    BY <1>1, <1>5, NothingInEmpty DEF PendingBy, DlqFail, EndFlush
  <2>2. \A m \in PendingBy(w) : m \notin PendingBy(w)' => m \in dlq' \cup forgotten'
    BY <1>5, <2>1, ForgetFacts, PendingFacts DEF DlqFail
  <2>3. forgotten \subseteq forgotten'
    BY <1>5, ForgetFacts DEF DlqFail
  <2> QED
    BY <1>1, <1>5, <2>1, <2>2, <2>3, WorkerRows DEF DlqFail, EndFlush
<1>6. CASE CommitOk(w) \/ CommitFail(w)
  <2>1. PendingBy(w)' = ToSet(chan[w]) /\ PendingBy(w) = ToSet(chan[w])
    BY <1>1, <1>6, NothingInEmpty DEF PendingBy, CommitOk, CommitFail, EndFlush
  <2> QED
    BY <1>1, <1>6, <2>1, WorkerRows DEF CommitOk, CommitFail, EndFlush
<1> QED
  BY <1>2, <1>3, <1>4, <1>5, <1>6

(* What a step of a handler does to the stores and to its worker.          *)
LEMMA HandleEffect ==
  ASSUME U!TypeOK, NEW w \in Worker, HandleOk(w) \/ HandleFail(w)
  PROVE  /\ orders' = orders \/ orders' = orders \cup cres[w] \/ orders' = orders \ dels[w]
         /\ phase[w] # "idle"
         /\ UNCHANGED <<kafka, dispatcher, workers, settled, forgotten>>
BY DEF HandleOk, HandleFail, U!CreateOk, U!DeleteOk, U!QueryOk, U!SyncOk,
   U!CreateFail, U!DeleteFail, U!QueryFail, U!SyncFail,
   U!BatchCreateOrders, U!BatchDeleteOrders, history

(* The keys of a batch are those of its records.                           *)
LEMMA KeysAreOfRecords ==
  ASSUME EngineInv, NEW w \in Worker, HandsOver(w), NEW k \in cres[w] \cup dels[w]
  PROVE  stage[w] = "handle" /\ \E n \in ToSet(batch[w]) : n \in AllRefs /\ IsOpOn(n, k)
<1>1. stage[w] = "handle"
  BY DEF HandsOver
<1>2. PICK a : k \in Folded(batch[w], a)
  BY <1>1 DEF HandsOver
<1>3. PICK n \in DOMAIN batch[w] : IsOpOn(batch[w][n], k)
  BY <1>2 DEF Folded
<1>4. batch[w][n] \in ToSet(batch[w])
  BY DEF ToSet
<1> QED
  BY <1>1, <1>3, <1>4, MemoryTypes DEF HeldBy

(* A handler has no key whose last record is out of memory.                *)
LEMMA LatestUntouched ==
  ASSUME EngineInv, OrderInv, NEW w \in Worker, HandsOver(w),
         NEW m \in AllRefs, Latest(m), m[2] <= pos[m[1]], m \notin Pending
  PROVE  RecordAt(m).key \notin cres[w] \cup dels[w]
<1> SUFFICES ASSUME RecordAt(m).key \in cres[w] \cup dels[w] PROVE FALSE
  OBVIOUS
<1>1. PICK n \in ToSet(batch[w]) : n \in AllRefs /\ IsOpOn(n, RecordAt(m).key)
  BY KeysAreOfRecords
<1>2. stage[w] = "handle" /\ n \in HeldBy(w)
  BY KeysAreOfRecords DEF HeldBy
<1>3. n[1] = m[1] /\ n[2] <= m[2] /\ n # m
  <2>1. n \in Pending
    BY <1>1, <1>2, MemoryFacts DEF MemoryIs
  <2> QED
    BY <1>1, <2>1 DEF Latest
<1>4. n[2] < m[2]
  BY <1>1, <1>3, PlaceFacts
<1>5. SlotOf(m) = w[2]
  <2>1. SlotOf(n) = SlotOf(m)
    BY <1>1 DEF IsOpOn, SlotOf
  <2> QED
    BY <1>2, <2>1 DEF EngineInv, WorkerInv
<1>6. m \in HeldBy(w) \/ (disp[w[1]] = "send" /\ m = held[w[1]])
  BY <1>2, <1>3, <1>4, <1>5 DEF OrderInv, NoneSkipped
<1> QED
  BY <1>2, <1>6, WorkerFacts, MemoryFacts DEF MemoryIs, HeldBy

LEMMA HandleRows ==
  ASSUME EngineInv, OrderInv, U!TypeOK, RowsInv, NEW w \in Worker, HandsOver(w),
         HandleOk(w) \/ HandleFail(w)
  PROVE  RowsInv'
<1>1. /\ orders' = orders \/ orders' = orders \cup cres[w] \/ orders' = orders \ dels[w]
      /\ UNCHANGED <<log, pos, dlq, disp, held, chan, batch, stage, settled, forgotten>>
  BY HandleEffect DEF kafka, dispatcher, workers
<1>2. Pending' = Pending
  BY <1>1 DEF Pending, Sending
<1>3. \A k \in orders' : \E m \in AllRefs : IsOpOn(m, k)
  <2> SUFFICES ASSUME NEW k \in orders' PROVE \E m \in AllRefs : IsOpOn(m, k)
    OBVIOUS
  <2>1. CASE k \in orders
    BY <2>1, RowsParts
  <2>2. CASE k \in cres[w]
    BY <2>2, KeysAreOfRecords
  <2> QED
    BY <1>1, <2>1, <2>2
<1>4. RowsSettled'
  <2> SUFFICES ASSUME NEW m \in AllRefs, Latest(m), m[2] <= pos[m[1]], m \notin Pending,
                      Clean(RecordAt(m).key)
               PROVE  RecordAt(m).key \in orders' <=> RecordAt(m).act = "c"
    BY <1>1, <1>2, LogKept, LatestKept DEF RowsSettled, Clean
  <2>1. RecordAt(m).key \notin cres[w] \cup dels[w]
    BY LatestUntouched
  <2>2. RecordAt(m).key \in orders <=> RecordAt(m).act = "c"
    BY RowsParts DEF RowsSettled
  <2> QED
    BY <1>1, <2>1, <2>2
<1> QED
  BY <1>1, <1>2, <1>3, <1>4, LogKept, RowsParts

LEMMA LatestFolded ==
  ASSUME EngineInv, OrderInv, NEW w \in Worker, ~Panics(batch[w]),
         NEW m \in ToSet(batch[w]), Latest(m)
  PROVE  /\ RecordAt(m).key \in Folded(batch[w], RecordAt(m).act)
         /\ RecordAt(m).act \in {"c", "d"}
<1>1. ToSet(batch[w]) \subseteq AllRefs
  BY MemoryTypes DEF HeldBy
<1>2. LastOf(ToSet(batch[w]), RecordAt(m).key, m)
  BY <1>1 DEF LastOf, Latest
<1>3. \A n \in ToSet(batch[w]) : IsOpOn(n, RecordAt(m).key) => n[1] = m[1]
  BY <1>1 DEF Latest
<1> QED
  BY <1>2, <1>3, LastFolded

(* When HandleBatch returns nil, the rows are as the batch says.           *)
LEMMA ResultRows ==
  ASSUME EngineInv, OrderInv, UP!HandlerInv, RowsInv, NEW w \in Worker, HandsOver(w), Result(w)
  PROVE  RowsInv'
<1>1. /\ UNCHANGED <<log, orders, pos, dlq, forgotten, disp, held, chan, batch>>
      /\ stage[w] = "handle"
      /\ \/ phase[w] = "ok" /\ stage' = [stage EXCEPT ![w] = "commit"]
            /\ settled' = settled \cup ToSet(batch[w])
         \/ stage' = [stage EXCEPT ![w] = "dlq"] /\ settled' = settled
  BY DEF Result, U!Return, kafka, dispatcher
<1>2. stage \in [Worker -> {"select", "handle", "dlq", "commit", "exited", "dead"}]
  BY DEF EngineInv, EngineTypes
<1>3. CASE stage' = [stage EXCEPT ![w] = "dlq"] /\ settled' = settled
  <2>1. /\ stage'[w] = "dlq" /\ \A v \in Worker \ {w} : stage'[v] = stage[v]
    BY <1>2, <1>3
  <2>2. PendingBy(w)' = PendingBy(w)
    BY <1>1, <2>1 DEF PendingBy
  <2> QED
    BY <1>1, <1>3, <2>1, <2>2, WorkerRows
<1>4. CASE phase[w] = "ok" /\ stage' = [stage EXCEPT ![w] = "commit"]
           /\ settled' = settled \cup ToSet(batch[w])
  <2>1. stage'[w] = "commit" /\ \A v \in Worker \ {w} : stage'[v] = stage[v]
    BY <1>2, <1>4
  <2>2. \A m : m \in Pending' <=> m \in Pending /\ m \notin ToSet(batch[w])
    <3>1. \A v \in Worker \ {w} : PendingBy(v)' = PendingBy(v)
      BY <1>1, <2>1 DEF PendingBy
    <3>2. PendingBy(w)' = ToSet(chan[w])
      BY <1>1, <2>1 DEF PendingBy
    <3> QED
      BY <1>1, <3>1, <3>2, KeepsOrdered, FirstInLine, DropFirst DEF HeldBy
  <2>3. ~Panics(batch[w]) /\ cres[w] = Folded(batch[w], "c") /\ dels[w] = Folded(batch[w], "d")
    BY <1>1 DEF HandsOver
  <2>4. settled' \cap Pending' = {}
    BY <1>4, <2>2, RowsParts
  <2>5. \A m \in settled' : RecordAt(m).act # "blank"
    BY <1>4, <2>3, RowsParts DEF Panics
  <2>6. cres[w] \subseteq orders /\ dels[w] \cap orders = {}
    BY <1>4 DEF UP!HandlerInv, UP!BatchInv
  <2>7. RowsSettled'
    <3> SUFFICES ASSUME NEW m \in AllRefs, Latest(m), m[2] <= pos[m[1]], m \notin Pending',
                        Clean(RecordAt(m).key)
                 PROVE  RecordAt(m).key \in orders <=> RecordAt(m).act = "c"
      BY <1>1, LogKept, LatestKept DEF RowsSettled, Clean
    <3>1. CASE m \in ToSet(batch[w])
      BY <2>3, <2>6, <3>1, LatestFolded
    <3>2. CASE m \notin ToSet(batch[w])
      BY <2>2, <3>2, RowsParts DEF RowsSettled
    <3> QED
      BY <3>1, <3>2
  <2> QED
    BY <1>1, <2>4, <2>5, <2>7, LogKept, RowsParts
<1> QED
  BY <1>1, <1>3, <1>4

LEMMA FetchRows ==
  ASSUME EngineInv, OrderInv, RowsInv, NEW i \in Instance, NEW p \in Partition, Fetch(i, p)
  PROVE  RowsInv'
<1>1. PICK r : r = <<p, pos[p] + 1>>
  OBVIOUS
<1>2. /\ disp[i] = "fetch" /\ disp'[i] = "send" /\ held'[i] = r
      /\ \A j \in Instance \ {i} : disp'[j] = disp[j] /\ held'[j] = held[j]
      /\ pos[p] \in Nat /\ pos'[p] = pos[p] + 1
      /\ \A q \in Partition \ {p} : pos'[q] = pos[q]
      /\ r[1] = p /\ r[2] = pos[p] + 1
      /\ settled' = settled \ {r} /\ forgotten' = forgotten \ {r} /\ dlq' = dlq
      /\ UNCHANGED <<log, orders, chan, batch, stage>>
  BY <1>1 DEF Fetch, workers, handling, EngineInv, EngineTypes
<1>3. \A m : m \in Pending' <=> m \in Pending \/ m = r
  <2>1. \A v : PendingBy(v)' = PendingBy(v)
    BY <1>2 DEF PendingBy
  <2> QED
    BY <1>2, <2>1, PendingFacts
<1>4. RowsSettled'
  <2> SUFFICES ASSUME NEW m \in AllRefs, Latest(m), m[2] <= pos'[m[1]], m \notin Pending',
                      \A n \in dlq \cup (forgotten \ {r}) : ~IsOpOn(n, RecordAt(m).key)
               PROVE  RecordAt(m).key \in orders <=> RecordAt(m).act = "c"
    BY <1>2, LogKept, LatestKept DEF RowsSettled, Clean
  <2>1. m \notin Pending /\ m # r
    BY <1>3
  <2>2. m[1] = p => m[2] <= pos[p]
    <3>1. m[1] = p => m[2] # pos[p] + 1
      BY <1>1, <2>1, PlaceFacts
    <3> QED
      BY <1>2, <3>1, PlaceFacts
  <2>3. m[2] <= pos[m[1]]
    BY <1>2, <2>2, PlaceFacts
  <2>4. r \in AllRefs => ~IsOpOn(r, RecordAt(m).key)
    <3> SUFFICES ASSUME r \in AllRefs, IsOpOn(r, RecordAt(m).key) PROVE FALSE
      OBVIOUS
    <3>1. r[1] = m[1] /\ r[2] <= m[2]
      BY DEF Latest
    <3> QED
      BY <1>2, <2>2, <3>1, PlaceFacts
  <2>5. Clean(RecordAt(m).key)
    BY <2>4 DEF Clean, EngineInv, EngineTypes
  <2> QED
    BY <2>1, <2>3, <2>5, RowsParts DEF RowsSettled
<1>5. settled' \cap Pending' = {}
  BY <1>2, <1>3, RowsParts
<1> QED
  BY <1>2, <1>4, <1>5, LogKept, RowsParts

LEMMA SendRows ==
  ASSUME EngineInv, OrderInv, RowsInv, NEW i \in Instance, Send(i)
  PROVE  RowsInv'
<1>1. \A m : m \in Pending' <=> m \in Pending
  BY SentIsPending
<1>2. UNCHANGED <<log, orders, settled, forgotten, dlq, pos>>
  BY DEF Send, kafka, history, handling
<1>3. \A p \in Partition : pos'[p] <= pos[p] /\ pos'[p] \in Nat
  BY <1>2 DEF EngineInv, EngineTypes
<1> QED
  BY <1>1, <1>2, <1>3, RowsKept

(* A process that ends forgets what it has not dealt with.                 *)
LEMMA StoppedRows ==
  ASSUME EngineInv, OrderInv, RowsInv, NEW i \in Instance, Stopped(i),
         UNCHANGED <<log, orders, pos, settled>>
  PROVE  RowsInv'
<1>1. /\ \A v \in Worker : v[1] = i => PendingBy(v)' = {}
      /\ \A v \in Worker : v[1] # i => PendingBy(v)' = PendingBy(v)
      /\ disp'[i] = "down" /\ \A j \in Instance \ {i} : disp'[j] = disp[j] /\ held'[j] = held[j]
      /\ dlq' = dlq /\ Forget(InMemoryOf(i))
  BY NothingInEmpty DEF Stopped, PendingBy, EngineInv, EngineTypes
<1>2. Pending' \subseteq Pending
  BY <1>1, PendingFacts
<1>3. \A m \in Pending : m \notin Pending' => m \in InMemoryOf(i)
  <2>1. \A v \in Worker : v[1] = i => PendingBy(v) \subseteq InMemoryOf(i)
    BY WorkerFacts, PendingFacts DEF InMemoryOf
  <2>2. \A m : disp[i] = "send" /\ m = held[i] => m \in InMemoryOf(i)
    BY DEF InMemoryOf, Sending
  <2> QED
    BY <1>1, <2>1, <2>2, PendingFacts
<1>4. \A m \in Pending : m \notin Pending' => m \in dlq' \cup forgotten'
  BY <1>1, <1>3, ForgetFacts
<1>5. dlq \cup forgotten \subseteq dlq' \cup forgotten'
  BY <1>1, ForgetFacts
<1>6. \A p \in Partition : pos'[p] <= pos[p] /\ pos'[p] \in Nat
  BY DEF EngineInv, EngineTypes
<1> QED
  BY <1>2, <1>4, <1>5, <1>6, RowsKept

LEMMA StillRows ==
  ASSUME EngineInv, OrderInv, RowsInv,
         UNCHANGED <<log, orders, settled, forgotten, dlq, held, chan, batch>>,
         \A v \in Worker : stage'[v] = stage[v] \/ batch[v] = <<>>,
         \A i \in Instance : disp'[i] = "send" <=> disp[i] = "send",
         \A p \in Partition : pos'[p] = pos[p] \/ pos'[p] = committed[p]
  PROVE  RowsInv'
<1>1. \A v \in Worker : PendingBy(v)' = PendingBy(v)
  BY NothingInEmpty DEF PendingBy
<1>2. \A m : m \in Pending' <=> m \in Pending
  BY <1>1, PendingFacts
<1>3. \A p \in Partition : pos'[p] <= pos[p] /\ pos'[p] \in Nat
  <2>1. \A p \in Partition : pos[p] \in Nat /\ committed[p] \in Nat /\ committed[p] <= pos[p]
    BY DEF OrderInv, PositionsInv, EngineInv, EngineTypes
  <2> QED
    BY <2>1
<1> QED
  BY <1>2, <1>3, RowsKept

LEMMA InitRowsInv == Init => RowsInv
<1> SUFFICES ASSUME Init PROVE RowsInv
  OBVIOUS
<1>1. settled = {} /\ orders = {} /\ pos = [p \in Partition |-> 0] /\ log \in Logs
  BY DEF Init, U!Init, U!StoresInit
<1>2. ASSUME NEW m \in AllRefs PROVE ~ (m[2] <= pos[m[1]])
  <2>1. m[1] \in Partition /\ m[2] \in 1 .. Len(log[m[1]]) /\ Len(log[m[1]]) \in Nat
    BY <1>1, RefFacts
  <2> QED
    BY <1>1, <2>1
<1> QED
  BY <1>1, <1>2, RowsParts DEF RowsSettled

LEMMA RowsInvStep ==
  ASSUME NoRebalance, EngineInv, OrderInv, U!TypeOK, UP!HandlerInv,
         \A w \in Worker : HandsOver(w), RowsInv, [Next]_vars
  PROVE  RowsInv'
<1> USE DEF handling, kafka, dispatcher, workers, history
<1>1. ASSUME NEW w \in Worker, WorkerStep(w) PROVE RowsInv'
  BY <1>1, ReceiveRows, PutAsideRows, HandleRows, ResultRows DEF WorkerStep, FlushStep
<1>2. ASSUME NEW w \in Worker, Deadline(w) PROVE RowsInv'
  BY <1>2, StillRows DEF Deadline, U!Expire
<1>3. ASSUME NEW i \in Instance, Dispatcher(i) PROVE RowsInv'
  <2>1. CASE CloseChans(i)
    <3>1. \A j \in Instance : disp'[j] = "send" <=> disp[j] = "send"
      BY <2>1 DEF CloseChans, EngineInv, EngineTypes
    <3> QED
      BY <2>1, <3>1, StillRows DEF CloseChans
  <2> QED
    BY <1>3, <2>1, FetchRows, SendRows DEF Dispatcher
<1>4. ASSUME NEW i \in Instance, Cancel(i) PROVE RowsInv'
  BY <1>4, StillRows DEF Cancel, U!Expire
<1>5. ASSUME NEW i \in Instance, Leave(i) \/ Crash(i) PROVE RowsInv'
  BY <1>5, StoppedRows DEF Leave, Crash, U!Crash
<1>6. ASSUME NEW i \in Instance, Restart(i) PROVE RowsInv'
  <2>1. \A j \in Instance : disp'[j] = "send" <=> disp[j] = "send"
    BY <1>6 DEF Restart, EngineInv, EngineTypes
  <2>2. \A v \in Worker : stage'[v] = stage[v] \/ batch[v] = <<>>
    BY <1>6 DEF Restart, EngineInv, WorkerInv
  <2> QED
    BY <1>6, <2>1, <2>2, StillRows DEF Restart
<1>7. ASSUME NEW p \in Partition, Revoke(p) \/ \E i \in Instance : Assign(p, i) PROVE RowsInv'
  <2>1. CASE Revoke(p)
    BY <2>1 DEF Revoke, Fault, NoRebalance
  <2>2. CASE \E i \in Instance : Assign(p, i)
    <3>1. \A q \in Partition : pos'[q] = pos[q] \/ pos'[q] = committed[q]
      BY <2>2 DEF Assign, EngineInv, EngineTypes
    <3> QED
      BY <2>2, <3>1, StillRows DEF Assign
  <2> QED
    BY <1>7, <2>1, <2>2
<1>8. CASE UNCHANGED vars
  BY <1>8, StillRows DEF vars
<1> QED
  BY <1>1, <1>2, <1>3, <1>4, <1>5, <1>6, <1>7, <1>8 DEF Next

LEMMA SameHandlerInv == UP!HandlerInv => U!HandlerInv
BY SameTypes DEF U!HandlerInv, UP!HandlerInv, U!BatchInv, UP!BatchInv,
   U!SyncedClientsAgree, UP!SyncedClientsAgree, U!InFlight, UP!InFlight,
   U!Touched, UP!Touched, U!DelOnly, UP!DelOnly, U!ClientsOf, UP!ClientsOf,
   U!Running, UP!Running, U!HasOrders, UP!HasOrders

(* As long as no partition is taken from a running process, every state of *)
(* the group satisfies the inductive invariant: records stay in line, a    *)
(* handler has the fold of its batch, the stores agree, and the row of a   *)
(* key is settled with the last record about it.                           *)
THEOREM DeliverySafe ==
  ASSUME NoRebalance, ClientsKeepPartition
  PROVE  Spec => []DeliveryInv
<1>1. /\ ConsumerInv /\ OrderInv /\ (\A w \in Worker : HandsOver(w)) /\ UP!HandlerInv
      /\ RowsInv /\ [Next]_vars
      => RowsInv'
  <2>1. ConsumerInv => EngineInv /\ U!TypeOK
    BY InvParts
  <2> QED
    BY <2>1, RowsInvStep
<1>2. Spec => []RowsInv
  BY <1>1, InitRowsInv, GroupSafe, PTL DEF Spec
<1>3. /\ ConsumerInv /\ OrderInv /\ (\A w \in Worker : HandsOver(w)) /\ UP!HandlerInv /\ RowsInv
      => DeliveryInv
  BY SameHandlerInv DEF DeliveryInv
<1> QED
  BY <1>2, <1>3, GroupSafe, PTL

(* If there is a record about key k, there is a last one.                  *)
LEMMA LatestExists ==
  ASSUME ClientsKeepPartition, log \in Logs, NEW k, NEW n \in AllRefs, IsOpOn(n, k)
  PROVE  \E m \in AllRefs : Latest(m) /\ RecordAt(m).key = k
<1>1. PICK m : LastOf(AllRefs, k, m)
  BY LastExists
<1>2. RecordAt(m).key = k
  BY <1>1 DEF LastOf, IsOpOn
<1> QED
  BY <1>1, <1>2, OpsTogether DEF LastOf, Latest

(* What the end-to-end test expects of a key is what the last record about *)
(* it says.                                                                *)
LEMMA ExpectedIsLatest ==
  ASSUME log \in Logs, NEW m \in AllRefs, Latest(m)
  PROVE  (\E p \in Partition : RecordAt(m).key \in Expected(p)) <=> RecordAt(m).act = "c"
<1>1. PICK k : k = RecordAt(m).key
  OBVIOUS
<1>2. /\ m[1] \in Partition /\ m[2] \in 1 .. Len(log[m[1]]) /\ m = <<m[1], m[2]>>
      /\ k \in U!OrderKey
      /\ \A p \in Partition : \A o \in 1 .. Len(log[p]) : <<p, o>> \in AllRefs /\ o \in Nat
  BY <1>1, RefFacts DEF Record
<1>3. IsOpOn(m, k) /\ \A q \in AllRefs : IsOpOn(q, k) => q[1] = m[1] /\ q[2] <= m[2]
  BY <1>1 DEF Latest
<1>4. \A p \in Partition : /\ DOMAIN RefSeq(p) = 1 .. Len(log[p])
                           /\ \A o \in 1 .. Len(log[p]) : RefSeq(p)[o] = <<p, o>>
  BY DEF RefSeq
<1>5. ASSUME RecordAt(m).act = "c" PROVE k \in Expected(m[1])
  <2>1. m[2] \in DOMAIN RefSeq(m[1]) /\ RefSeq(m[1])[m[2]] = m
    BY <1>2, <1>4
  <2>2. ASSUME NEW j \in DOMAIN RefSeq(m[1]), IsOpOn(RefSeq(m[1])[j], k) PROVE j <= m[2]
    <3>1. j \in 1 .. Len(log[m[1]]) /\ RefSeq(m[1])[j] = <<m[1], j>> /\ <<m[1], j>> \in AllRefs
      BY <1>2, <1>4, <2>2
    <3>2. <<m[1], j>>[2] = j
      OBVIOUS
    <3> QED
      BY <1>3, <2>2, <3>1, <3>2
  <2> QED
    BY <1>2, <1>3, <1>5, <2>1, <2>2 DEF Expected, Folded
<1>6. ASSUME NEW p \in Partition, k \in Expected(p) PROVE RecordAt(m).act = "c"
  <2>1. PICK n \in DOMAIN RefSeq(p) :
          /\ IsOpOn(RefSeq(p)[n], k) /\ RecordAt(RefSeq(p)[n]).act = "c"
          /\ \A j \in DOMAIN RefSeq(p) : IsOpOn(RefSeq(p)[j], k) => j <= n
    BY <1>6 DEF Expected, Folded
  <2>2. PICK q : q = <<p, n>>
    OBVIOUS
  <2>3. q \in AllRefs /\ RefSeq(p)[n] = q /\ q[1] = p /\ q[2] = n /\ n \in Nat
    BY <1>2, <1>4, <2>1, <2>2
  <2>4. p = m[1] /\ n <= m[2]
    BY <1>3, <2>1, <2>3
  <2>5. m[2] <= n
    BY <1>2, <1>3, <1>4, <2>1, <2>4
  <2>6. m = q
    BY <1>2, <2>2, <2>3, <2>4, <2>5
  <2> QED
    BY <2>1, <2>3, <2>6
<1> QED
  BY <1>1, <1>2, <1>5, <1>6

(* When everything was fetched and has left memory, the rows are those the *)
(* end-to-end test expects, but for the clients with a record that was put *)
(* aside or forgotten: whatever crashed, was retried, delivered again or   *)
(* run concurrently, as long as no partition was taken from a running      *)
(* process.                                                                *)
THEOREM RowsAsExpected ==
  ASSUME NoRebalance, ClientsKeepPartition
  PROVE  Spec => []RowsFollowLog
<1>1. DeliveryInv => RowsFollowLog
  <2> SUFFICES ASSUME DeliveryInv, Quiet, NEW k \in U!OrderKey, k.client \in Intact
               PROVE  k \in orders <=> \E p \in Partition : k \in Expected(p)
    BY DEF RowsFollowLog
  <2>1. EngineInv /\ OrderInv /\ RowsInv /\ log \in Logs
    BY InvParts DEF DeliveryInv, EngineInv, EngineTypes
  <2>2. CASE \E n \in AllRefs : IsOpOn(n, k)
    <3>1. PICK m \in AllRefs : Latest(m) /\ RecordAt(m).key = k
      BY <2>1, <2>2, LatestExists
    <3>2. m \notin Pending
      BY PendingFacts DEF Quiet
    <3>3. m[2] <= pos[m[1]]
      BY <2>1, RefFacts DEF Quiet
    <3>4. Clean(k)
      BY DEF Clean, Intact, IsOpOn
    <3>5. k \in orders <=> RecordAt(m).act = "c"
      BY <2>1, <3>1, <3>2, <3>3, <3>4, RowsParts DEF RowsSettled
    <3> QED
      BY <2>1, <3>1, <3>5, ExpectedIsLatest
  <2>3. CASE \A n \in AllRefs : ~IsOpOn(n, k)
    <3>1. k \notin orders
      BY <2>1, <2>3, RowsParts
    <3>2. ASSUME NEW p \in Partition, k \in Expected(p) PROVE FALSE
      <4>1. PICK n \in DOMAIN RefSeq(p) : IsOpOn(RefSeq(p)[n], k)
        BY <3>2 DEF Expected, Folded
      <4>2. n \in 1 .. Len(log[p]) /\ RefSeq(p)[n] = <<p, n>>
        BY DEF RefSeq
      <4> QED
        BY <2>1, <2>3, <4>1, <4>2, RefFacts
    <3> QED
      BY <3>1, <3>2
  <2> QED
    BY <2>2, <2>3
<1> QED
  BY <1>1, DeliverySafe, PTL

-----------------------------------------------------------------------------
(* The rows at every moment.                                               *)

(* What has been put aside or forgotten.                                   *)
Lost == dlq \cup forgotten

LEMMA InitCalm == Init => CalmInv
BY DEF Init, CalmInv

LEMMA CalmStep ==
  ASSUME Calm, EngineInv, OrderInv, CalmInv, [Next]_vars
  PROVE  CalmInv'
<1> USE DEF handling, kafka, dispatcher, workers, history
<1>1. /\ \A i \in Instance : ~cancelled[i] /\ disp[i] \in {"fetch", "send"}
      /\ \A p \in Partition : owner[p] = None => pos[p] = committed[p]
      /\ \A m \in Lost : m[2] <= pos[m[1]]
      /\ \A m \in Lost : m \in AllRefs
  BY DEF CalmInv, Lost, EngineInv, EngineTypes
<1>2. ASSUME UNCHANGED <<cancelled, disp>>,
             \A p \in Partition : owner'[p] = None => pos'[p] = committed'[p],
             \A m \in Lost' : m \in Lost \/ \E w \in Worker : m \in HeldBy(w),
             pos' = pos
      PROVE  CalmInv'
  <2>1. \A w \in Worker : \A m \in HeldBy(w) : m[2] <= pos[m[1]]
    BY DEF OrderInv, PositionsInv
  <2> QED
    BY <1>1, <1>2, <2>1 DEF CalmInv, Lost
<1>3. ASSUME NEW w \in Worker, WorkerStep(w) PROVE CalmInv'
  <2>1. /\ UNCHANGED <<cancelled, disp, owner, pos>>
    BY <1>3 DEF WorkerStep, FlushStep, Receive, Flush, Exit,
       HandleOk, HandleFail, Result, DlqOk, DlqFail, CommitOk, CommitFail
  <2>2. \A p \in Partition : owner[p] = None => committed'[p] = committed[p]
    <3>1. CASE UNCHANGED committed
      BY <3>1
    <3>2. CASE stage[w] = "commit" /\ committed' = CommittedBy(batch[w])
      <4>1. \A m \in ToSet(batch[w]) : owner[m[1]] = w[1] /\ w[1] # None
        BY WorkerFacts, ConsumerAssumption DEF OrderInv, OwnersHold, HeldBy
      <4> QED
        BY <3>2, <4>1, CommittedByFacts
    <3> QED
      BY <1>3, <3>1, <3>2 DEF WorkerStep, FlushStep, Receive, Flush, Exit,
         HandleOk, HandleFail, Result, DlqOk, DlqFail, CommitOk, CommitFail
  <2>3. \A m \in Lost' : m \in Lost \/ m \in HeldBy(w)
    <3>1. ASSUME NEW ms, StartFlush(w, ms), dlq' = dlq, ToSet(ms) \subseteq HeldBy(w)
          PROVE  \A m \in Lost' : m \in Lost \/ m \in HeldBy(w)
      BY <3>1 DEF StartFlush, Forget, Lost
    <3>2. CASE Receive(w)
      <4>1. ToSet(Append(batch[w], Head(chan[w]))) \subseteq HeldBy(w)
        <5>1. chan[w] # <<>> /\ chan[w] \in Seq(AllRefs)
          BY <3>2, MemoryTypes DEF Receive
        <5>2. Head(chan[w]) \in ToSet(chan[w])
          BY <5>1, ToSetFacts
        <5> QED
          BY <5>1, <5>2, NextBatch DEF HeldBy
      <4> QED
        BY <3>1, <3>2, <4>1 DEF Receive, Lost
    <3>3. CASE Flush(w)
      BY <3>1, <3>3 DEF Flush, HeldBy
    <3>4. CASE DlqOk(w) \/ DlqFail(w)
      BY <3>4 DEF DlqOk, DlqFail, Forget, Lost, HeldBy
    <3>5. CASE Exit(w) \/ HandleOk(w) \/ HandleFail(w) \/ Result(w) \/ CommitOk(w) \/ CommitFail(w)
      BY <3>5 DEF Exit, HandleOk, HandleFail, Result, CommitOk, CommitFail, Lost
    <3> QED
      BY <1>3, <3>2, <3>3, <3>4, <3>5 DEF WorkerStep, FlushStep
  <2> QED
    BY <1>1, <1>2, <2>1, <2>2, <2>3
<1>4. ASSUME NEW i \in Instance, NEW p \in Partition, Fetch(i, p) PROVE CalmInv'
  <2>1. /\ owner[p] = i /\ i # None /\ UNCHANGED <<owner, committed, cancelled>>
        /\ \A q \in Partition \ {p} : pos'[q] = pos[q]
        /\ \A q \in Partition : pos[q] \in Nat /\ (pos'[q] = pos[q] \/ pos'[q] = pos[q] + 1)
        /\ \A j \in Instance : disp'[j] = disp[j] \/ disp'[j] = "send"
        /\ \A m \in Lost' : m \in Lost
    BY <1>4, ConsumerAssumption DEF Fetch, EngineInv, EngineTypes, Lost
  <2>2. \A q \in Partition : owner'[q] = None => pos'[q] = committed'[q]
    BY <1>1, <2>1
  <2>3. \A m \in Lost' : m[2] <= pos'[m[1]]
    <3> SUFFICES ASSUME NEW m \in Lost PROVE m[2] <= pos'[m[1]]
      BY <2>1
    <3>1. m[1] \in Partition /\ m[2] \in Nat /\ m[2] <= pos[m[1]] /\ pos[m[1]] \in Nat
      BY <1>1, PlaceFacts
    <3> QED
      BY <2>1, <3>1
  <2> QED
    BY <1>1, <2>1, <2>2, <2>3 DEF CalmInv, Lost
<1>5. ASSUME NEW i \in Instance, Send(i) \/ CloseChans(i) PROVE CalmInv'
  BY <1>1, <1>5 DEF Send, CloseChans, CalmInv, EngineInv, EngineTypes
<1>6. ASSUME NEW p \in Partition, NEW i \in Instance, Assign(p, i) PROVE CalmInv'
  <2>1. pos' = pos /\ \A q \in Partition : owner'[q] = None => owner[q] = None
    BY <1>1, <1>6 DEF Assign, EngineInv, EngineTypes
  <2> QED
    BY <1>1, <1>2, <1>6, <2>1 DEF Assign, Lost
<1>7. ASSUME NEW w \in Worker, Deadline(w) PROVE CalmInv'
  BY <1>1, <1>2, <1>7 DEF Deadline, Lost
<1>8. CASE UNCHANGED vars
  BY <1>1, <1>2, <1>8 DEF vars, Lost
<1>9. ASSUME NEW i \in Instance, Cancel(i) \/ Leave(i) \/ Crash(i) \/ Restart(i) PROVE CalmInv'
  BY <1>1, <1>9 DEF Cancel, Leave, Crash, Restart, Fault, Calm
<1>10. ASSUME NEW p \in Partition, Revoke(p) PROVE CalmInv'
  BY <1>10 DEF Revoke, Fault, Calm
<1> QED
  BY <1>3, <1>4, <1>5, <1>6, <1>7, <1>8, <1>9, <1>10 DEF Next, Dispatcher

(* What is left to do on key k, once its actions up to record m are dealt  *)
(* with.                                                                   *)
Entry(m) == [at |-> m[2], act |-> RecordAt(m).act]
Rest(k, m) == {b \in Todo(k) : b.at > m[2]}

(* A step of a key: nothing happens to it, or its row is written, or its   *)
(* actions up to record m are acknowledged, or put aside.                  *)
RowSays(k, m) == RecordAt(m).act # "blank" /\ (k \in orders' <=> RecordAt(m).act = "c")
Untouched(k) ==
  Todo(k)' = Todo(k) /\ (k \in orders' <=> k \in orders) /\ (k \in Spoiled' <=> k \in Spoiled)
Written(k, m) ==
  Todo(k)' = Todo(k) /\ RowSays(k, m) /\ (k \in Spoiled' <=> k \in Spoiled)
Acknowledged(k, m) ==
  Todo(k)' = Rest(k, m) /\ RowSays(k, m) /\ (k \in Spoiled' <=> k \in Spoiled)
SetAside(k, m) ==
  Todo(k)' = Rest(k, m) /\ (k \in orders' <=> k \in orders) /\ k \in Spoiled'

LEMMA KeySteps ==
  ASSUME log' = log, orders' \subseteq U!OrderKey,
         \A k \in U!OrderKey :
           \/ Untouched(k)
           \/ \E m \in Unacknowledged :
                IsOpOn(m, k) /\ (Written(k, m) \/ Acknowledged(k, m) \/ SetAside(k, m))
  PROVE  Rows!Next
<1>1. ASSUME NEW k \in U!OrderKey, Untouched(k) PROVE Rows!Stay(k)
  BY <1>1 DEF Untouched, Rows!Stay, U!OrderKey
<1>2. ASSUME NEW k \in U!OrderKey, NEW m \in Unacknowledged, IsOpOn(m, k),
             Written(k, m) \/ Acknowledged(k, m) \/ SetAside(k, m)
      PROVE  \E a \in Todo(k) :
               Rows!Write(k, a) \/ Rows!Acknowledge(k, a) \/ Rows!PutAside(k, a)
  <2>1. PICK a : a = Entry(m)
    OBVIOUS
  <2>2. a \in Todo(k) /\ a.at = m[2] /\ a.act = RecordAt(m).act
    BY <1>2, <2>1 DEF Entry, Todo
  <2>3. Written(k, m) => Rows!Write(k, a)
    BY <2>2 DEF Written, Rows!Write, RowSays, Rows!RowIs, U!OrderKey
  <2>4. Acknowledged(k, m) => Rows!Acknowledge(k, a)
    BY <2>2 DEF Acknowledged, Rows!Acknowledge, RowSays, Rows!RowIs, Rest, Rows!After, U!OrderKey
  <2>5. SetAside(k, m) => Rows!PutAside(k, a)
    BY <2>2 DEF SetAside, Rows!PutAside, Rest, Rows!After, U!OrderKey
  <2> QED
    BY <1>2, <2>2, <2>3, <2>4, <2>5
<1>3. Spoiled' \subseteq U!OrderKey
  BY DEF Spoiled, U!OrderKey
<1> QED
  BY <1>1, <1>2, <1>3 DEF Rows!Next, U!OrderKey

(* Steps that leave alone the rows and what is left to do.                 *)
LEMMA SameTodo ==
  ASSUME log' = log, Unacknowledged' = Unacknowledged
  PROVE  \A k : Todo(k)' = Todo(k)
BY LogKept DEF Todo, IsOpOn, RecordAt

LEMMA SameSpoiled ==
  ASSUME log' = log, Lost' = Lost
  PROVE  Spoiled' = Spoiled
BY LogKept DEF Spoiled, Lost, U!OrderKey

LEMMA NothingHappens ==
  ASSUME log' = log, orders' = orders, orders \subseteq U!OrderKey,
         Unacknowledged' = Unacknowledged, Lost' = Lost
  PROVE  Rows!Next
BY SameTodo, SameSpoiled, KeySteps DEF Untouched

LEMMA UnackKept ==
  ASSUME \A w \in Worker : PendingBy(w)' = PendingBy(w), UNCHANGED <<log, pos, disp, held>>
  PROVE  Unacknowledged' = Unacknowledged
<1>1. \A m : m \in Pending' <=> m \in Pending
  BY PendingFacts
<1>2. AllRefs' = AllRefs
  BY LogKept
<1> QED
  BY <1>1, <1>2 DEF Unacknowledged

(* What is left to do is what follows them.                                *)
LEMMA DropTodo ==
  ASSUME ClientsKeepPartition, EngineInv, OrderInv, NEW w \in Worker, NEW B, DropsFirst(w, B),
         NEW k
  PROVE  /\ (\A m \in B : ~IsOpOn(m, k)) => Todo(k)' = Todo(k)
         /\ \A m : LastOf(B, k, m) => Todo(k)' = Rest(k, m)
<1>1. /\ B \subseteq Unacknowledged /\ B \subseteq AllRefs /\ log \in Logs
      /\ Unacknowledged' = Unacknowledged \ B
  BY DropFirst DEF EngineInv, EngineTypes
<1>2. Todo(k)' = {Entry(n) : n \in {q \in Unacknowledged \ B : IsOpOn(q, k)}}
  BY <1>1, LogKept DEF Todo, Entry, DropsFirst
<1>3. Todo(k) = {Entry(n) : n \in {q \in Unacknowledged : IsOpOn(q, k)}}
  BY DEF Todo, Entry
<1>4. ASSUME NEW m, LastOf(B, k, m), NEW n \in Unacknowledged, IsOpOn(n, k)
      PROVE  n \notin B <=> n[2] > m[2]
  <2>1. m \in B /\ m \in AllRefs /\ m \in HeldBy(w) /\ IsOpOn(m, k)
    BY <1>1, <1>4 DEF LastOf, DropsFirst
  <2>2. m[2] \in Nat /\ m[2] <= pos[m[1]] /\ pos[m[1]] \in Nat
    BY <2>1, PlaceFacts DEF OrderInv, PositionsInv
  <2>3. CASE n \in B
    <3>1. n[2] \in Nat /\ n[2] <= m[2]
      BY <1>1, <1>4, <2>3, PlaceFacts DEF LastOf
    <3> QED
      BY <2>2, <2>3, <3>1
  <2>4. CASE n \notin B /\ n \in Pending
    <3>1. n \in AllRefs
      BY <2>4, PendingRefs
    <3>2. n[1] = m[1] /\ SlotOf(n) = SlotOf(m) /\ n[2] \in Nat
      BY <1>1, <1>4, <2>1, <3>1, OpsTogether, PlaceFacts
    <3>3. n \in HeldBy(w) \/ (disp[w[1]] = "send" /\ n = held[w[1]])
      BY <2>1, <2>4, <3>2, SameWorker, PendingFacts
    <3>4. Ahead(m, n)
      BY <2>1, <2>4, <3>3 DEF DropsFirst, OrderInv, InLine
    <3> QED
      BY <2>2, <2>4, <3>2, <3>4 DEF Ahead
  <2>5. CASE n \notin B /\ n \in AllRefs /\ n[2] > pos[n[1]]
    <3>1. n[1] = m[1] /\ n[2] \in Nat
      BY <1>1, <1>4, <2>1, <2>5, OpsTogether, PlaceFacts
    <3> QED
      BY <2>2, <2>5, <3>1
  <2> QED
    BY <1>4, <2>3, <2>4, <2>5 DEF Unacknowledged
<1>5. ASSUME NEW m, LastOf(B, k, m) PROVE Todo(k)' = Rest(k, m)
  BY <1>2, <1>3, <1>4, <1>5 DEF Rest, Entry
<1> QED
  BY <1>2, <1>3, <1>5

(* The first records of a worker are dealt with: each of their keys is as  *)
(* the last one about it says, or put aside; nothing else changes.         *)
LEMMA DropsStep ==
  ASSUME ClientsKeepPartition, EngineInv, OrderInv, NEW w \in Worker, NEW B, DropsFirst(w, B),
         orders' \subseteq U!OrderKey,
         \A k \in U!OrderKey :
           IF \A m \in B : ~IsOpOn(m, k)
           THEN (k \in orders' <=> k \in orders) /\ (k \in Spoiled' <=> k \in Spoiled)
           ELSE \A m : LastOf(B, k, m) =>
                  \/ RowSays(k, m) /\ (k \in Spoiled' <=> k \in Spoiled)
                  \/ (k \in orders' <=> k \in orders) /\ k \in Spoiled'
  PROVE  Rows!Next
<1>1. /\ B \subseteq Unacknowledged /\ B \in SUBSET AllRefs /\ log \in Logs /\ log' = log
  BY DropFirst DEF EngineInv, EngineTypes, DropsFirst
<1>2. ASSUME NEW k \in U!OrderKey
      PROVE  \/ Untouched(k)
             \/ \E m \in Unacknowledged :
                  IsOpOn(m, k) /\ (Written(k, m) \/ Acknowledged(k, m) \/ SetAside(k, m))
  <2>1. CASE \A m \in B : ~IsOpOn(m, k)
    BY <2>1, DropTodo DEF Untouched
  <2>2. CASE \E n \in B : IsOpOn(n, k)
    <3>1. PICK m : LastOf(B, k, m)
      BY <1>1, <2>2, LastExists
    <3>2. Acknowledged(k, m) \/ SetAside(k, m)
      BY <2>2, <3>1, DropTodo DEF Acknowledged, SetAside
    <3> QED
      BY <1>1, <3>1, <3>2 DEF LastOf
  <2> QED
    BY <2>1, <2>2
<1> QED
  BY <1>1, <1>2, KeySteps

(* They are put aside.                                                     *)
LEMMA PutAsideStep ==
  ASSUME ClientsKeepPartition, EngineInv, OrderInv, NEW w \in Worker, NEW B, DropsFirst(w, B),
         orders \subseteq U!OrderKey, orders' = orders, Lost' = Lost \cup B
  PROVE  Rows!Next
<1>1. \A m, k : IsOpOn(m, k)' <=> IsOpOn(m, k)
  BY LogKept DEF DropsFirst
<1>2. \A k \in U!OrderKey : k \in Spoiled <=> \E m \in Lost : IsOpOn(m, k)
  BY DEF Spoiled, Lost
<1>3. \A k \in U!OrderKey : k \in Spoiled' <=> \E m \in Lost' : IsOpOn(m, k)
  BY <1>1 DEF Spoiled, Lost, U!OrderKey
<1>4. \A k \in U!OrderKey : k \in Spoiled' <=> k \in Spoiled \/ \E m \in B : IsOpOn(m, k)
  BY <1>2, <1>3
<1> QED
  BY <1>4, DropsStep

LEMMA ForgetLost ==
  ASSUME RowsInv, NEW ms \in SUBSET Pending, Forget(ms),
         dlq \subseteq dlq', dlq' \subseteq dlq \cup ms
  PROVE  Lost' = Lost \cup ms
BY RowsParts DEF Forget, Lost

(* The batch leaves by a panic, or goes to the dead letter queue.          *)
LEMMA PanicStep ==
  ASSUME ClientsKeepPartition, EngineInv, OrderInv, RowsInv, NEW w \in Worker, stage[w] = "select",
         orders \subseteq U!OrderKey,
         NEW ms, StartFlush(w, ms), UNCHANGED <<kafka, dispatcher, settled>>,
         NEW c, chan' = [chan EXCEPT ![w] = c], OrderedChange(w, c, ms),
         ToSet(c) \cup ToSet(ms) = HeldBy(w)
  PROVE  Rows!Next
<1> USE DEF kafka, dispatcher
<1>1. /\ stage \in [Worker -> {"select", "handle", "dlq", "commit", "exited", "dead"}]
      /\ DOMAIN batch = Worker /\ DOMAIN chan = Worker
  BY DEF EngineInv, EngineTypes
<1>2. PendingBy(w) = HeldBy(w)
  BY DEF PendingBy, HeldBy
<1>3. chan'[w] = c /\ \A v \in Worker \ {w} : chan'[v] = chan[v]
  BY <1>1
<1>4. /\ orders' = orders /\ dlq' = dlq
      /\ \A v \in Worker \ {w} : batch'[v] = batch[v] /\ stage'[v] = stage[v]
      /\ \/ batch'[w] = ms /\ stage'[w] = "handle" /\ forgotten' = forgotten
         \/ batch'[w] = <<>> /\ stage'[w] = "dead" /\ Forget(ToSet(ms))
  BY <1>1 DEF StartFlush, U!Begin, handling
<1>5. \A v \in Worker \ {w} : PendingBy(v)' = PendingBy(v)
  BY <1>3, <1>4 DEF PendingBy
<1>6. CASE batch'[w] = ms /\ stage'[w] = "handle" /\ forgotten' = forgotten
  <2>1. PendingBy(w)' = PendingBy(w)
    BY <1>2, <1>3, <1>6 DEF PendingBy
  <2>2. Unacknowledged' = Unacknowledged
    BY <1>5, <2>1, UnackKept
  <2> QED
    BY <1>4, <1>6, <2>2, NothingHappens DEF Lost
<1>7. CASE batch'[w] = <<>> /\ stage'[w] = "dead" /\ Forget(ToSet(ms))
  <2>1. PendingBy(w)' = ToSet(c)
    BY <1>3, <1>7, NothingInEmpty DEF PendingBy
  <2>2. DropsFirst(w, ToSet(ms)) /\ ToSet(ms) \subseteq Pending
    BY <1>5, <2>1, FirstInLine
  <2>3. Lost' = Lost \cup ToSet(ms)
    BY <1>4, <1>7, <2>2, ForgetLost
  <2> QED
    BY <1>4, <2>2, <2>3, PutAsideStep
<1> QED
  BY <1>4, <1>6, <1>7

LEMMA TakesStep ==
  ASSUME ClientsKeepPartition, EngineInv, OrderInv, RowsInv, NEW w \in Worker,
         orders \subseteq U!OrderKey, Receive(w) \/ Flush(w)
  PROVE  Rows!Next
<1>1. CASE Flush(w)
  <2>1. chan' = [chan EXCEPT ![w] = chan[w]]
    BY <1>1 DEF Flush, EngineInv, EngineTypes
  <2> QED
    BY <1>1, <2>1, KeepsOrdered, PanicStep DEF Flush, HeldBy
<1>2. CASE Receive(w)
  <2>1. PICK c, ms : c = Tail(chan[w]) /\ ms = Append(batch[w], Head(chan[w]))
    OBVIOUS
  <2>2. /\ stage[w] = "select" /\ UNCHANGED <<kafka, dispatcher, settled>>
        /\ chan' = [chan EXCEPT ![w] = c] /\ OrderedChange(w, c, ms)
        /\ \/ batch' = [batch EXCEPT ![w] = ms] /\ UNCHANGED <<handling, stage, forgotten>>
           \/ StartFlush(w, ms)
    BY <1>2, <2>1, KeepsOrdered DEF Receive
  <2>3. ToSet(c) \cup ToSet(ms) = HeldBy(w)
    BY <1>2, <2>1, ReceivedIsHeld
  <2>4. CASE StartFlush(w, ms)
    BY <2>2, <2>3, <2>4, PanicStep
  <2>5. CASE batch' = [batch EXCEPT ![w] = ms] /\ UNCHANGED <<handling, stage, forgotten>>
    <3>1. /\ chan'[w] = c /\ batch'[w] = ms /\ stage'[w] = "select"
          /\ \A v \in Worker \ {w} : chan'[v] = chan[v] /\ batch'[v] = batch[v]
      BY <2>2, <2>5 DEF EngineInv, EngineTypes
    <3>2. \A v \in Worker : PendingBy(v)' = PendingBy(v)
      BY <2>2, <2>3, <2>5, <3>1 DEF PendingBy, HeldBy
    <3>3. Unacknowledged' = Unacknowledged
      BY <2>2, <3>2, UnackKept DEF kafka, dispatcher
    <3> QED
      BY <2>2, <2>5, <3>3, NothingHappens DEF Lost, handling, kafka
  <2> QED
    BY <2>2, <2>4, <2>5
<1> QED
  BY <1>1, <1>2

LEMMA DlqStep ==
  ASSUME ClientsKeepPartition, EngineInv, OrderInv, RowsInv, NEW w \in Worker,
         orders \subseteq U!OrderKey, DlqOk(w) \/ DlqFail(w)
  PROVE  Rows!Next
<1>1. /\ stage[w] = "dlq" /\ UNCHANGED <<log, pos, disp, held, chan, orders>>
      /\ batch' = batch \/ batch' = [batch EXCEPT ![w] = <<>>]
      /\ \/ stage' = [stage EXCEPT ![w] = "commit"] \/ batch' = [batch EXCEPT ![w] = <<>>]
      /\ \A v \in Worker \ {w} : stage'[v] = stage[v]
  BY DEF DlqOk, DlqFail, EndFlush, handling, dispatcher, EngineInv, EngineTypes
<1>2. DOMAIN batch = Worker /\ DOMAIN stage = Worker
  BY DEF EngineInv, EngineTypes
<1>3. /\ PendingBy(w)' = ToSet(chan[w])
      /\ \A v \in Worker \ {w} : PendingBy(v)' = PendingBy(v)
  BY <1>1, <1>2, NothingInEmpty DEF PendingBy
<1>4. DropsFirst(w, ToSet(batch[w])) /\ ToSet(batch[w]) \subseteq Pending
  BY <1>1, <1>3, KeepsOrdered, FirstInLine DEF HeldBy
<1>5. Lost' = Lost \cup ToSet(batch[w])
  BY <1>4, ForgetLost DEF DlqOk, DlqFail, Lost, history
<1> QED
  BY <1>1, <1>4, <1>5, PutAsideStep

(* A statement writes the rows of keys of the batch, as a record of the    *)
(* batch says.                                                             *)
LEMMA HandleStep ==
  ASSUME EngineInv, U!TypeOK, U!TypeOK', NEW w \in Worker, HandsOver(w),
         HandleOk(w) \/ HandleFail(w)
  PROVE  Rows!Next
<1>1. /\ orders' = orders \/ orders' = orders \cup cres[w] \/ orders' = orders \ dels[w]
      /\ UNCHANGED <<log, pos, dlq, forgotten, disp, held, chan, batch, stage>>
  BY HandleEffect DEF kafka, dispatcher, workers
<1>2. \A v \in Worker : PendingBy(v)' = PendingBy(v)
  BY <1>1 DEF PendingBy
<1>3. Unacknowledged' = Unacknowledged /\ Spoiled' = Spoiled /\ \A k : Todo(k)' = Todo(k)
  BY <1>1, <1>2, UnackKept, SameTodo, SameSpoiled DEF Lost
<1>4. orders' \subseteq U!OrderKey
  BY DEF U!TypeOK, U!StoresTypeOK, U!OrderKey
<1>5. ASSUME NEW a, NEW k \in Folded(batch[w], a), stage[w] = "handle", a \in {"c", "d"}
      PROVE  \E m \in Unacknowledged : IsOpOn(m, k) /\ RecordAt(m).act = a
  <2>1. PICK n \in DOMAIN batch[w] : IsOpOn(batch[w][n], k) /\ RecordAt(batch[w][n]).act = a
    BY DEF Folded
  <2>2. batch[w][n] \in PendingBy(w)
    BY <1>5 DEF PendingBy, ToSet
  <2> QED
    BY <2>1, <2>2, PendingFacts DEF Unacknowledged
<1>6. stage[w] = "handle" /\ cres[w] = Folded(batch[w], "c") /\ dels[w] = Folded(batch[w], "d")
  BY HandleEffect DEF HandsOver
<1>7. ASSUME NEW k \in U!OrderKey
      PROVE  Untouched(k) \/ \E m \in Unacknowledged : IsOpOn(m, k) /\ Written(k, m)
  <2>1. CASE orders' = orders \cup cres[w] /\ k \in cres[w]
    BY <1>3, <1>5, <1>6, <2>1 DEF Written, RowSays
  <2>2. CASE orders' = orders \ dels[w] /\ k \in dels[w]
    BY <1>3, <1>5, <1>6, <2>2 DEF Written, RowSays
  <2>3. CASE k \in orders' <=> k \in orders
    BY <1>3, <2>3 DEF Untouched
  <2> QED
    BY <1>1, <2>1, <2>2, <2>3
<1> QED
  BY <1>1, <1>4, <1>7, KeySteps

(* A handler that returns nil leaves the rows as the batch says.           *)
LEMMA ResultStep ==
  ASSUME ClientsKeepPartition, EngineInv, OrderInv, UP!HandlerInv, NEW w \in Worker, HandsOver(w),
         orders \subseteq U!OrderKey, Result(w)
  PROVE  Rows!Next
<1>1. /\ UNCHANGED <<log, orders, pos, dlq, forgotten, disp, held, chan, batch>>
      /\ stage[w] = "handle"
      /\ \/ phase[w] = "ok" /\ stage' = [stage EXCEPT ![w] = "commit"]
         \/ stage' = [stage EXCEPT ![w] = "dlq"]
  BY DEF Result, U!Return, kafka, dispatcher
<1>2. stage \in [Worker -> {"select", "handle", "dlq", "commit", "exited", "dead"}]
  BY DEF EngineInv, EngineTypes
<1>3. \A v \in Worker \ {w} : PendingBy(v)' = PendingBy(v)
  BY <1>1, <1>2 DEF PendingBy
<1>4. Spoiled' = Spoiled
  BY <1>1, SameSpoiled DEF Lost
<1>5. CASE stage' = [stage EXCEPT ![w] = "dlq"]
  <2>1. PendingBy(w)' = PendingBy(w)
    BY <1>1, <1>2, <1>5 DEF PendingBy
  <2>2. Unacknowledged' = Unacknowledged
    BY <1>1, <1>3, <2>1, UnackKept
  <2> QED
    BY <1>1, <2>2, NothingHappens DEF Lost
<1>6. CASE phase[w] = "ok" /\ stage' = [stage EXCEPT ![w] = "commit"]
  <2>1. PendingBy(w)' = ToSet(chan[w])
    BY <1>1, <1>2, <1>6 DEF PendingBy
  <2>2. DropsFirst(w, ToSet(batch[w])) /\ ToSet(batch[w]) \subseteq AllRefs
    BY <1>1, <1>3, <2>1, KeepsOrdered, FirstInLine, DropFirst DEF HeldBy
  <2>3. /\ ~Panics(batch[w])
        /\ cres[w] = Folded(batch[w], "c") /\ dels[w] = Folded(batch[w], "d")
        /\ cres[w] \subseteq orders /\ dels[w] \cap orders = {}
    BY <1>1, <1>6 DEF HandsOver, UP!HandlerInv, UP!BatchInv
  <2>4. ASSUME NEW k, NEW m, LastOf(ToSet(batch[w]), k, m) PROVE RowSays(k, m)
    <3>1. \A n \in ToSet(batch[w]) : IsOpOn(n, k) => n[1] = m[1]
      BY <2>2, <2>4, OpsTogether DEF LastOf, EngineInv, EngineTypes
    <3>2. k \in Folded(batch[w], RecordAt(m).act) /\ RecordAt(m).act \in {"c", "d"}
      BY <2>3, <2>4, <3>1, LastFolded
    <3> QED
      BY <1>1, <2>3, <3>2 DEF RowSays
  <2> QED
    BY <1>1, <1>4, <2>2, <2>4, DropsStep
<1> QED
  BY <1>1, <1>5, <1>6

(* A record that is fetched or routed is still to be dealt with.           *)
LEMMA FetchStep ==
  ASSUME EngineInv, CalmInv, orders \subseteq U!OrderKey,
         NEW i \in Instance, NEW p \in Partition, Fetch(i, p)
  PROVE  Rows!Next
<1>1. PICK r : r = <<p, pos[p] + 1>>
  OBVIOUS
<1>2. /\ disp[i] = "fetch" /\ disp'[i] = "send" /\ held'[i] = r
      /\ \A j \in Instance \ {i} : disp'[j] = disp[j] /\ held'[j] = held[j]
      /\ pos[p] \in Nat /\ pos'[p] = pos[p] + 1 /\ pos[p] < Len(log[p])
      /\ \A q \in Partition \ {p} : pos'[q] = pos[q]
      /\ r[1] = p /\ r[2] = pos[p] + 1
      /\ forgotten' = forgotten \ {r} /\ dlq' = dlq
      /\ UNCHANGED <<log, orders, chan, batch, stage>>
  BY <1>1 DEF Fetch, workers, handling, EngineInv, EngineTypes
<1>3. \A m : m \in Pending' <=> m \in Pending \/ m = r
  <2>1. \A v : PendingBy(v)' = PendingBy(v)
    BY <1>2 DEF PendingBy
  <2> QED
    BY <1>2, <2>1, PendingFacts
<1>4. r \in AllRefs
  <2>1. Len(log[p]) \in Nat /\ \A o \in 1 .. Len(log[p]) : <<p, o>> \in AllRefs
    BY RefFacts DEF EngineInv, EngineTypes
  <2>2. pos[p] + 1 \in 1 .. Len(log[p])
    BY <1>2, <2>1
  <2> QED
    BY <1>1, <2>1, <2>2
<1>5. Lost' = Lost
  BY <1>2 DEF Lost, CalmInv
<1>6. \A m \in AllRefs : m[2] > pos[m[1]] <=> m = r \/ m[2] > pos'[m[1]]
  BY <1>1, <1>2, PlaceFacts
<1>7. Unacknowledged' = Unacknowledged
  BY <1>2, <1>3, <1>4, <1>6, LogKept DEF Unacknowledged
<1> QED
  BY <1>2, <1>5, <1>7, NothingHappens

LEMMA SendStep ==
  ASSUME EngineInv, OrderInv, orders \subseteq U!OrderKey, NEW i \in Instance, Send(i)
  PROVE  Rows!Next
<1>1. \A m : m \in Pending' <=> m \in Pending
  BY SentIsPending
<1>2. Unacknowledged' = Unacknowledged
  BY <1>1, LogKept DEF Unacknowledged, Send, kafka
<1> QED
  BY <1>2, NothingHappens DEF Lost, Send, kafka, handling, history

(* The rest leaves the records where they are.                             *)
LEMMA QuietStep ==
  ASSUME EngineInv, OrderInv, CalmInv, orders \subseteq U!OrderKey,
         UNCHANGED <<log, orders, dlq, forgotten, disp, held, pos>>,
         \A v \in Worker : PendingBy(v)' = PendingBy(v)
  PROVE  Rows!Next
BY UnackKept, NothingHappens DEF Lost

LEMMA StepImplementsRows ==
  ASSUME Calm, ClientsKeepPartition, EngineInv, OrderInv, U!TypeOK, U!TypeOK', UP!HandlerInv,
         \A w \in Worker : HandsOver(w), RowsInv, CalmInv, [Next]_vars
  PROVE  [Rows!Next]_(Rows!vars)
<1> USE DEF handling, kafka, dispatcher, workers, history
<1>1. orders \subseteq U!OrderKey
  BY DEF U!TypeOK, U!StoresTypeOK, U!OrderKey
<1>2. ASSUME NEW w \in Worker, WorkerStep(w) PROVE Rows!Next
  <2>1. CASE Receive(w) \/ Flush(w)
    BY <1>1, <2>1, TakesStep
  <2>2. CASE Exit(w)
    BY <2>2, WorkerFacts DEF Exit, CalmInv
  <2>3. CASE HandleOk(w) \/ HandleFail(w)
    BY <2>3, HandleStep
  <2>4. CASE Result(w)
    BY <1>1, <2>4, ResultStep
  <2>5. CASE DlqOk(w) \/ DlqFail(w)
    BY <1>1, <2>5, DlqStep
  <2>6. CASE CommitOk(w) \/ CommitFail(w)
    <3>1. /\ UNCHANGED <<log, orders, dlq, forgotten, disp, held, pos, chan>>
          /\ stage[w] = "commit" /\ stage'[w] = "select" /\ batch'[w] = <<>>
          /\ \A v \in Worker \ {w} : stage'[v] = stage[v] /\ batch'[v] = batch[v]
      BY <2>6 DEF CommitOk, CommitFail, EndFlush, EngineInv, EngineTypes
    <3>2. \A v \in Worker : PendingBy(v)' = PendingBy(v)
      BY <3>1, NothingInEmpty DEF PendingBy
    <3> QED
      BY <1>1, <3>1, <3>2, QuietStep
  <2> QED
    BY <1>2, <2>1, <2>2, <2>3, <2>4, <2>5, <2>6 DEF WorkerStep, FlushStep
<1>3. ASSUME UNCHANGED <<log, orders, dlq, forgotten, disp, held, pos, chan, batch, stage>>
      PROVE  Rows!Next
  BY <1>1, <1>3, QuietStep DEF PendingBy
<1>4. ASSUME NEW w \in Worker, Deadline(w) PROVE Rows!Next
  BY <1>3, <1>4 DEF Deadline, U!Expire
<1>5. ASSUME NEW i \in Instance, Dispatcher(i) PROVE Rows!Next
  BY <1>1, <1>5, FetchStep, SendStep DEF Dispatcher, CloseChans, CalmInv
<1>6. ASSUME NEW p \in Partition, NEW i \in Instance, Assign(p, i) PROVE Rows!Next
  <2>1. pos' = pos
    BY <1>6 DEF Assign, CalmInv, EngineInv, EngineTypes
  <2> QED
    BY <1>3, <1>6, <2>1 DEF Assign
<1>7. ASSUME NEW i \in Instance, Cancel(i) \/ Leave(i) \/ Crash(i) \/ Restart(i) PROVE Rows!Next
  BY <1>7 DEF Cancel, Leave, Crash, Restart, Fault, Calm, CalmInv
<1>8. ASSUME NEW p \in Partition, Revoke(p) PROVE Rows!Next
  BY <1>8 DEF Revoke, Fault, Calm
<1>9. CASE UNCHANGED vars
  BY <1>3, <1>9 DEF vars
<1> QED
  BY <1>2, <1>4, <1>5, <1>6, <1>7, <1>8, <1>9 DEF Next

LEMMA InitImplementsRows ==
  ASSUME ClientsKeepPartition, Init
  PROVE  Rows!Init
<1>1. log \in Logs /\ orders = {} /\ dlq = {} /\ forgotten = {}
  BY DEF Init, U!Init, U!StoresInit
<1>2. Unacknowledged \subseteq AllRefs
  <2>1. Pending \subseteq AllRefs
    BY InitEngineInv, PendingRefs
  <2> QED
    BY <2>1 DEF Unacknowledged
<1>3. ASSUME NEW k PROVE Todo(k) \subseteq Rows!Action
  <2> SUFFICES ASSUME NEW m \in Unacknowledged, IsOpOn(m, k) PROVE Entry(m) \in Rows!Action
    BY DEF Todo, Entry
  <2>1. m[2] \in Nat /\ RecordAt(m) \in Record
    BY <1>1, <1>2, RefFacts
  <2> QED
    BY <2>1 DEF Entry, Rows!Action, Record, IsOpOn
<1>4. ASSUME NEW k, NEW a \in Todo(k), NEW b \in Todo(k), a.at = b.at PROVE a = b
  <2>1. PICK m \in AllRefs : IsOpOn(m, k) /\ a = Entry(m)
    BY <1>2 DEF Todo, Entry
  <2>2. PICK n \in AllRefs : IsOpOn(n, k) /\ b = Entry(n)
    BY <1>2 DEF Todo, Entry
  <2>3. m[1] = n[1] /\ m[2] = n[2]
    BY <1>1, <1>4, <2>1, <2>2, OpsTogether DEF Entry
  <2>4. m = n
    BY <1>1, <2>3, RefFacts
  <2> QED
    BY <2>1, <2>2, <2>4
<1>5. Spoiled = {}
  BY <1>1 DEF Spoiled
<1> QED
  BY <1>1, <1>3, <1>4, <1>5 DEF Rows!Init

(* The rows at every moment, whatever fails and is retried or put aside    *)
(* meanwhile: as long as no process dies and no partition moves, the row   *)
(* of a key only ever takes the value of an action that is not yet         *)
(* acknowledged, actions are acknowledged in the order of the log, and     *)
(* then the row is as the last of them says.                               *)
THEOREM GroupImplementsOrderRows ==
  ASSUME Calm, ClientsKeepPartition
  PROVE  Spec => ImplementsOrderRows
<1>1. NoRebalance
  BY DEF Calm, NoRebalance
<1>2. Spec => [](/\ ConsumerInv /\ OrderInv /\ (\A w \in Worker : HandsOver(w))
                 /\ UP!HandlerInv /\ RowsInv)
  <2>1. Spec => []DeliveryInv
    BY <1>1, DeliverySafe
  <2>2. DeliveryInv => RowsInv
    BY DEF DeliveryInv
  <2>3. Spec => [](/\ ConsumerInv /\ OrderInv
                   /\ \A w \in Worker : HandsOver(w)
                   /\ UP!Apart /\ UP!HandlerInv)
    BY <1>1, GroupSafe
  <2> QED
    BY <2>1, <2>2, <2>3, PTL
<1>3. ConsumerInv /\ OrderInv /\ CalmInv /\ [Next]_vars => CalmInv'
  BY CalmStep, InvParts
<1>4. /\ ConsumerInv /\ OrderInv /\ (\A w \in Worker : HandsOver(w)) /\ UP!HandlerInv
      /\ RowsInv /\ CalmInv /\ ConsumerInv' /\ [Next]_vars
      => [Rows!Next]_(Rows!vars)
  BY StepImplementsRows, InvParts
<1>5. Init => Rows!Init /\ CalmInv
  BY InitImplementsRows, InitCalm
<1> QED
  BY <1>2, <1>3, <1>4, <1>5, PTL DEF Spec, ImplementsOrderRows, Rows!Spec

=============================================================================
