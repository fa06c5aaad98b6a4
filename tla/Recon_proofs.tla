---------------------------- MODULE Recon_proofs ----------------------------
(***************************************************************************)
(* Proofs about the reconciler, for any set of processes, any clients, any *)
(* page size, any TTL longer than the interval of the renewals and any     *)
(* number of mishaps.                                                      *)
(***************************************************************************)
EXTENDS Recon, Offsets

reconAll == <<orders, active, reconVars>>

-----------------------------------------------------------------------------
(* Pages: the BSize smallest of a set of numbers.                          *)

Below(cs, c) == {d \in cs : d < c}

(* How many elements lie below one of them tells their order.              *)
LEMMA BelowCounts ==
  ASSUME NEW cs, \A x \in cs : x \in Nat, NEW c \in cs
  PROVE  /\ Cardinality(Below(cs, c)) \in Nat
         /\ \A d \in cs : c < d => Cardinality(Below(cs, c)) < Cardinality(Below(cs, d))
<1>1. ASSUME NEW d \in cs PROVE IsFiniteSet(Below(cs, d)) /\ Cardinality(Below(cs, d)) \in Nat
  <2>1. Below(cs, d) \in SUBSET (0 .. d)
    <3>1. \A x \in Below(cs, d) : x \in 0 .. d
      BY DEF Below
    <3> QED
      BY <3>1
  <2>2. IsFiniteSet(0 .. d)
    BY FS_Interval
  <2>3. IsFiniteSet(Below(cs, d))
    BY <2>1, <2>2, FS_Subset
  <2> QED
    BY <2>3, FS_CardinalityType
<1>2. ASSUME NEW d \in cs, c < d
      PROVE  Cardinality(Below(cs, c)) < Cardinality(Below(cs, d))
  <2>1. c \notin Below(cs, c) /\ Below(cs, c) \cup {c} \in SUBSET Below(cs, d)
    <3>1. \A x \in Below(cs, c) : x \in cs /\ x < c /\ x \in Nat
      BY DEF Below
    <3>2. \A x \in Below(cs, c) : x \in Below(cs, d)
      BY <1>2, <3>1 DEF Below
    <3>3. c \in Below(cs, d) /\ c \notin Below(cs, c)
      BY <1>2 DEF Below
    <3> QED
      BY <3>2, <3>3
  <2>2. Cardinality(Below(cs, c) \cup {c}) = Cardinality(Below(cs, c)) + 1
    BY <1>1, <2>1, FS_AddElement
  <2>3. Cardinality(Below(cs, c) \cup {c}) <= Cardinality(Below(cs, d))
    BY <1>1, <2>1, FS_Subset
  <2> QED
    BY <1>1, <2>2, <2>3
<1> QED
  BY <1>1, <1>2

(* A page is empty only when nothing is left; otherwise it has a greatest  *)
(* element and holds everything up to it.                                  *)
LEMMA SmallestFacts ==
  ASSUME NEW cs, \A x \in cs : x \in Nat, cs # {}, BSize \in Nat \ {0}
  PROVE  /\ Smallest(cs) # {}
         /\ Max(Smallest(cs)) \in Smallest(cs)
         /\ \A c \in cs : c <= Max(Smallest(cs)) => c \in Smallest(cs)
<1> DEFINE S == Smallest(cs)
           Room(c) == BSize - Cardinality(Below(cs, c))
<1>1. \A c : c \in S <=> c \in cs /\ Cardinality(Below(cs, c)) < BSize
  BY DEF Smallest, Below
<1>2. S # {}
  <2>1. PICK m \in cs : \A n \in cs : m <= n
    BY LeastNatural
  <2>2. Below(cs, m) = {}
    <3>1. \A x \in cs : ~ (x < m)
      BY <2>1
    <3> QED
      BY <3>1 DEF Below
  <2> QED
    BY <1>1, <2>2, FS_EmptySet
<1>3. PICK m \in S : \A n \in S : Room(m) <= Room(n)
  <2>1. \A v \in {Room(c) : c \in S} : v \in Nat
    <3>1. \A c \in S : Cardinality(Below(cs, c)) \in Nat /\ Cardinality(Below(cs, c)) < BSize
      BY <1>1, BelowCounts
    <3>2. \A c \in S : Room(c) \in Nat
      BY <3>1
    <3> QED
      BY <3>2
  <2>2. PICK v \in {Room(c) : c \in S} : \A n \in {Room(c) : c \in S} : v <= n
    <3>1. {Room(c) : c \in S} # {}
      BY <1>2
    <3> HIDE DEF S, Room
    <3> QED
      BY <2>1, <3>1, LeastNatural
  <2> QED
    BY <2>2
<1>4. ASSUME NEW n \in S PROVE n <= m
  <2> m \in Nat /\ n \in Nat
    BY <1>1
  <2>1. SUFFICES ASSUME m < n PROVE FALSE
    OBVIOUS
  <2>2. Cardinality(Below(cs, m)) < Cardinality(Below(cs, n))
    BY <1>1, <2>1, BelowCounts
  <2>3. Cardinality(Below(cs, m)) \in Nat /\ Cardinality(Below(cs, n)) \in Nat
    BY <1>1, BelowCounts
  <2> QED
    BY <1>3, <2>2, <2>3
<1>5. Max(S) = m
  <2>1. m \in S /\ \A n \in S : m >= n
    BY <1>1, <1>4
  <2>2. Max(S) \in S /\ \A n \in S : Max(S) >= n
    BY <2>1 DEF Max
  <2>3. m \in Nat /\ Max(S) \in Nat
    BY <1>1, <2>1, <2>2
  <2>4. m >= Max(S) /\ Max(S) >= m
    BY <2>1, <2>2
  <2> HIDE DEF S
  <2> QED
    BY <2>3, <2>4
<1>6. ASSUME NEW c \in cs, c <= m PROVE c \in S
  <2>1. CASE c = m
    BY <2>1
  <2>2. CASE c < m
    <3>1. Cardinality(Below(cs, c)) < Cardinality(Below(cs, m))
      BY <1>1, <2>2, BelowCounts
    <3>2. Cardinality(Below(cs, c)) \in Nat /\ Cardinality(Below(cs, m)) \in Nat
      BY <1>1, BelowCounts
    <3> QED
      BY <1>1, <3>1, <3>2
  <2>3. c \in Nat /\ m \in Nat
    BY <1>1
  <2> QED
    BY <1>6, <2>1, <2>2, <2>3
<1> QED
  BY <1>2, <1>5, <1>6

(* What is left to page through.                                           *)
LEMMA PageFacts ==
  ASSUME ReconAssumption, ReconTypeOK, NEW r \in Process
  PROVE  /\ Page(r) \in SUBSET Client
         /\ \A c \in Page(r) : HasOrders(c)
         /\ Page(r) # {} =>
              /\ Max(Page(r)) \in Client
              /\ \A c \in Client : HasOrders(c) /\ c > cursor[r] /\ c <= Max(Page(r)) => c \in Page(r)
         /\ Page(r) = {} => \A c \in Client : HasOrders(c) => c <= cursor[r]
<1> DEFINE cs == {c \in Client : HasOrders(c) /\ c > cursor[r]}
<1>1. (\A x \in cs : x \in Nat) /\ cs \subseteq Client /\ BSize \in Nat \ {0} /\ Page(r) = Smallest(cs)
  BY DEF ReconAssumption, Page
<1>2. Page(r) \subseteq cs
  BY DEF Page, Smallest
<1>3. cs # {} => /\ Page(r) # {}
                 /\ Max(Page(r)) \in Page(r)
                 /\ \A c \in cs : c <= Max(Page(r)) => c \in Page(r)
  <2> HIDE DEF cs
  <2> QED
    BY <1>1, SmallestFacts
<1>4. Client \cup {0} \subseteq Nat
  BY DEF ReconAssumption
<1>5. cursor[r] \in Client \cup {0}
  BY DEF ReconTypeOK
<1>6. cursor[r] \in Nat /\ \A c \in Client : c \in Nat
  BY <1>4, <1>5
<1>7. ASSUME NEW c \in Client PROVE c <= cursor[r] \/ c > cursor[r]
  <2>1. c \in Nat /\ cursor[r] \in Nat
    BY <1>6
  <2>2. \A m, n \in Nat : m <= n \/ m > n
    OBVIOUS
  <2> QED
    BY <2>1, <2>2
<1>8. Page(r) # {} => cs # {} /\ Max(Page(r)) \in Client
  BY <1>2, <1>3
<1>9. ASSUME Page(r) = {} PROVE \A c \in Client : HasOrders(c) => c <= cursor[r]
  <2>1. cs = {}
    BY <1>3, <1>9
  <2> QED
    BY <2>1, <1>7
<1>10. ASSUME Page(r) # {}, NEW c \in Client, HasOrders(c), c > cursor[r], c <= Max(Page(r))
       PROVE  c \in Page(r)
  BY <1>3, <1>8, <1>10
<1> QED
  BY <1>2, <1>8, <1>9, <1>10

-----------------------------------------------------------------------------
(* The parts of ReconTypeOK that speak of the lock, and the others.        *)
LockTypes ==
  /\ lock \in Process \cup {None}
  /\ age \in 0 .. LockTTL - 1
  /\ timer \in [Process -> 0 .. RenewIntvl]
  /\ missed \in [Process -> Nat]
  /\ mishaps \in 0 .. MaxMishaps

PassTypes ==
  /\ rstage \in [Process -> Working \cup {"idle", "unlock"}]
  /\ cursor \in [Process -> Client \cup {0}]
  /\ found \in [Process -> SUBSET Client]
  /\ final \in [Process -> BOOLEAN]
  /\ owed \in [Process -> SUBSET active]
  /\ clean \in [Process -> BOOLEAN]

LEMMA TypesSplit == ReconTypeOK <=> LockTypes /\ PassTypes
  BY DEF ReconTypeOK, LockTypes, PassTypes

LEMMA LockTypesStep ==
  ASSUME ReconAssumption, LockTypes, ReconNext
  PROVE  LockTypes'
<1> USE DEF ReconAssumption, LockTypes
<1>1. CASE Minute
  <2>1. UNCHANGED <<missed, mishaps>> /\ lock' \in Process \cup {None}
    BY <1>1 DEF Minute, lockVars
  <2>2. age' \in 0 .. LockTTL - 1
    BY <1>1 DEF Minute, lockVars
  <2>3. timer' \in [Process -> 0 .. RenewIntvl]
    BY <1>1 DEF Minute
  <2> QED
    BY <2>1, <2>2, <2>3
<1>2. ASSUME NEW r \in Process, ReconStep(r) PROVE LockTypes'
  <2> USE DEF lockVars, watchVars, Mishap
  <2>1. CASE Start(r)
    BY <2>1 DEF Start
  <2>2. CASE StartFail(r)
    BY <2>2 DEF StartFail
  <2>3. CASE Renew(r)
    BY <2>3 DEF Renew
  <2>4. CASE RenewFail(r)
    BY <2>4 DEF RenewFail
  <2>5. CASE Unlock(r)
    BY <2>5 DEF Unlock
  <2>6. CASE Die(r) \/ Abort(r)
    BY <2>6 DEF Die, Abort
  <2>7. CASE StageOne(r)
    BY <2>7 DEF StageOne, PageOk, PagesDone, AddOk, AddFail
  <2>8. CASE StageTwo(r)
    BY <2>8 DEF StageTwo, ScanOk, CheckOk, RemoveOk, RemoveFail
  <2> QED
    BY <1>2, <2>1, <2>2, <2>3, <2>4, <2>5, <2>6, <2>7, <2>8 DEF ReconStep, Lifecycle
<1> QED
  BY <1>1, <1>2 DEF ReconNext

LEMMA PassTypesStep ==
  ASSUME ReconAssumption, active \subseteq Client, ReconTypeOK, ReconNext
  PROVE  active' \subseteq Client /\ PassTypes'
<1> PassTypes
  BY TypesSplit
<1> USE DEF PassTypes
<1>1. CASE Minute
  BY <1>1 DEF Minute, passVars
<1>2. ASSUME NEW r \in Process, ReconStep(r) PROVE active' \subseteq Client /\ PassTypes'
  <2> USE DEF Enter, passVars, Working
  <2>1. CASE Start(r)
    BY <2>1 DEF Start
  <2>2. CASE StartFail(r) \/ Renew(r) \/ RenewFail(r)
    BY <2>2 DEF StartFail, Renew, RenewFail
  <2>3. CASE Unlock(r) \/ Die(r)
    BY <2>3 DEF Unlock, Die
  <2>4. CASE Abort(r)
    BY <2>4 DEF Abort
  <2>5. CASE PageOk(r)
    <3>1. Page(r) \in SUBSET Client /\ Max(Page(r)) \in Client
      BY <2>5, PageFacts DEF PageOk
    <3> QED
      BY <2>5, <3>1 DEF PageOk
  <2>6. CASE PagesDone(r)
    BY <2>6 DEF PagesDone
  <2>7. CASE AddOk(r)
    BY <2>7 DEF AddOk, PipeExec
  <2>8. CASE AddFail(r)
    BY <2>8 DEF AddFail, PipeExec
  <2>9. CASE ScanOk(r)
    <3>1. PICK keys \in SUBSET active, fin \in BOOLEAN :
            /\ found' = [found EXCEPT ![r] = keys]
            /\ final' = [final EXCEPT ![r] = fin]
            /\ owed' = [owed EXCEPT ![r] = @ \ keys]
            /\ IF keys = {} THEN NextScan(r, fin) ELSE Enter(r, "check")
      BY <2>9 DEF ScanOk
    <3>2. UNCHANGED <<active, cursor, clean>>
      BY <2>9 DEF ScanOk
    <3>3. rstage' \in [Process -> Working \cup {"idle", "unlock"}]
      BY <3>1 DEF NextScan
    <3> QED
      BY <3>1, <3>2, <3>3
  <2>10. CASE CheckOk(r)
    <3>1. rstage' \in [Process -> Working \cup {"idle", "unlock"}]
      BY <2>10 DEF CheckOk, NextScan
    <3> QED
      BY <2>10, <3>1 DEF CheckOk, GetActiveClients
  <2>11. CASE RemoveOk(r)
    BY <2>11 DEF RemoveOk, NextScan, PipeExec, OwedKeeps
  <2>12. CASE RemoveFail(r)
    BY <2>12 DEF RemoveFail, NextScan, PipeExec, OwedKeeps
  <2> QED
    BY <1>2, <2>1, <2>2, <2>3, <2>4, <2>5, <2>6, <2>7, <2>8, <2>9, <2>10, <2>11, <2>12
       DEF ReconStep, StageOne, StageTwo, Lifecycle
<1> QED
  BY <1>1, <1>2 DEF ReconNext

LEMMA ReconTypeStep ==
  ASSUME ReconAssumption, active \subseteq Client, ReconTypeOK, ReconNext
  PROVE  active' \subseteq Client /\ ReconTypeOK'
<1>1. LockTypes'
  BY LockTypesStep, TypesSplit
<1>2. ReconTypeOK' <=> LockTypes' /\ PassTypes'
  BY DEF ReconTypeOK, LockTypes, PassTypes
<1> QED
  BY <1>1, <1>2, PassTypesStep

-----------------------------------------------------------------------------
(* The lock.                                                               *)

(* One renewal more is one interval more.                                  *)
LEMMA OneMore ==
  ASSUME NEW m \in Nat, NEW k \in Nat
  PROVE  m * k \in Nat /\ (m + 1) * k = m * k + k /\ 0 * k = 0
  OBVIOUS

LEMMA LockStep ==
  ASSUME ReconAssumption, ReconTypeOK, ReconNext, NEW p \in Process, LockInv(p)
  PROVE  LockInv(p)'
<1> DEFINE long == missed[p] * RenewIntvl
           long1 == (missed[p] + 1) * RenewIntvl
<1>1. /\ missed[p] \in Nat /\ RenewIntvl \in Nat \ {0} /\ LockTTL \in Nat
      /\ age \in Nat /\ timer[p] \in Nat /\ timer[p] <= RenewIntvl
      /\ long \in Nat /\ long1 = long + RenewIntvl
  <2>1. /\ missed[p] \in Nat /\ RenewIntvl \in Nat \ {0} /\ LockTTL \in Nat
        /\ age \in Nat /\ timer[p] \in Nat /\ timer[p] <= RenewIntvl
    BY TypesSplit DEF LockTypes, ReconAssumption
  <2> QED
    BY <2>1, OneMore
<1>2. LockInv(p) <=> (rstage[p] \in Working =>
         (lock = p /\ age <= long + timer[p]) \/ long1 >= LockTTL)
  BY DEF LockInv
<1>3. CASE Minute
  <2>1. rstage' = rstage /\ missed' = missed
    BY <1>3 DEF Minute
  <2>2. ASSUME rstage[p] \in Working, lock = p, age <= long + timer[p]
        PROVE  (lock' = p /\ age' <= long + timer'[p]) \/ long1 >= LockTTL
    <3>1. timer[p] < RenewIntvl /\ timer'[p] = timer[p] + 1
      BY <1>3, <2>2 DEF Minute, ReconTypeOK
    <3>2. lock # None
      BY <2>2 DEF ReconAssumption
    <3>3. CASE age' = age + 1 /\ lock' = lock
      BY <1>1, <2>2, <3>1, <3>3
    <3>4. CASE age + 1 = LockTTL
      BY <1>1, <2>2, <3>1, <3>4
    <3> QED
      BY <1>3, <3>2, <3>3, <3>4 DEF Minute
  <2> QED
    BY <1>2, <2>1, <2>2 DEF LockInv
<1>4. ASSUME NEW r \in Process, ReconStep(r) PROVE LockInv(p)'
  <2> USE DEF ReconTypeOK, Enter, lockVars, watchVars
  <2>1. CASE Start(r)
    <3>1. r = p => lock' = p /\ age' = 0 /\ timer'[p] = 0 /\ missed'[p] = 0
      BY <2>1 DEF Start
    <3>2. r # p => /\ lock # p
                   /\ rstage'[p] = rstage[p] /\ missed'[p] = missed[p]
      BY <2>1 DEF Start, ReconAssumption
    <3>3. CASE r = p
      BY <1>1, <3>1, <3>3, OneMore DEF LockInv
    <3>4. CASE r # p
      BY <3>2, <3>4 DEF LockInv
    <3> QED
      BY <3>3, <3>4
  <2>2. CASE StartFail(r)
    BY <2>2 DEF StartFail, LockInv, ReconAssumption
  <2>3. CASE Renew(r)
    <3>1. CASE r = p /\ lock = p
      <4>1. lock' = p /\ age' = 0 /\ timer'[p] = 0 /\ missed'[p] = 0
        BY <2>3, <3>1 DEF Renew
      <4> QED
        BY <1>1, <4>1, OneMore DEF LockInv
    <3>2. CASE r = p /\ lock # p
      BY <2>3, <3>2 DEF Renew, LockInv
    <3>3. CASE r # p /\ lock = p
      BY <2>3, <3>3 DEF Renew, LockInv
    <3>4. CASE r # p /\ lock # p
      BY <2>3, <3>4 DEF Renew, LockInv
    <3> QED
      BY <3>1, <3>2, <3>3, <3>4
  <2>4. CASE RenewFail(r)
    <3>1. CASE r = p
      <4>1. /\ timer[p] = RenewIntvl /\ timer'[p] = 0 /\ missed'[p] = missed[p] + 1
            /\ lock' = lock /\ age' = age /\ rstage' = rstage
        BY <2>4, <3>1 DEF RenewFail
      <4>2. missed'[p] * RenewIntvl = long1
        BY <4>1
      <4>3. (missed'[p] + 1) * RenewIntvl = long1 + RenewIntvl
        BY <1>1, <4>1, OneMore
      <4> HIDE DEF long, long1
      <4>4. (lock = p /\ age <= long + timer[p]) => age' <= long1 + timer'[p]
        BY <1>1, <4>1
      <4>5. long1 >= LockTTL => long1 + RenewIntvl >= LockTTL
        BY <1>1
      <4> QED
        BY <1>2, <4>1, <4>2, <4>3, <4>4, <4>5 DEF LockInv
    <3>2. CASE r # p
      BY <2>4, <3>2 DEF RenewFail, LockInv
    <3> QED
      BY <3>1, <3>2
  <2>5. CASE Unlock(r)
    <3>1. CASE r = p
      BY <2>5, <3>1 DEF Unlock, LockInv, Working
    <3>2. CASE r # p
      BY <2>5, <3>2 DEF Unlock, LockInv
    <3> QED
      BY <3>1, <3>2
  <2>6. CASE Die(r) \/ Abort(r) \/ StageOne(r) \/ StageTwo(r)
    <3>1. UNCHANGED <<lock, age, timer, missed>>
      BY <2>6 DEF Die, Abort, StageOne, PageOk, PagesDone, AddOk, AddFail,
         StageTwo, ScanOk, CheckOk, RemoveOk, RemoveFail
    <3>2. rstage'[p] \in Working => rstage[p] \in Working
      BY <2>6 DEF Die, Abort, StageOne, PageOk, PagesDone, AddOk, AddFail,
         StageTwo, ScanOk, CheckOk, RemoveOk, RemoveFail, NextScan, Working
    <3> QED
      BY <3>1, <3>2 DEF LockInv
  <2> QED
    BY <1>4, <2>1, <2>2, <2>3, <2>4, <2>5, <2>6 DEF ReconStep, Lifecycle
<1> QED
  BY <1>3, <1>4 DEF ReconNext

-----------------------------------------------------------------------------
(* One client and one reconciler.  These lemmas do not need the rows to be *)
(* left alone by others: see System_proofs.                                *)

LEMMA FoundOwnStep ==
  ASSUME ReconTypeOK, ReconAssumption, NEW r \in Process, NEW c \in Client, ReconStep(r),
         FoundInv(r, c)
  PROVE  FoundInv(r, c)'
<1> USE DEF FoundInv, Enter
<1>0. HasOrders(c)' <=> HasOrders(c)
  BY DEF HasOrders, ReconStep, StageOne, StageTwo, Lifecycle, PageOk, PagesDone, AddOk, AddFail,
     ScanOk, CheckOk, RemoveOk, RemoveFail, Start, StartFail, Renew, RenewFail, Unlock, Die, Abort
<1>1. rstage[r] \in Working \cup {"idle", "unlock"} /\ rstage \in [Process -> Working \cup {"idle", "unlock"}]
  BY DEF ReconTypeOK
<1>2. found \in [Process -> SUBSET Client]
  BY DEF ReconTypeOK
<1>3. CASE Start(r) \/ Unlock(r) \/ Die(r) \/ Abort(r)
  BY <1>1, <1>3 DEF Start, Unlock, Die, Abort
<1>4. CASE StartFail(r) \/ Renew(r) \/ RenewFail(r)
  BY <1>0, <1>4 DEF StartFail, Renew, RenewFail, passVars
<1>5. CASE PageOk(r)
  <2>1. \A d \in Page(r) : HasOrders(d)
    BY PageFacts
  <2>2. rstage'[r] = "add" /\ found'[r] = Page(r)
    BY <1>1, <1>2, <1>5 DEF PageOk
  <2> QED
    BY <1>0, <2>1, <2>2
<1>6. CASE PagesDone(r) \/ AddOk(r) \/ AddFail(r)
  BY <1>1, <1>6 DEF PagesDone, AddOk, AddFail
<1>7. CASE ScanOk(r)
  BY <1>1, <1>7 DEF ScanOk, NextScan
<1>8. CASE CheckOk(r)
  BY <1>0, <1>1, <1>2, <1>8 DEF CheckOk, NextScan, GetActiveClients
<1>9. CASE RemoveOk(r) \/ RemoveFail(r)
  BY <1>1, <1>2, <1>9 DEF RemoveOk, RemoveFail, NextScan
<1> QED
  BY <1>3, <1>4, <1>5, <1>6, <1>7, <1>8, <1>9 DEF ReconStep, StageOne, StageTwo, Lifecycle

(* A step of the pass itself.                                              *)
LEMMA SweptOwnStep ==
  ASSUME ReconTypeOK, ReconAssumption, NEW r \in Process, NEW c \in Client, ReconStep(r),
         FoundInv(r, c), clean'[r], clean[r] => SweptInv(r, c)
  PROVE  SweptInv(r, c)'
<1> USE DEF Enter
<1>0. HasOrders(c)' <=> HasOrders(c)
  BY DEF HasOrders, ReconStep, StageOne, StageTwo, Lifecycle, PageOk, PagesDone, AddOk, AddFail,
     ScanOk, CheckOk, RemoveOk, RemoveFail, Start, StartFail, Renew, RenewFail, Unlock, Die, Abort
<1>1. /\ rstage \in [Process -> Working \cup {"idle", "unlock"}]
      /\ found \in [Process -> SUBSET Client]
      /\ final \in [Process -> BOOLEAN]
      /\ owed \in [Process -> SUBSET active]
      /\ clean \in [Process -> BOOLEAN]
      /\ cursor \in [Process -> Client \cup {0}]
  BY DEF ReconTypeOK
<1>2. CASE Start(r)
  <2>1. rstage'[r] = "page" /\ cursor'[r] = 0
    BY <1>1, <1>2 DEF Start
  <2>2. ~ (c <= 0)
    BY DEF ReconAssumption
  <2> QED
    BY <2>1, <2>2 DEF SweptInv
<1>3. CASE StartFail(r) \/ Renew(r) \/ RenewFail(r)
  BY <1>0, <1>3 DEF StartFail, Renew, RenewFail, passVars, SweptInv
<1>4. CASE Unlock(r) \/ Die(r) \/ Abort(r) \/ AddFail(r) \/ RemoveFail(r)
  BY <1>1, <1>4 DEF Unlock, Die, Abort, AddFail, RemoveFail
<1>5. CASE PageOk(r)
  <2>1. /\ rstage[r] = "page" /\ rstage'[r] = "add"
        /\ found'[r] = Page(r) /\ cursor'[r] = Max(Page(r)) /\ Page(r) # {} /\ active' = active
    BY <1>1, <1>5 DEF PageOk
  <2>2. HasOrders(c) /\ c > cursor[r] /\ c <= Max(Page(r)) => c \in Page(r)
    BY <2>1, PageFacts
  <2>3. c <= cursor[r] \/ c > cursor[r]
    <3>1. Client \cup {0} \subseteq Nat /\ cursor[r] \in Client \cup {0}
      BY <1>1 DEF ReconAssumption
    <3>2. c \in Nat /\ cursor[r] \in Nat
      BY <3>1
    <3>3. \A m, n \in Nat : m <= n \/ m > n
      OBVIOUS
    <3> QED
      BY <3>2, <3>3
  <2>4. SweptInv(r, c)
    BY <1>5, clean'[r] DEF PageOk
  <2> QED
    BY <1>0, <2>1, <2>2, <2>3, <2>4 DEF SweptInv
<1>6. CASE PagesDone(r)
  <2>1. /\ rstage[r] = "page" /\ rstage'[r] = "scan" /\ owed'[r] = active /\ active' = active
        /\ Page(r) = {}
    BY <1>1, <1>6 DEF PagesDone
  <2>2. HasOrders(c) => c <= cursor[r]
    BY <2>1, PageFacts
  <2>3. SweptInv(r, c)
    BY <1>6, clean'[r] DEF PagesDone
  <2> QED
    BY <1>0, <2>1, <2>2, <2>3 DEF SweptInv
<1>7. CASE AddOk(r)
  <2>1. /\ rstage[r] = "add" /\ rstage'[r] = "page" /\ cursor'[r] = cursor[r]
        /\ active' = active \cup found[r]
    BY <1>1, <1>7 DEF AddOk, PipeExec, passVars
  <2>2. SweptInv(r, c)
    BY <1>7, clean'[r] DEF AddOk, passVars
  <2> QED
    BY <1>0, <2>1, <2>2 DEF SweptInv
<1>8. CASE ScanOk(r)
  <2>1. PICK keys \in SUBSET active, fin \in BOOLEAN :
          /\ fin => owed[r] \subseteq keys
          /\ found' = [found EXCEPT ![r] = keys]
          /\ final' = [final EXCEPT ![r] = fin]
          /\ owed' = [owed EXCEPT ![r] = @ \ keys]
          /\ IF keys = {} THEN NextScan(r, fin) ELSE Enter(r, "check")
    BY <1>8 DEF ScanOk
  <2>2. rstage[r] = "scan" /\ active' = active /\ SweptInv(r, c)
    BY <1>8, clean'[r] DEF ScanOk
  <2>3. found'[r] = keys /\ final'[r] = fin /\ owed'[r] = owed[r] \ keys
    BY <1>1, <2>1
  <2>4. rstage'[r] = IF keys # {} THEN "check" ELSE IF fin THEN "unlock" ELSE "scan"
    BY <1>1, <2>1 DEF NextScan
  <2>5. (HasOrders(c) => c \in active) /\ (c \in active /\ ~HasOrders(c) => c \in owed[r])
    BY <2>2 DEF SweptInv
  <2> QED
    BY <1>0, <2>1, <2>2, <2>3, <2>4, <2>5 DEF SweptInv
<1>9. CASE CheckOk(r)
  <2>1. /\ rstage[r] = "check" /\ active' = active /\ SweptInv(r, c)
        /\ final' = final /\ owed' = owed
    BY <1>9, clean'[r] DEF CheckOk
  <2>2. /\ found'[r] = {d \in found[r] : ~HasOrders(d)}
        /\ rstage'[r] = IF found'[r] # {} THEN "remove" ELSE IF final[r] THEN "unlock" ELSE "scan"
    BY <1>1, <1>9 DEF CheckOk, NextScan, GetActiveClients
  <2>3. /\ HasOrders(c) => c \in active
        /\ c \in active /\ ~HasOrders(c) => c \in found[r] \/ (~final[r] /\ c \in owed[r])
    BY <2>1 DEF SweptInv
  <2> QED
    BY <1>0, <2>1, <2>2, <2>3 DEF SweptInv
<1>10. CASE RemoveOk(r)
  <2>1. /\ rstage[r] = "remove" /\ active' = active \ found[r] /\ SweptInv(r, c)
        /\ owed'[r] = owed[r] \cap active' /\ final' = final
    BY <1>1, <1>10, clean'[r] DEF RemoveOk, PipeExec, OwedKeeps
  <2>2. rstage'[r] = IF final[r] THEN "unlock" ELSE "scan"
    BY <1>1, <1>10 DEF RemoveOk, NextScan
  <2>3. /\ HasOrders(c) => c \in active
        /\ c \in active /\ ~HasOrders(c) => c \in found[r] \/ (~final[r] /\ c \in owed[r])
        /\ c \in found[r] => ~HasOrders(c)
    BY <2>1 DEF SweptInv, FoundInv
  <2> QED
    BY <1>0, <2>1, <2>2, <2>3 DEF SweptInv
<1> QED
  BY <1>2, <1>3, <1>4, <1>5, <1>6, <1>7, <1>8, <1>9, <1>10
     DEF ReconStep, StageOne, StageTwo, Lifecycle

(* A step of somebody else, who leaves the membership of c alone or right. *)
LEMMA SweptOtherStep ==
  ASSUME NEW r \in Process, NEW c \in Client, SweptInv(r, c),
         HasOrders(c)' <=> HasOrders(c),
         (c \in active' <=> c \in active) \/ (c \in active' <=> HasOrders(c)),
         rstage'[r] = rstage[r], cursor'[r] = cursor[r], found'[r] = found[r],
         final'[r] = final[r], c \in owed[r] /\ c \in active' => c \in owed'[r]
  PROVE  SweptInv(r, c)'
  BY DEF SweptInv

-----------------------------------------------------------------------------
(* The reconciler on its own.                                              *)

(* What a step of reconciler q leaves alone of another one.                *)
LEMMA OthersLeft ==
  ASSUME ReconTypeOK, NEW q \in Process, NEW r \in Process, q # r, ReconStep(q)
  PROVE  /\ rstage'[r] = rstage[r] /\ cursor'[r] = cursor[r] /\ found'[r] = found[r]
         /\ final'[r] = final[r] /\ clean'[r] = clean[r]
         /\ owed[r] \cap active' \subseteq owed'[r]
<1> USE DEF ReconTypeOK, Enter, passVars, watchVars
<1>1. CASE StageOne(q)
  BY <1>1 DEF StageOne, PageOk, PagesDone, AddOk, AddFail
<1>2. CASE StageTwo(q)
  BY <1>2 DEF StageTwo, ScanOk, CheckOk, RemoveOk, RemoveFail, NextScan, OwedKeeps
<1>3. CASE Lifecycle(q)
  BY <1>3 DEF Lifecycle, Start, StartFail, Renew, RenewFail, Unlock, Die, Abort
<1> QED
  BY <1>1, <1>2, <1>3 DEF ReconStep

(* A reconciler changes the membership of a client to what is right.       *)
LEMMA ChangesAreRight ==
  ASSUME ReconInv, NEW q \in Process, NEW c \in Client, ReconStep(q)
  PROVE  (c \in active' <=> c \in active) \/ (c \in active' <=> HasOrders(c))
<1>1. FoundInv(q, c)
  BY DEF ReconInv
<1>2. CASE AddOk(q) \/ AddFail(q)
  BY <1>1, <1>2 DEF AddOk, AddFail, PipeExec, FoundInv
<1>3. CASE RemoveOk(q) \/ RemoveFail(q)
  BY <1>1, <1>3 DEF RemoveOk, RemoveFail, PipeExec, FoundInv
<1>4. CASE UNCHANGED active
  BY <1>4
<1> QED
  BY <1>2, <1>3, <1>4 DEF ReconStep, StageOne, StageTwo, Lifecycle, PageOk, PagesDone,
     ScanOk, CheckOk, Start, StartFail, Renew, RenewFail, Unlock, Die, Abort

LEMMA ReconInvInit == AloneInit => ReconInv
<1> SUFFICES ASSUME AloneInit PROVE ReconInv
  OBVIOUS
<1> USE ReconAssumption DEF AloneInit, ReconInit, ReconAssumption
<1>1. active \subseteq Client /\ ReconTypeOK
  BY DEF ReconTypeOK
<1>2. ASSUME NEW r \in Process PROVE rstage[r] = "idle" /\ clean[r] = FALSE
  OBVIOUS
<1> QED
  BY <1>1, <1>2 DEF ReconInv, LockInv, FoundInv, Working

LEMMA ReconInvStep == ReconInv /\ [ReconNext]_reconAll => ReconInv'
<1> SUFFICES ASSUME ReconInv, [ReconNext]_reconAll PROVE ReconInv'
  OBVIOUS
<1> USE ReconAssumption
<1>1. CASE UNCHANGED reconAll
  BY <1>1 DEF reconAll, reconVars, lockVars, passVars, watchVars, ReconInv, ReconTypeOK,
     LockInv, FoundInv, SweptInv, HasOrders
<1>2. CASE ReconNext
  <2>1. active' \subseteq Client /\ ReconTypeOK'
    BY <1>2, ReconTypeStep DEF ReconInv
  <2>2. ASSUME NEW r \in Process PROVE LockInv(r)'
    BY <1>2, LockStep DEF ReconInv
  <2>3. ASSUME NEW r \in Process, NEW c \in Client
        PROVE  FoundInv(r, c)' /\ (clean'[r] => SweptInv(r, c)')
    <3>1. FoundInv(r, c) /\ (clean[r] => SweptInv(r, c)) /\ ReconTypeOK
      BY DEF ReconInv
    <3>2. CASE Minute
      BY <3>1, <3>2 DEF Minute, passVars, FoundInv, SweptInv, HasOrders
    <3>3. CASE ReconStep(r)
      BY <3>1, <3>3, FoundOwnStep, SweptOwnStep
    <3>4. ASSUME NEW q \in Process, q # r, ReconStep(q)
          PROVE  FoundInv(r, c)' /\ (clean'[r] => SweptInv(r, c)')
      <4>1. orders' = orders
        BY <3>4 DEF ReconStep, StageOne, StageTwo, Lifecycle, PageOk, PagesDone, AddOk,
           AddFail, ScanOk, CheckOk, RemoveOk, RemoveFail, Start, StartFail, Renew,
           RenewFail, Unlock, Die, Abort
      <4>2. HasOrders(c)' <=> HasOrders(c)
        BY <4>1 DEF HasOrders
      <4>3. /\ rstage'[r] = rstage[r] /\ cursor'[r] = cursor[r] /\ found'[r] = found[r]
            /\ final'[r] = final[r] /\ clean'[r] = clean[r]
            /\ owed[r] \cap active' \subseteq owed'[r]
        BY <3>1, <3>4, OthersLeft
      <4>4. FoundInv(r, c)'
        BY <3>1, <4>2, <4>3 DEF FoundInv
      <4>5. (c \in active' <=> c \in active) \/ (c \in active' <=> HasOrders(c))
        BY <3>4, ChangesAreRight
      <4> QED
        BY <3>1, <4>2, <4>3, <4>4, <4>5, SweptOtherStep
    <3> QED
      BY <1>2, <3>2, <3>3, <3>4 DEF ReconNext
  <2> QED
    BY <2>1, <2>2, <2>3 DEF ReconInv
<1> QED
  BY <1>1, <1>2

(* The inductive invariant holds.                                          *)
THEOREM ReconSafe == ReconSpec => []ReconInv
<1> QED
  BY ReconInvInit, ReconInvStep, PTL DEF ReconSpec, reconAll

(* The variables of a reconciler keep their types.                         *)
THEOREM ReconTypeCorrect == ReconSpec => []ReconTypeOK
<1>1. ReconInv => ReconTypeOK
  BY DEF ReconInv
<1> QED
  BY <1>1, ReconSafe, PTL

(* A process works under its own lock, or under no lock of its own after   *)
(* so many lost renewals that the TTL must have run out.                   *)
THEOREM WorksUnderLock == ReconSpec => []HoldsLockWhileWorking
<1>1. ReconInv => HoldsLockWhileWorking
  BY DEF ReconInv, LockInv, HoldsLockWhileWorking
<1> QED
  BY <1>1, ReconSafe, PTL

(* A pass without errors leaves the set with exactly the clients that have *)
(* rows, whatever other reconcilers do at the same time.                   *)
THEOREM CleanPassesAgree == ReconSpec => []CleanPassAgrees
<1>1. ReconInv => CleanPassAgrees
  <2> SUFFICES ASSUME ReconInv, NEW r \in Process, rstage[r] = "unlock", clean[r]
               PROVE  active = {c \in Client : HasOrders(c)}
    BY DEF CleanPassAgrees
  <2>1. \A c \in Client : c \in active <=> HasOrders(c)
    BY DEF ReconInv, SweptInv
  <2> QED
    BY <2>1 DEF ReconInv
<1> QED
  BY <1>1, ReconSafe, PTL

(* Whatever happens to a lock that its holder does not do itself is that   *)
(* it ages, and expires with its TTL: no other process deletes it, none    *)
(* prolongs it.                                                            *)
THEOREM ForeignLocksKept == ReconSpec => ForeignLockKept
<1>1. ReconInv /\ [ReconNext]_reconAll
        => [\A r \in Process :
              lock = r =>
                \/ UNCHANGED lockVars
                \/ lock' = r /\ age' = age + 1
                \/ lock' = None /\ age + 1 = LockTTL
                \/ OwnStep(r)]_reconAll
  <2> SUFFICES ASSUME ReconInv, ReconNext, NEW r \in Process, lock = r
               PROVE  \/ UNCHANGED lockVars
                      \/ lock' = r /\ age' = age + 1
                      \/ lock' = None /\ age + 1 = LockTTL
                      \/ OwnStep(r)
    OBVIOUS
  <2> lock # None /\ ReconTypeOK
    BY ReconAssumption DEF ReconInv
  <2>1. CASE Minute
    BY <2>1 DEF Minute, lockVars
  <2>2. ASSUME NEW q \in Process, ReconStep(q) PROVE UNCHANGED lockVars \/ OwnStep(r)
    <3>1. CASE StageOne(q) \/ StageTwo(q)
      BY <3>1 DEF StageOne, StageTwo, PageOk, PagesDone, AddOk, AddFail, ScanOk, CheckOk,
         RemoveOk, RemoveFail, lockVars
    <3>2. CASE Start(q) \/ StartFail(q)
      BY <3>2 DEF Start, StartFail
    <3>3. CASE RenewFail(q) \/ Die(q) \/ Abort(q)
      BY <3>3 DEF RenewFail, Die, Abort, lockVars
    <3>4. CASE Renew(q)
      <4>1. CASE q = r
        <5>1. timer[r] = RenewIntvl /\ timer'[r] = 0
          BY <3>4, <4>1 DEF Renew, ReconTypeOK
        <5> QED
          BY <5>1, ReconAssumption DEF OwnStep
      <4>2. CASE q # r
        BY <3>4, <4>2 DEF Renew, lockVars
      <4> QED
        BY <4>1, <4>2
    <3>5. CASE Unlock(q)
      <4>1. CASE q = r
        <5>1. rstage[r] = "unlock" /\ rstage'[r] = "idle"
          BY <3>5, <4>1 DEF Unlock, Enter, ReconTypeOK
        <5> QED
          BY <5>1 DEF OwnStep
      <4>2. CASE q # r
        BY <3>5, <4>2 DEF Unlock, lockVars
      <4> QED
        BY <4>1, <4>2
    <3> QED
      BY <2>2, <3>1, <3>2, <3>3, <3>4, <3>5 DEF ReconStep, Lifecycle
  <2> QED
    BY <2>1, <2>2 DEF ReconNext
<1> QED
  BY <1>1, ReconSafe, PTL DEF ReconSpec, ForeignLockKept, reconAll

=============================================================================
