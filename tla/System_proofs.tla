---------------------------- MODULE System_proofs ----------------------------
(***************************************************************************)
(* Proofs about the stores under everybody who uses them at the same time, *)
(* for any sets of clients, items, workers, requests and reconcilers, and  *)
(* any number of late commands.  The only hypothesis is                  *)
(* UpdSvr!OneWorkerPerClient.                                              *)
(***************************************************************************)
EXTENDS System, FiniteSetTheorems, TLAPS

UP == INSTANCE UpdSvr_proofs
RP == INSTANCE Recon_proofs

-----------------------------------------------------------------------------
(* The types of the handlers, by the proof for the handlers alone.         *)
LEMMA HandlerTypes == U!TypeOK /\ U!Next => U!TypeOK'
<1>1. UP!TypeOK /\ UP!Next => UP!TypeOK'
  BY UP!TypeStep, SystemAssumption
<1>2. U!TypeOK <=> UP!TypeOK
  BY DEF U!TypeOK, UP!TypeOK, U!StoresTypeOK, UP!StoresTypeOK, U!Phase, UP!Phase,
     U!OrderKey, UP!OrderKey
<1>3. U!TypeOK' <=> UP!TypeOK'
  BY DEF U!TypeOK, UP!TypeOK, U!StoresTypeOK, UP!StoresTypeOK, U!Phase, UP!Phase,
     U!OrderKey, UP!OrderKey
<1>4. U!Next <=> UP!Next
  BY DEF U!Next, UP!Next, U!Call, UP!Call, U!Begin, UP!Begin, U!Goto, UP!Goto,
     U!Expire, UP!Expire, U!Step, UP!Step, U!CreateOk, UP!CreateOk,
     U!CreateFail, UP!CreateFail, U!DeleteOk, UP!DeleteOk, U!DeleteFail, UP!DeleteFail,
     U!QueryOk, UP!QueryOk, U!QueryFail, UP!QueryFail, U!SyncOk, UP!SyncOk,
     U!SyncFail, UP!SyncFail, U!Return, UP!Return, U!Crash, UP!Crash,
     U!Forget, UP!Forget, U!RetryOrFail, UP!RetryOrFail, U!Touched, UP!Touched,
     U!DelOnly, UP!DelOnly, U!ClientsOf, UP!ClientsOf, U!Running, UP!Running,
     U!BatchCreateOrders, UP!BatchCreateOrders, U!BatchDeleteOrders, UP!BatchDeleteOrders,
     U!GetActiveClients, UP!GetActiveClients, U!HasOrders, UP!HasOrders,
     U!PipeExec, UP!PipeExec, U!OrderKey, UP!OrderKey
<1> QED
  BY <1>1, <1>2, <1>3, <1>4

LEMMA InitSystemInv == Init => SystemInv
<1> SUFFICES ASSUME Init PROVE SystemInv
  OBVIOUS
<1> USE SystemAssumption DEF Init, U!Init, U!StoresInit, U!HandlerInit, R!ReconInit
<1>1. U!TypeOK
  BY DEF U!TypeOK, U!StoresTypeOK, U!Phase
<1>2. ASSUME NEW w \in Worker PROVE BatchInv(w)
  BY DEF BatchInv, U!Touched, U!DelOnly, U!ClientsOf, U!Running
<1>3. ASSUME NEW r \in Process PROVE PassInv(r)
  BY DEF PassInv
<1>4. DisagreementExplained
  BY DEF DisagreementExplained, Disagree, HasOrders, U!HasOrders
<1> QED
  BY <1>1, <1>2, <1>3, <1>4 DEF SystemInv

-----------------------------------------------------------------------------
(* What a step of others leaves alone.                                     *)

RacedKept == \A c \in raced : Disagree(c)' \/ InFlight(c)' => c \in raced'

(* What reconciler r learned stays true or has turned.                     *)
LEMMA PassKept ==
  ASSUME SystemInv, Observe, NEW r \in Process,
         rstage'[r] = rstage[r], found'[r] = found[r]
  PROVE  PassInv(r)'
<1>1. PassInv(r) /\ found[r] \subseteq Client
  BY DEF SystemInv
<1>2. rstage[r] \in {"add", "remove"} => turned'[r] = turned[r] \cup Turning
  BY DEF Observe
<1>3. \A c \in Client : c \notin Turning => (HasOrders(c)' <=> HasOrders(c))
  BY DEF Turning
<1> QED
  BY <1>1, <1>2, <1>3 DEF PassInv

(* The batch of worker v: rows and membership of its clients change only   *)
(* if that races them.                                                     *)
LEMMA BatchKept ==
  ASSUME SystemInv, RacedKept, NEW v \in Worker,
         phase'[v] = phase[v], cres'[v] = cres[v], dels'[v] = dels[v], rems'[v] = rems[v],
         \A c \in U!Touched(v) :
           phase[v] \in U!Running =>
             /\ c \in stale => c \in stale'
             /\ \/ c \in raced'
                \/ /\ \A k \in U!OrderKey : k.client = c => (k \in orders' <=> k \in orders)
                   /\ HasOrders(c)' <=> HasOrders(c)
                   /\ c \in active => c \in active' \/ ~HasOrders(c)
  PROVE  BatchInv(v)'
<1>1. /\ U!Touched(v)' = U!Touched(v)
      /\ U!DelOnly(v)' = U!DelOnly(v)
      /\ U!DelOnly(v) \subseteq U!Touched(v)
  BY DEF U!Touched, U!DelOnly
<1>2. BatchInv(v) /\ U!TypeOK
  BY DEF SystemInv
<1>3. \A k \in cres[v] : k \in U!OrderKey /\ k.client \in U!Touched(v)
  BY <1>2 DEF U!TypeOK, U!Touched, U!ClientsOf
<1>4. phase[v] \in U!Running => \A c \in U!Touched(v) : c \in raced => c \in raced'
  <2> SUFFICES ASSUME phase[v] \in U!Running, NEW c \in U!Touched(v), c \in raced
               PROVE  c \in raced'
    OBVIOUS
  <2>1. InFlight(c)'
    BY <1>1 DEF InFlight, U!InFlight
  <2> QED
    BY <2>1 DEF RacedKept
<1>5. phase[v] \in {"delete", "query", "sync"} =>
        \A k \in cres[v] : k \in orders' \/ k.client \in raced'
  BY <1>2, <1>3, <1>4 DEF BatchInv, U!Running
<1>6. phase[v] = "sync" => \A c \in rems[v] : HasOrders(c)' => c \in raced'
  BY <1>1, <1>2, <1>4 DEF BatchInv, U!Running
<1>7. phase[v] = "sync" =>
        \A c \in U!DelOnly(v) \ rems[v] : c \in stale' \cup raced' \/ HasOrders(c)'
  BY <1>1, <1>2, <1>4 DEF BatchInv, U!Running
<1>8. phase[v] \in U!Running =>
        \A c \in U!DelOnly(v) :
          c \in stale' \cup raced' \/ (HasOrders(c)' => c \in active')
  BY <1>1, <1>2, <1>4 DEF BatchInv
<1>9. /\ U!Touched(v) \subseteq Serves[v] /\ cres[v] \cap dels[v] = {}
      /\ rems[v] \subseteq U!DelOnly(v)
      /\ phase[v] \in {"create", "delete", "query"} => rems[v] = {}
  BY <1>2 DEF BatchInv
<1> QED
  BY <1>1, <1>5, <1>6, <1>7, <1>8, <1>9 DEF BatchInv

(* The stores go on agreeing about a client nobody touches.                *)
LEMMA ExplainedKept ==
  ASSUME SystemInv, RacedKept, NEW c \in Client,
         c \in stale => c \in stale',
         InFlight(c) => InFlight(c)',
         \/ c \in raced'
         \/ /\ HasOrders(c)' <=> HasOrders(c)
            /\ c \in active' <=> c \in active
         \/ ~Disagree(c)'
  PROVE  Disagree(c)' /\ ~InFlight(c)' => c \in stale' \cup raced'
<1> SUFFICES ASSUME Disagree(c)', ~InFlight(c)', c \notin raced'
             PROVE  c \in stale'
  OBVIOUS
<1>1. Disagree(c)
  BY DEF Disagree
<1>2. c \in stale \cup raced
  BY <1>1 DEF SystemInv, DisagreementExplained
<1> QED
  BY <1>2 DEF RacedKept

-----------------------------------------------------------------------------
(* Steps of a worker.                                                      *)

(* What a step of worker w must establish for the clients it serves.       *)
OnlyTouches(w) ==
  /\ \A v \in Worker \ {w} :
       /\ phase'[v] = phase[v]
       /\ cres'[v] = cres[v]
       /\ dels'[v] = dels[v]
       /\ rems'[v] = rems[v]
  /\ \A k \in U!OrderKey : k.client \notin Serves[w] => (k \in orders' <=> k \in orders)
  /\ \A c \in Client \ Serves[w] :
       /\ c \in active' <=> c \in active
       /\ c \in stale' <=> c \in stale

ServedExplained(w) ==
  \A c \in Serves[w] :
    Disagree(c) /\ ~(phase[w] \in U!Running /\ c \in U!Touched(w)) => c \in stale \cup raced

LEMMA ExplainedBefore ==
  ASSUME SystemInv, U!OneWorkerPerClient, NEW w \in Worker
  PROVE  ServedExplained(w)
<1> SUFFICES ASSUME NEW c \in Serves[w], Disagree(c),
                    ~(phase[w] \in U!Running /\ c \in U!Touched(w))
             PROVE  c \in stale \cup raced
  BY DEF ServedExplained
<1>1. c \in Client
  BY SystemAssumption
<1>2. ASSUME NEW v \in Worker, v # w PROVE c \notin U!Touched(v)
  BY <1>2 DEF SystemInv, BatchInv, U!OneWorkerPerClient
<1>3. ~InFlight(c)
  BY <1>2 DEF InFlight, U!InFlight
<1> QED
  BY <1>1, <1>3 DEF SystemInv, DisagreementExplained

(* The part of the invariant that a step of a handler can disturb.         *)
HandlersInv == (\A w \in Worker : BatchInv(w)) /\ DisagreementExplained

LEMMA Frame ==
  ASSUME SystemInv, U!OneWorkerPerClient, RacedKept, NEW w \in Worker,
         OnlyTouches(w), U!TypeOK', BatchInv(w)', ServedExplained(w)'
  PROVE  HandlersInv'
<1>1. ASSUME NEW c \in Client, c \notin Serves[w] PROVE HasOrders(c)' <=> HasOrders(c)
  BY <1>1 DEF OnlyTouches, HasOrders, U!HasOrders, SystemInv, U!TypeOK, U!StoresTypeOK, U!OrderKey
<1>2. ASSUME NEW v \in Worker, v # w PROVE BatchInv(v)'
  <2>1. U!Touched(v) \subseteq Client \ Serves[w]
    BY <1>2, SystemAssumption DEF SystemInv, BatchInv, U!OneWorkerPerClient
  <2>2. \A c \in U!Touched(v) :
          /\ c \in stale' <=> c \in stale
          /\ c \in active' <=> c \in active
          /\ \A k \in U!OrderKey : k.client = c => (k \in orders' <=> k \in orders)
          /\ HasOrders(c)' <=> HasOrders(c)
    BY <1>1, <2>1 DEF OnlyTouches
  <2>3. /\ phase'[v] = phase[v] /\ cres'[v] = cres[v]
        /\ dels'[v] = dels[v] /\ rems'[v] = rems[v]
    BY <1>2 DEF OnlyTouches
  <2> QED
    BY <2>2, <2>3, BatchKept
<1>3. ASSUME NEW c \in Client PROVE Disagree(c)' /\ ~InFlight(c)' => c \in stale' \cup raced'
  <2>1. CASE c \in Serves[w]
    BY <2>1 DEF ServedExplained, InFlight, U!InFlight
  <2>2. CASE c \notin Serves[w]
    <3>1. ~(phase[w] \in U!Running /\ c \in U!Touched(w))
      BY <2>2 DEF SystemInv, BatchInv
    <3>2. ASSUME NEW v \in Worker, v # w, phase[v] \in U!Running, c \in U!Touched(v)
          PROVE  phase'[v] \in U!Running /\ c \in U!Touched(v)'
      BY <3>2 DEF OnlyTouches, U!Touched
    <3>3. InFlight(c) => InFlight(c)'
      BY <3>1, <3>2 DEF InFlight, U!InFlight
    <3> QED
      BY <1>1, <2>2, <3>3, ExplainedKept DEF OnlyTouches
  <2> QED
    BY <2>1, <2>2
<1> QED
  BY <1>2, <1>3 DEF HandlersInv, DisagreementExplained

LEMMA CallKeeps ==
  ASSUME SystemInv, U!OneWorkerPerClient, RacedKept, U!TypeOK', NEW w \in Worker, U!Call(w)
  PROVE  HandlersInv'
<1>1. PICK cs \in SUBSET [client : Serves[w], item : Item],
           ds \in SUBSET [client : Serves[w], item : Item],
           done \in BOOLEAN :
             cs \cap ds = {} /\ U!Begin(w, cs, ds, done)
  BY DEF U!Call
<1> USE <1>1 DEF U!Begin, U!Goto, SystemInv, U!TypeOK
<1>2. OnlyTouches(w)
  BY DEF OnlyTouches
<1>3. /\ U!Touched(w)' = U!ClientsOf(cs) \cup U!ClientsOf(ds)
      /\ U!DelOnly(w)' = U!ClientsOf(ds) \ U!ClientsOf(cs)
      /\ U!Touched(w)' \subseteq Serves[w]
      /\ U!DelOnly(w)' \subseteq Serves[w]
  BY DEF U!Touched, U!DelOnly, U!ClientsOf
<1>4. ServedExplained(w)
  BY ExplainedBefore
<1>5. \A c \in Client : Disagree(c)' <=> Disagree(c)
  BY DEF Disagree, HasOrders, U!HasOrders
<1>6. \A c \in Serves[w] : Disagree(c) => c \in stale \cup raced'
  BY <1>4, <1>5, SystemAssumption DEF ServedExplained, U!Running, RacedKept
<1>7. BatchInv(w)'
  <2>1. \A c \in U!DelOnly(w)' : c \in stale' \cup raced' \/ (HasOrders(c)' => c \in active')
    BY <1>3, <1>6, <1>5, SystemAssumption DEF Disagree
  <2>2. /\ phase'[w] \in {"create", "delete", "ok"}
        /\ phase'[w] # "create" => cs = {}
    OBVIOUS
  <2>3. cres'[w] = cs /\ dels'[w] = ds /\ rems'[w] = {}
    OBVIOUS
  <2> QED
    BY <1>3, <2>1, <2>2, <2>3 DEF BatchInv
<1>8. ServedExplained(w)'
  BY <1>5, <1>6, SystemAssumption DEF ServedExplained
<1> QED
  BY <1>2, <1>7, <1>8, Frame

(* A failed try of a statement: whatever part of the rows of the batch it  *)
(* changed, the clients of the batch stay under handling, or become stale. *)
LEMMA RetryKeeps ==
  ASSUME SystemInv, U!OneWorkerPerClient, RacedKept, U!TypeOK', NEW w \in Worker,
         phase[w] \in {"create", "delete"},
         U!RetryOrFail(w),
         UNCHANGED <<active, cres, dels, rems>>,
         \A k \in U!OrderKey : k.client \notin U!Touched(w) => (k \in orders' <=> k \in orders),
         \A c \in U!DelOnly(w) : HasOrders(c)' => HasOrders(c),
         \A k \in cres[w] : k \in orders => k \in orders'
  PROVE  HandlersInv'
<1>1. BatchInv(w) /\ ServedExplained(w) /\ U!TypeOK
  BY ExplainedBefore DEF SystemInv
<1>2. /\ U!Touched(w) \subseteq Serves[w]
      /\ Serves[w] \subseteq Client
      /\ U!DelOnly(w) \subseteq U!Touched(w)
      /\ U!Touched(w)' = U!Touched(w)
      /\ U!DelOnly(w)' = U!DelOnly(w)
  BY <1>1, SystemAssumption DEF BatchInv, U!Touched, U!DelOnly
<1>3. /\ \A v \in Worker \ {w} : phase'[v] = phase[v]
      /\ \/ phase'[w] = phase[w] /\ stale' = stale
         \/ phase'[w] = "err" /\ stale' = stale \cup U!Touched(w)
  BY <1>1 DEF U!RetryOrFail, U!Goto, U!TypeOK
<1>4. OnlyTouches(w)
  BY <1>2, <1>3 DEF OnlyTouches
<1>5. phase'[w] \in U!Running => \A c \in U!Touched(w) : c \in raced => c \in raced'
  BY <1>2 DEF RacedKept, InFlight, U!InFlight
<1>6. BatchInv(w)'
  <2>1. \A k \in cres[w] : k.client \in U!Touched(w)
    BY DEF U!Touched, U!ClientsOf
  <2> QED
    BY <1>1, <1>2, <1>3, <1>5, <2>1 DEF BatchInv, U!Running
<1>7. ServedExplained(w)'
  <2> SUFFICES ASSUME NEW c \in Serves[w], Disagree(c)', c \notin stale',
                      ~(phase'[w] \in U!Running /\ c \in U!Touched(w))
               PROVE  c \in raced'
    BY <1>2 DEF ServedExplained
  <2>1. c \notin U!Touched(w) /\ c \in Client /\ c \notin stale
    BY <1>2, <1>3 DEF U!Running
  <2>2. HasOrders(c)' <=> HasOrders(c)
    BY <2>1, <1>1 DEF HasOrders, U!HasOrders, U!TypeOK, U!StoresTypeOK
  <2> QED
    BY <1>1, <2>1, <2>2 DEF ServedExplained, Disagree, RacedKept
<1> QED
  BY <1>4, <1>6, <1>7, Frame

(* What every step of worker w begins with.                                *)
LEMMA Before ==
  ASSUME SystemInv, U!OneWorkerPerClient, NEW w \in Worker
  PROVE  /\ BatchInv(w) /\ ServedExplained(w) /\ U!TypeOK
         /\ U!Touched(w) \subseteq Serves[w]
         /\ Serves[w] \subseteq Client
         /\ U!Touched(w) = U!ClientsOf(cres[w]) \cup U!DelOnly(w)
         /\ U!ClientsOf(cres[w]) \cap U!DelOnly(w) = {}
         /\ \A k \in cres[w] : k \in U!OrderKey /\ k.client \in U!Touched(w) \ U!DelOnly(w)
         /\ \A k \in dels[w] : k \in U!OrderKey /\ k.client \in U!Touched(w)
<1>1. BatchInv(w) /\ ServedExplained(w) /\ U!TypeOK
  BY ExplainedBefore DEF SystemInv
<1> QED
  BY <1>1, SystemAssumption DEF BatchInv, U!Touched, U!DelOnly, U!ClientsOf, U!TypeOK

(* While worker w runs, its clients stay raced.                            *)
LEMMA RacedStays ==
  ASSUME RacedKept, NEW w \in Worker, U!Touched(w)' = U!Touched(w), phase'[w] \in U!Running
  PROVE  \A c \in U!Touched(w) : c \in raced => c \in raced'
BY DEF RacedKept, InFlight, U!InFlight

LEMMA CreateOkKeeps ==
  ASSUME SystemInv, U!OneWorkerPerClient, RacedKept, U!TypeOK', NEW w \in Worker, U!CreateOk(w)
  PROVE  HandlersInv'
<1> USE DEF U!CreateOk, U!BatchCreateOrders, U!Goto
<1>1. BatchInv(w) /\ ServedExplained(w) /\ U!TypeOK
  BY Before
<1>2. /\ U!Touched(w)' = U!Touched(w)
      /\ U!DelOnly(w)' = U!DelOnly(w)
      /\ U!DelOnly(w) \subseteq U!Touched(w)
  BY DEF U!Touched, U!DelOnly
<1>3. OnlyTouches(w)
  BY <1>1, Before DEF OnlyTouches, U!TypeOK
<1>4. \A c \in Client : c \notin U!Touched(w) \/ c \in U!DelOnly(w) => (HasOrders(c)' <=> HasOrders(c))
  BY Before DEF HasOrders, U!HasOrders
<1>5. phase'[w] \in {"delete", "sync"} /\ (phase'[w] = "sync" => dels[w] = {})
  BY <1>1 DEF U!TypeOK
<1>6. \A c \in U!Touched(w) : c \in raced => c \in raced'
  BY <1>2, <1>5, RacedStays DEF U!Running
<1>7. BatchInv(w)'
  <2>1. dels[w] = {} => U!DelOnly(w) = {}
    BY DEF U!DelOnly, U!ClientsOf
  <2>2. phase[w] = "create" /\ rems[w] = {} /\ cres[w] \subseteq orders'
    BY <1>1 DEF BatchInv
  <2>3. \A c \in U!DelOnly(w) : c \in stale' \cup raced' \/ (HasOrders(c)' => c \in active')
    BY <1>1, <1>2, <1>4, <1>6, <2>2, Before DEF BatchInv, U!Running
  <2> QED
    BY <1>1, <1>2, <1>5, <2>1, <2>2, <2>3 DEF BatchInv
<1>8. ServedExplained(w)'
  BY <1>1, <1>2, <1>4, <1>5, Before DEF ServedExplained, U!Running, Disagree, RacedKept
<1> QED
  BY <1>3, <1>7, <1>8, Frame

LEMMA CreateFailKeeps ==
  ASSUME SystemInv, U!OneWorkerPerClient, RacedKept, U!TypeOK', NEW w \in Worker, U!CreateFail(w)
  PROVE  HandlersInv'
<1> USE DEF U!CreateFail, U!BatchCreateOrders
<1>1. orders' = orders \/ orders' = orders \cup cres[w]
  OBVIOUS
<1>2. \A k \in U!OrderKey : k.client \notin U!Touched(w) => (k \in orders' <=> k \in orders)
  BY <1>1, Before
<1>3. \A c \in U!DelOnly(w) : HasOrders(c)' => HasOrders(c)
  BY <1>1, Before DEF HasOrders, U!HasOrders
<1>4. \A k \in cres[w] : k \in orders => k \in orders'
  BY <1>1
<1> QED
  BY <1>2, <1>3, <1>4, RetryKeeps

LEMMA DeleteFailKeeps ==
  ASSUME SystemInv, U!OneWorkerPerClient, RacedKept, U!TypeOK', NEW w \in Worker, U!DeleteFail(w)
  PROVE  HandlersInv'
<1> USE DEF U!DeleteFail, U!BatchDeleteOrders
<1>1. orders' = orders \/ orders' = orders \ dels[w]
  OBVIOUS
<1>2. \A k \in U!OrderKey : k.client \notin U!Touched(w) => (k \in orders' <=> k \in orders)
  BY <1>1, Before
<1>3. \A c \in U!DelOnly(w) : HasOrders(c)' => HasOrders(c)
  BY <1>1 DEF HasOrders, U!HasOrders
<1>4. \A k \in cres[w] : k \in orders => k \in orders'
  BY <1>1 DEF SystemInv, BatchInv
<1> QED
  BY <1>2, <1>3, <1>4, RetryKeeps

LEMMA DeleteOkKeeps ==
  ASSUME SystemInv, U!OneWorkerPerClient, RacedKept, U!TypeOK', NEW w \in Worker, U!DeleteOk(w)
  PROVE  HandlersInv'
<1> USE DEF U!DeleteOk, U!BatchDeleteOrders, U!Goto
<1>1. BatchInv(w) /\ ServedExplained(w) /\ U!TypeOK
  BY Before
<1>2. /\ U!Touched(w)' = U!Touched(w)
      /\ U!DelOnly(w)' = U!DelOnly(w)
      /\ U!DelOnly(w) \subseteq U!Touched(w)
  BY DEF U!Touched, U!DelOnly
<1>3. OnlyTouches(w)
  BY <1>1, Before DEF OnlyTouches, U!TypeOK
<1>4. \A c \in Client : /\ HasOrders(c)' => HasOrders(c)
                        /\ c \notin U!Touched(w) => (HasOrders(c)' <=> HasOrders(c))
  BY Before DEF HasOrders, U!HasOrders
<1>5. phase'[w] \in {"query", "sync"} /\ (phase'[w] = "sync" => U!DelOnly(w) = {})
  BY <1>1 DEF U!TypeOK
<1>6. \A c \in U!Touched(w) : c \in raced => c \in raced'
  BY <1>2, <1>5, RacedStays DEF U!Running
<1>7. BatchInv(w)'
  <2>1. phase[w] = "delete" /\ rems[w] = {}
    BY <1>1 DEF BatchInv
  <2>2. \A k \in cres[w] : k \in orders' \/ k.client \in raced'
    BY <1>1, <1>6, <2>1, Before DEF BatchInv
  <2>3. \A c \in U!DelOnly(w) : c \in stale' \cup raced' \/ (HasOrders(c)' => c \in active')
    BY <1>1, <1>2, <1>4, <1>6, <2>1, Before DEF BatchInv, U!Running
  <2> QED
    BY <1>1, <1>2, <1>5, <2>1, <2>2, <2>3 DEF BatchInv
<1>8. ServedExplained(w)'
  BY <1>1, <1>2, <1>4, <1>5, Before DEF ServedExplained, U!Running, Disagree, RacedKept
<1> QED
  BY <1>3, <1>7, <1>8, Frame

(* The SREM list holds the clients with deletes only that had no row.      *)
LEMMA QueryOkKeeps ==
  ASSUME SystemInv, U!OneWorkerPerClient, RacedKept, U!TypeOK', NEW w \in Worker, U!QueryOk(w)
  PROVE  HandlersInv'
<1> USE DEF U!QueryOk, U!GetActiveClients, U!Goto
<1>1. BatchInv(w) /\ ServedExplained(w) /\ U!TypeOK
  BY Before
<1>2. /\ U!Touched(w)' = U!Touched(w)
      /\ U!DelOnly(w)' = U!DelOnly(w)
      /\ U!DelOnly(w) \subseteq U!Touched(w)
  BY DEF U!Touched, U!DelOnly
<1>3. OnlyTouches(w)
  BY <1>1 DEF OnlyTouches, U!TypeOK
<1>4. \A c : HasOrders(c)' <=> HasOrders(c)
  BY DEF HasOrders, U!HasOrders
<1>5. phase'[w] = "sync" /\ rems'[w] = {c \in U!DelOnly(w) : ~HasOrders(c)}
  BY <1>1 DEF U!TypeOK, HasOrders
<1>6. \A c \in U!Touched(w) : c \in raced => c \in raced'
  BY <1>2, <1>5, RacedStays DEF U!Running
<1>7. BatchInv(w)'
  <2>1. /\ phase[w] = "query"
        /\ \A k \in cres[w] : k \in orders' \/ k.client \in raced'
    BY <1>1, <1>6, Before DEF BatchInv
  <2>2. \A c \in U!DelOnly(w) : c \in stale' \cup raced' \/ (HasOrders(c)' => c \in active')
    BY <1>1, <1>2, <1>4, <1>6, <2>1 DEF BatchInv, U!Running
  <2>3. rems'[w] \subseteq U!DelOnly(w) /\ \A c \in rems'[w] : ~HasOrders(c)'
    BY <1>4, <1>5
  <2>4. \A c \in U!DelOnly(w) \ rems'[w] : HasOrders(c)'
    BY <1>4, <1>5
  <2> QED
    BY <1>1, <1>2, <1>5, <2>1, <2>2, <2>3, <2>4 DEF BatchInv
<1>8. ServedExplained(w)'
  BY <1>1, <1>2, <1>4, <1>5, Before DEF ServedExplained, U!Running, Disagree, RacedKept
<1> QED
  BY <1>3, <1>7, <1>8, Frame

LEMMA QueryFailKeeps ==
  ASSUME SystemInv, U!OneWorkerPerClient, RacedKept, U!TypeOK', NEW w \in Worker, U!QueryFail(w)
  PROVE  HandlersInv'
<1> USE DEF U!QueryFail, U!Goto
<1>1. BatchInv(w) /\ ServedExplained(w) /\ U!TypeOK
  BY Before
<1>2. /\ U!Touched(w)' = U!Touched(w)
      /\ U!DelOnly(w)' = U!DelOnly(w)
      /\ U!DelOnly(w) \subseteq U!Touched(w)
  BY DEF U!Touched, U!DelOnly
<1>3. OnlyTouches(w)
  BY <1>1, <1>2, Before DEF OnlyTouches, U!TypeOK
<1>4. \A c : HasOrders(c)' <=> HasOrders(c)
  BY DEF HasOrders, U!HasOrders
<1>5. phase[w] = "query" /\ phase'[w] = "sync" /\ rems[w] = {}
  BY <1>1 DEF U!TypeOK, BatchInv
<1>6. \A c \in U!Touched(w) : c \in raced => c \in raced'
  BY <1>2, <1>5, RacedStays DEF U!Running
<1>7. BatchInv(w)'
  <2>1. \A k \in cres[w] : k \in orders' \/ k.client \in raced'
    BY <1>1, <1>5, <1>6, Before DEF BatchInv
  <2> QED
    BY <1>1, <1>2, <1>5, <2>1 DEF BatchInv
<1>8. ServedExplained(w)'
  BY <1>1, <1>2, <1>4, <1>5, Before DEF ServedExplained, U!Running, Disagree, RacedKept
<1> QED
  BY <1>3, <1>7, <1>8, Frame

(* What the pipeline finds: clients with creates have rows, those on the   *)
(* SREM list have none, the others keep some and are members; or they have *)
(* been raced, or were stale before.                                       *)
LEMMA SyncFinds ==
  ASSUME SystemInv, U!OneWorkerPerClient, NEW w \in Worker, phase[w] = "sync"
  PROVE  /\ \A c \in U!ClientsOf(cres[w]) : HasOrders(c) \/ c \in raced
         /\ \A c \in rems[w] : ~HasOrders(c) \/ c \in raced
         /\ \A c \in U!DelOnly(w) \ rems[w] : ~Disagree(c) \/ c \in stale \cup raced
         /\ rems[w] \subseteq U!DelOnly(w)
<1>1. BatchInv(w) /\ U!TypeOK
  BY Before
<1>2. \A c \in U!ClientsOf(cres[w]) : HasOrders(c) \/ c \in raced
  BY <1>1 DEF BatchInv, U!ClientsOf, HasOrders, U!HasOrders
<1> QED
  BY <1>1, <1>2 DEF BatchInv, U!Running, Disagree

LEMMA SyncOkKeeps ==
  ASSUME SystemInv, U!OneWorkerPerClient, RacedKept, U!TypeOK', NEW w \in Worker, U!SyncOk(w)
  PROVE  HandlersInv'
<1> USE DEF U!SyncOk, U!PipeExec, U!Goto
<1>1. BatchInv(w) /\ ServedExplained(w) /\ U!TypeOK
  BY Before
<1>2. /\ U!Touched(w)' = U!Touched(w)
      /\ U!DelOnly(w)' = U!DelOnly(w)
  BY DEF U!Touched, U!DelOnly
<1>3. \A c : HasOrders(c)' <=> HasOrders(c)
  BY DEF HasOrders, U!HasOrders
<1>4. phase'[w] = "ok"
  BY <1>1 DEF U!TypeOK
<1>5. OnlyTouches(w)
  BY <1>1, Before, SyncFinds DEF OnlyTouches, U!TypeOK
<1>6. BatchInv(w)'
  BY <1>1, <1>2, <1>4 DEF BatchInv, U!Running
<1>7. ServedExplained(w)'
  <2> SUFFICES ASSUME NEW c \in Serves[w], Disagree(c)', c \notin stale'
               PROVE  c \in raced'
    BY DEF ServedExplained
  <2>1. c \in Client
    BY Before
  <2>2. CASE c \notin U!Touched(w)
    BY <1>1, <1>3, <2>1, <2>2, Before, SyncFinds DEF ServedExplained, Disagree, RacedKept
  <2>3. CASE c \in U!DelOnly(w)
    BY <1>3, <2>1, <2>3, Before, SyncFinds DEF Disagree, RacedKept
  <2>4. CASE c \in U!ClientsOf(cres[w])
    BY <1>3, <2>1, <2>4, Before, SyncFinds DEF Disagree, RacedKept
  <2> QED
    BY <2>2, <2>3, <2>4, Before
<1> QED
  BY <1>5, <1>6, <1>7, Frame

LEMMA SyncFailKeeps ==
  ASSUME SystemInv, U!OneWorkerPerClient, RacedKept, U!TypeOK', NEW w \in Worker, U!SyncFail(w)
  PROVE  HandlersInv'
<1> USE DEF U!SyncFail, U!PipeExec, U!Goto
<1>1. BatchInv(w) /\ ServedExplained(w) /\ U!TypeOK
  BY Before
<1>2. /\ U!Touched(w)' = U!Touched(w)
      /\ U!DelOnly(w)' = U!DelOnly(w)
  BY DEF U!Touched, U!DelOnly
<1>3. \A c : HasOrders(c)' <=> HasOrders(c)
  BY DEF HasOrders, U!HasOrders
<1>4. phase'[w] = "ok"
  BY <1>1 DEF U!TypeOK
<1>5. \A c : c \notin U!ClientsOf(cres[w]) \cup rems[w] => (c \in active' <=> c \in active)
  OBVIOUS
<1>6. OnlyTouches(w)
  BY <1>1, <1>5, Before, SyncFinds DEF OnlyTouches, U!TypeOK
<1>7. BatchInv(w)'
  BY <1>1, <1>2, <1>4 DEF BatchInv, U!Running
<1>8. ServedExplained(w)'
  <2> SUFFICES ASSUME NEW c \in Serves[w], Disagree(c)', c \notin stale'
               PROVE  c \in raced'
    BY DEF ServedExplained
  <2>1. c \in Client /\ c \notin stale /\ c \notin U!ClientsOf(cres[w]) \cup rems[w]
    BY Before
  <2>2. Disagree(c)
    BY <1>3, <1>5, <2>1 DEF Disagree
  <2>3. CASE c \notin U!Touched(w)
    BY <1>1, <2>1, <2>2, <2>3 DEF ServedExplained, RacedKept
  <2>4. CASE c \in U!DelOnly(w)
    BY <2>1, <2>2, <2>4, SyncFinds DEF RacedKept
  <2> QED
    BY <2>1, <2>3, <2>4, Before
<1> QED
  BY <1>6, <1>7, <1>8, Frame

(* Calls go out of scope: the finished ones leave their clients explained, *)
(* the ones cut off leave theirs stale.                                    *)
LEMMA ForgetKeeps ==
  ASSUME SystemInv, RacedKept, NEW ws \in SUBSET Worker, U!Forget(ws),
         UNCHANGED <<orders, active>>,
         stale \subseteq stale',
         \A w \in ws : phase[w] \in U!Running => U!Touched(w) \subseteq stale'
  PROVE  HandlersInv'
<1>1. \A c : HasOrders(c)' <=> HasOrders(c)
  BY DEF HasOrders, U!HasOrders
<1>2. ASSUME NEW w \in Worker PROVE BatchInv(w)'
  <2>1. CASE w \in ws
    BY <2>1 DEF U!Forget, BatchInv, U!Touched, U!DelOnly, U!ClientsOf, U!Running
  <2>2. CASE w \notin ws
    <3>1. /\ phase'[w] = phase[w] /\ cres'[w] = cres[w]
          /\ dels'[w] = dels[w] /\ rems'[w] = rems[w]
      BY <2>2 DEF U!Forget
    <3> QED
      BY <1>1, <3>1, BatchKept
  <2> QED
    BY <2>1, <2>2
<1>3. ASSUME NEW c \in Client PROVE Disagree(c)' /\ ~InFlight(c)' => c \in stale' \cup raced'
  <2>1. CASE c \in stale'
    BY <2>1
  <2>2. CASE c \notin stale'
    <3>1. ASSUME NEW w \in Worker, phase[w] \in U!Running, c \in U!Touched(w)
          PROVE  phase'[w] \in U!Running /\ c \in U!Touched(w)'
      BY <2>2, <3>1 DEF U!Forget, U!Touched
    <3>2. InFlight(c) => InFlight(c)'
      BY <3>1 DEF InFlight, U!InFlight
    <3> QED
      BY <1>1, <3>2, ExplainedKept
  <2> QED
    BY <2>1, <2>2
<1> QED
  BY <1>2, <1>3 DEF HandlersInv, DisagreementExplained

(* A step of somebody else that changes rows or membership of the clients  *)
(* it races only, or sets them right.                                      *)
LEMMA OthersKeep ==
  ASSUME SystemInv, RacedKept,
         UNCHANGED <<phase, cres, dels, rems, stale>>,
         \A k \in U!OrderKey : (k \in orders' <=> k \in orders) \/ k.client \in raced'
                               \/ (~Disagree(k.client)' /\ ~InFlight(k.client)'),
         \A c \in Client :
           \/ c \in active' <=> c \in active
           \/ c \in raced'
           \/ ~Disagree(c)' /\ (\A k \in U!OrderKey : k.client = c => (k \in orders' <=> k \in orders)),
         orders' \subseteq U!OrderKey
  PROVE  HandlersInv'
<1>1. \A c : InFlight(c)' <=> InFlight(c)
  BY DEF InFlight, U!InFlight, U!Touched
<1>2. orders \subseteq U!OrderKey
  BY DEF SystemInv, U!TypeOK, U!StoresTypeOK
<1>3. ASSUME NEW c \in Client
      PROVE  \/ c \in raced'
             \/ ~Disagree(c)' /\ ~InFlight(c)'
             \/ \A k \in U!OrderKey : k.client = c => (k \in orders' <=> k \in orders)
  OBVIOUS
<1>4. ASSUME NEW c \in Client, \A k \in U!OrderKey : k.client = c => (k \in orders' <=> k \in orders)
      PROVE  HasOrders(c)' <=> HasOrders(c)
  BY <1>2, <1>4 DEF HasOrders, U!HasOrders
<1>5. ASSUME NEW v \in Worker PROVE BatchInv(v)'
  <2>1. U!Touched(v) \subseteq Client
    BY DEF SystemInv, U!TypeOK, U!Touched, U!ClientsOf, U!OrderKey
  <2>2. ASSUME NEW c \in U!Touched(v), phase[v] \in U!Running
        PROVE  \/ c \in raced'
               \/ /\ \A k \in U!OrderKey : k.client = c => (k \in orders' <=> k \in orders)
                  /\ HasOrders(c)' <=> HasOrders(c)
                  /\ c \in active => c \in active' \/ ~HasOrders(c)
    <3>1. c \in Client /\ InFlight(c)'
      BY <1>1, <2>1, <2>2 DEF InFlight, U!InFlight
    <3> QED
      BY <1>3, <1>4, <3>1 DEF Disagree
  <2> QED
    BY <2>2, BatchKept
<1>6. ASSUME NEW c \in Client PROVE Disagree(c)' /\ ~InFlight(c)' => c \in stale' \cup raced'
  BY <1>1, <1>3, <1>4, ExplainedKept
<1> QED
  BY <1>5, <1>6 DEF HandlersInv, DisagreementExplained

LEMMA HandlersStep ==
  ASSUME SystemInv, U!OneWorkerPerClient, RacedKept, U!Next
  PROVE  HandlersInv' /\ U!TypeOK'
<1>1. U!TypeOK'
  BY HandlerTypes DEF SystemInv
<1>2. ASSUME NEW w \in Worker, U!Call(w) PROVE HandlersInv'
  BY <1>1, <1>2, CallKeeps
<1>3. ASSUME NEW ws \in SUBSET Worker, U!Expire(ws) PROVE HandlersInv'
  <2>1. UNCHANGED <<orders, active, phase, cres, dels, rems, stale>>
    BY <1>3 DEF U!Expire
  <2>2. orders' \subseteq U!OrderKey
    BY <2>1 DEF SystemInv, U!TypeOK, U!StoresTypeOK
  <2> QED
    BY <2>1, <2>2, OthersKeep
<1>4. ASSUME NEW w \in Worker, U!Step(w) PROVE HandlersInv'
  BY <1>1, <1>4, CreateOkKeeps, CreateFailKeeps, DeleteOkKeeps, DeleteFailKeeps,
     QueryOkKeeps, QueryFailKeeps, SyncOkKeeps, SyncFailKeeps DEF U!Step
<1>5. ASSUME NEW w \in Worker, U!Return(w) PROVE HandlersInv'
  <2>1. \A v \in {w} : phase[v] \notin U!Running
    BY <1>5 DEF U!Return, U!Running
  <2> QED
    BY <1>5, <2>1, ForgetKeeps DEF U!Return
<1>6. ASSUME NEW ws \in SUBSET Worker, U!Crash(ws) PROVE HandlersInv'
  BY <1>6, ForgetKeeps DEF U!Crash
<1> QED
  BY <1>1, <1>2, <1>3, <1>4, <1>5, <1>6 DEF U!Next

-----------------------------------------------------------------------------
(* Steps of a reconciler.                                                  *)

(* It changes membership only as the rows say, or as they said when it     *)
(* looked.                                                                 *)
LEMMA ReconActs ==
  ASSUME SystemInv, NEW r \in Process, R!ReconStep(r)
  PROVE  /\ orders' = orders
         /\ active' \subseteq Client
         /\ \A c \in Client :
              \/ c \in active' <=> c \in active
              \/ c \in active' <=> HasOrders(c)
              \/ c \in turned[r]
<1> USE DEF R!PipeExec
<1>1. PassInv(r) /\ active \subseteq Client /\ found[r] \subseteq Client
  BY DEF SystemInv, U!TypeOK, U!StoresTypeOK
<1>2. CASE R!StageOne(r)
  BY <1>1, <1>2 DEF R!StageOne, R!PageOk, R!PagesDone, R!AddOk, R!AddFail, PassInv
<1>3. CASE R!StageTwo(r)
  BY <1>1, <1>3 DEF R!StageTwo, R!ScanOk, R!CheckOk, R!RemoveOk, R!RemoveFail, PassInv
<1>4. CASE R!Lifecycle(r)
  BY <1>1, <1>4 DEF R!Lifecycle, R!Start, R!StartFail, R!Renew, R!RenewFail, R!Unlock, R!Die, R!Abort
<1> QED
  BY <1>2, <1>3, <1>4 DEF R!ReconStep

(* What it looks up is true at that moment.                                *)
LEMMA ReconLooks ==
  ASSUME SystemInv, Observe, NEW r \in Process, R!ReconStep(r)
  PROVE  /\ rstage' \in [Process -> R!Working \cup {"idle", "unlock"}]
         /\ found' \in [Process -> SUBSET Client]
         /\ \A p \in Process : PassInv(p)'
<1> USE DEF R!Enter, R!Working
<1>1. /\ rstage \in [Process -> R!Working \cup {"idle", "unlock"}]
      /\ found \in [Process -> SUBSET Client]
      /\ active \subseteq Client
  BY DEF SystemInv, U!TypeOK, U!StoresTypeOK
<1>2. R!Page(r) \subseteq {c \in Client : HasOrders(c)}
  BY DEF R!Page, R!Smallest, HasOrders, U!HasOrders, R!HasOrders
<1>3. CASE R!PageOk(r)
  <2>1. /\ rstage' = [rstage EXCEPT ![r] = "add"]
        /\ found' = [found EXCEPT ![r] = R!Page(r)]
        /\ orders' = orders
    BY <1>3 DEF R!PageOk
  <2>2. PassInv(r)'
    BY <1>1, <1>2, <2>1 DEF PassInv, HasOrders, U!HasOrders
  <2>3. \A p \in Process \ {r} : PassInv(p)'
    BY <1>1, <2>1, PassKept
  <2> QED
    BY <1>1, <1>2, <2>1, <2>2, <2>3
<1>4. CASE R!CheckOk(r)
  <2>1. PICK ghosts \in SUBSET found[r] :
          /\ ghosts = found[r] \ R!GetActiveClients(found[r])
          /\ found' = [found EXCEPT ![r] = ghosts]
          /\ rstage' \in {[rstage EXCEPT ![r] = s] : s \in {"unlock", "scan", "remove"}}
          /\ orders' = orders
    BY <1>4 DEF R!CheckOk, R!NextScan
  <2>2. \A c \in ghosts : ~HasOrders(c)'
    BY <2>1 DEF R!GetActiveClients, HasOrders, U!HasOrders, R!HasOrders
  <2>3. PassInv(r)'
    BY <1>1, <2>1, <2>2 DEF PassInv
  <2>4. \A p \in Process \ {r} : PassInv(p)'
    BY <1>1, <2>1, PassKept
  <2> QED
    BY <1>1, <2>1, <2>3, <2>4
<1>5. ASSUME /\ \/ rstage' = rstage
                \/ \E s \in {"page", "scan", "check", "unlock", "idle"} :
                     rstage' = [rstage EXCEPT ![r] = s]
             /\ \/ found' = found
                \/ rstage' # rstage /\ \E cs \in SUBSET Client : found' = [found EXCEPT ![r] = cs]
      PROVE  /\ rstage' \in [Process -> R!Working \cup {"idle", "unlock"}]
             /\ found' \in [Process -> SUBSET Client]
             /\ \A p \in Process : PassInv(p)'
  <2>1. \A p \in Process : \/ rstage'[p] = rstage[p] /\ found'[p] = found[p]
                           \/ rstage'[p] \notin {"add", "remove"}
    BY <1>1, <1>5
  <2>2. \A p \in Process : rstage'[p] \notin {"add", "remove"} => PassInv(p)'
    BY DEF PassInv
  <2> QED
    BY <1>1, <1>5, <2>1, <2>2, PassKept
<1>6. CASE R!ScanOk(r)
  <2>1. PICK keys \in SUBSET active :
          /\ found' = [found EXCEPT ![r] = keys]
          /\ rstage' \in {[rstage EXCEPT ![r] = s] : s \in {"unlock", "scan", "check"}}
    BY <1>6 DEF R!ScanOk, R!NextScan
  <2>2. \A p \in Process \ {r} : PassInv(p)'
    BY <1>1, <2>1, PassKept
  <2>3. PassInv(r)'
    BY <1>1, <2>1 DEF PassInv
  <2> QED
    BY <1>1, <2>1, <2>2, <2>3
<1>7. CASE R!RemoveOk(r) \/ R!RemoveFail(r)
  <2>1. /\ found' = [found EXCEPT ![r] = {}]
        /\ rstage[r] = "remove"
        /\ rstage' \in {[rstage EXCEPT ![r] = s] : s \in {"unlock", "scan"}}
    BY <1>7 DEF R!RemoveOk, R!RemoveFail, R!NextScan
  <2> QED
    BY <1>1, <1>5, <2>1
<1>8. CASE R!PagesDone(r) \/ R!AddOk(r) \/ R!AddFail(r)
  BY <1>1, <1>5, <1>8 DEF R!PagesDone, R!AddOk, R!AddFail, R!passVars
<1>9. CASE R!Lifecycle(r)
  BY <1>1, <1>5, <1>9 DEF R!Lifecycle, R!Start, R!StartFail, R!Renew, R!RenewFail, R!Unlock,
     R!Die, R!Abort, R!passVars
<1> QED
  BY <1>3, <1>4, <1>6, <1>7, <1>8, <1>9 DEF R!ReconStep, R!StageOne, R!StageTwo

-----------------------------------------------------------------------------
(* Every step preserves the invariant.                                     *)

LEMMA PassesKept ==
  ASSUME SystemInv, Observe, rstage' = rstage, found' = found
  PROVE  /\ rstage' \in [Process -> R!Working \cup {"idle", "unlock"}]
         /\ found' \in [Process -> SUBSET Client]
         /\ \A r \in Process : PassInv(r)'
BY PassKept DEF SystemInv

LEMMA RacedIsKept ==
  ASSUME NEW cs \in SUBSET Client, Raced(cs), SystemInv
  PROVE  RacedKept /\ raced' \subseteq Client
BY DEF Raced, RacedKept, SystemInv

LEMMA HandlerStepKeeps ==
  ASSUME SystemInv, U!OneWorkerPerClient, Observe, HandlerStep
  PROVE  SystemInv'
<1>1. RacedKept /\ raced' \subseteq Client
  BY RacedIsKept DEF HandlerStep
<1>2. HandlersInv' /\ U!TypeOK'
  BY <1>1, HandlersStep DEF HandlerStep
<1>3. late' = late /\ rstage' = rstage /\ found' = found
  BY DEF HandlerStep, passing
<1> QED
  BY <1>1, <1>2, <1>3, PassesKept DEF SystemInv, HandlersInv

LEMMA HandlerGivesUpKeeps ==
  ASSUME SystemInv, U!OneWorkerPerClient, Observe, NEW w \in Worker, HandlerGivesUp(w)
  PROVE  SystemInv'
<1>1. RacedKept /\ raced' \subseteq Client
  BY RacedIsKept DEF HandlerGivesUp
<1>2. U!Next
  BY DEF HandlerGivesUp, U!Next, U!Step
<1>3. HandlersInv' /\ U!TypeOK'
  BY <1>1, <1>2, HandlersStep
<1>4. rstage' = rstage /\ found' = found
  BY DEF HandlerGivesUp, passing
<1>5. /\ cres[w] \in SUBSET U!OrderKey /\ dels[w] \in SUBSET U!OrderKey
      /\ rems[w] \in SUBSET Client /\ U!ClientsOf(cres[w]) \in SUBSET Client
  BY DEF SystemInv, U!TypeOK, U!ClientsOf, U!OrderKey
<1>6. late' \subseteq Statement \cup Pipeline
  <2>1. PICK command \in Statement \cup Pipeline : late' = late \cup {command}
    BY <1>5 DEF HandlerGivesUp, Outlived, Creates, Deletes, Pipe, Statement, Pipeline
  <2> QED
    BY <2>1 DEF SystemInv
<1> QED
  BY <1>1, <1>3, <1>4, <1>6, PassesKept DEF SystemInv, HandlersInv

(* A late statement races the clients of which it changes rows.            *)
LEMMA LateStatementKeeps ==
  ASSUME SystemInv, Observe, NEW statement \in late, LateStatement(statement)
  PROVE  SystemInv'
<1> DEFINE changed == U!ClientsOf((orders \ orders') \cup (orders' \ orders))
<1> USE DEF LateStatement
<1>1. /\ statement.keys \subseteq U!OrderKey
      /\ orders \subseteq U!OrderKey
      /\ U!TypeOK
      /\ late \subseteq Statement \cup Pipeline
  BY DEF SystemInv, U!TypeOK, U!StoresTypeOK, Statement, Pipeline
<1>2. orders' \subseteq U!OrderKey
  BY <1>1 DEF U!BatchCreateOrders, U!BatchDeleteOrders
<1>3. changed \subseteq Client
  BY <1>1, <1>2 DEF U!ClientsOf, U!OrderKey
<1>4. RacedKept /\ raced' \subseteq Client
  BY <1>3, RacedIsKept
<1>5. ASSUME NEW k \in U!OrderKey
      PROVE  (k \in orders' <=> k \in orders) \/ k.client \in raced'
             \/ (~Disagree(k.client)' /\ ~InFlight(k.client)')
  <2>1. (k \in orders' <=> k \in orders) \/ k.client \in changed
    BY DEF U!ClientsOf
  <2> QED
    BY <2>1 DEF Raced
<1>6. UNCHANGED <<active, phase, cres, dels, rems, tries, ctxDone, stale, rstage, found>>
  BY DEF handling, passing
<1>7. HandlersInv'
  BY <1>2, <1>4, <1>5, <1>6, OthersKeep
<1>8. U!TypeOK'
  BY <1>1, <1>2, <1>6 DEF U!TypeOK, U!StoresTypeOK
<1> QED
  BY <1>1, <1>4, <1>6, <1>7, <1>8, PassesKept DEF SystemInv, HandlersInv

(* A late pipeline races the clients of which it changes the membership.   *)
LEMMA LatePipelineKeeps ==
  ASSUME SystemInv, Observe, NEW pipeline \in late, LatePipeline(pipeline)
  PROVE  SystemInv'
<1> DEFINE changed == {c \in Client : c \in active <=> c \notin active'}
<1> USE DEF LatePipeline
<1>1. /\ pipeline.adds \subseteq Client
      /\ orders \subseteq U!OrderKey /\ active \subseteq Client
      /\ U!TypeOK
      /\ late \subseteq Statement \cup Pipeline
  BY DEF SystemInv, U!TypeOK, U!StoresTypeOK, Statement, Pipeline
<1>2. active' \subseteq Client
  BY <1>1 DEF U!PipeExec
<1>3. RacedKept /\ raced' \subseteq Client
  BY RacedIsKept
<1>4. UNCHANGED <<orders, phase, cres, dels, rems, tries, ctxDone, stale, rstage, found>>
  BY DEF handling, passing
<1>5. ASSUME NEW c \in Client
      PROVE  \/ c \in active' <=> c \in active
             \/ c \in raced'
             \/ ~Disagree(c)'
  <2>1. (c \in active' <=> c \in active) \/ c \in changed
    OBVIOUS
  <2> QED
    BY <2>1 DEF Raced
<1>6. HandlersInv'
  BY <1>1, <1>3, <1>4, <1>5, OthersKeep
<1>7. U!TypeOK'
  BY <1>1, <1>2, <1>4 DEF U!TypeOK, U!StoresTypeOK
<1> QED
  BY <1>1, <1>3, <1>4, <1>6, <1>7, PassesKept DEF SystemInv, HandlersInv

(* A query changes nothing.                                                *)
LEMMA StillKeeps ==
  ASSUME SystemInv, Observe,
         UNCHANGED <<orders, active, late, raced, phase, cres, dels, rems, tries, ctxDone,
                     stale, rstage, found>>
  PROVE  SystemInv'
<1>1. U!TypeOK' /\ orders' \subseteq U!OrderKey
  BY DEF SystemInv, U!TypeOK, U!StoresTypeOK
<1>2. HandlersInv'
  BY <1>1, OthersKeep DEF RacedKept
<1> QED
  BY <1>1, <1>2, PassesKept DEF SystemInv, HandlersInv

LEMMA ReconStepKeeps ==
  ASSUME SystemInv, Observe, ReconStep
  PROVE  SystemInv'
<1>1. UNCHANGED <<late, phase, cres, dels, rems, tries, ctxDone, stale>>
  BY DEF ReconStep, handling
<1>2. CASE R!Minute /\ UNCHANGED raced
  BY <1>1, <1>2, StillKeeps DEF R!Minute, R!passVars
<1>3. ASSUME NEW r \in Process, R!ReconStep(r),
             Raced({c \in turned[r] : c \in active <=> c \notin active'})
      PROVE  SystemInv'
  <2>1. /\ orders' = orders
        /\ active' \subseteq Client
        /\ \A c \in Client :
             \/ c \in active' <=> c \in active
             \/ c \in active' <=> HasOrders(c)
             \/ c \in turned[r]
    BY <1>3, ReconActs
  <2>2. {c \in turned[r] : c \in active <=> c \notin active'} \subseteq Client
    BY <2>1 DEF SystemInv, U!TypeOK, U!StoresTypeOK
  <2>3. RacedKept /\ raced' \subseteq Client
    BY <1>3, <2>2, RacedIsKept
  <2>4. \A c : HasOrders(c)' <=> HasOrders(c)
    BY <2>1 DEF HasOrders, U!HasOrders
  <2>5. ASSUME NEW c \in Client
        PROVE  \/ c \in active' <=> c \in active
               \/ c \in raced'
               \/ ~Disagree(c)'
    BY <1>3, <2>1, <2>4 DEF Raced, Disagree
  <2>6. U!TypeOK' /\ orders' \subseteq U!OrderKey
    BY <1>1, <2>1 DEF SystemInv, U!TypeOK, U!StoresTypeOK
  <2>7. HandlersInv'
    BY <1>1, <2>1, <2>3, <2>5, <2>6, OthersKeep
  <2> QED
    BY <1>1, <1>3, <2>3, <2>6, <2>7, ReconLooks DEF SystemInv, HandlersInv
<1> QED
  BY <1>2, <1>3 DEF ReconStep

LEMMA SystemInvStep ==
  ASSUME U!OneWorkerPerClient
  PROVE  SystemInv /\ [Next]_vars => SystemInv'
<1> SUFFICES ASSUME SystemInv, [Next]_vars PROVE SystemInv'
  OBVIOUS
<1>1. CASE HandlerStep /\ Observe
  BY <1>1, HandlerStepKeeps
<1>2. ASSUME NEW w \in Worker, HandlerGivesUp(w), Observe PROVE SystemInv'
  BY <1>2, HandlerGivesUpKeeps
<1>3. ASSUME NEW statement \in late, LateStatement(statement), Observe PROVE SystemInv'
  BY <1>3, LateStatementKeeps
<1>4. ASSUME NEW pipeline \in late, LatePipeline(pipeline), Observe PROVE SystemInv'
  BY <1>4, LatePipelineKeeps
<1>5. CASE QueryStep /\ Observe
  <2>1. UNCHANGED <<orders, active>>
    BY <1>5 DEF QueryStep, Q!CliStep, Q!Arrive, Q!Answer, Q!ShortCircuit, Q!HitActive,
       Q!GetOrders, Q!GetOrdersTruncated, Q!QueryError, Q!Sent
  <2> QED
    BY <1>5, <2>1, StillKeeps DEF QueryStep, handling, passing
<1>6. CASE ReconStep /\ Observe
  BY <1>6, ReconStepKeeps
<1>7. CASE UNCHANGED vars
  <2>1. UNCHANGED <<orders, active, late, raced, turned, phase, cres, dels, rems, tries, ctxDone,
                    stale, rstage, found>>
    BY <1>7 DEF vars, handling, passing, observed
  <2>2. HandlersInv'
    BY <2>1, OthersKeep DEF RacedKept, SystemInv, U!TypeOK, U!StoresTypeOK
  <2>3. ASSUME NEW r \in Process PROVE PassInv(r)'
    <3>1. PassInv(r)
      BY DEF SystemInv
    <3> QED
      BY <2>1, <3>1 DEF PassInv, HasOrders, U!HasOrders
  <2> QED
    BY <2>1, <2>2, <2>3 DEF SystemInv, HandlersInv, U!TypeOK, U!StoresTypeOK
<1> QED
  BY <1>1, <1>2, <1>3, <1>4, <1>5, <1>6, <1>7 DEF Next

-----------------------------------------------------------------------------
(* The theorems.                                                           *)

(* Whatever handlers, late commands, queries and reconcilers interleave,   *)
(* the invariant that relates the locals of the handlers and of the passes *)
(* to the two stores holds.                                                *)
THEOREM SystemSafe ==
  ASSUME U!OneWorkerPerClient
  PROVE  Spec => []SystemInv
<1>1. SystemInv /\ [Next]_vars => SystemInv'
  BY SystemInvStep
<1> QED
  BY <1>1, InitSystemInv, PTL DEF Spec

(* MySQL and Redis agree about every client with no batch running, unless  *)
(* its last update of Redis was lost, a late statement changed its rows or *)
(* a late pipeline its membership, or a reconciler acted on an answer that *)
(* had turned.                                                             *)
THEOREM DisagreementsExplained ==
  ASSUME U!OneWorkerPerClient
  PROVE  Spec => []DisagreementExplained
<1>1. SystemInv => DisagreementExplained
  BY DEF SystemInv
<1> QED
  BY <1>1, SystemSafe, PTL

-----------------------------------------------------------------------------
(* What the query server answers.                                          *)

(* What was seen of a request under way includes the present; what it was  *)
(* answered was seen, or is a part of it if rows were lost.                *)
QueryInv(q) ==
  /\ qstage[q] \in {"check", "fetch"} =>
       /\ qclient[q] \in Client
       /\ ItemsOf(qclient[q]) \in seen[q]
       /\ Excuse(qclient[q]) => excused[q]
  /\ qstage[q] = "done" /\ reply[q].status = "ok" /\ ~excused[q] => Current(q)

AnswersInv == Q!CliTypeOK /\ \A q \in Request : QueryInv(q)

(* A client outside the set that nothing excuses has no orders.            *)
LEMMA HiddenIsEmpty ==
  ASSUME SystemInv, NEW c \in Client, c \notin active, ~Excuse(c)
  PROVE  ItemsOf(c) = {}
<1>1. ~HasOrders(c)
  <2>1. CASE InFlight(c)
    <3>1. PICK w \in Worker : phase[w] \in U!Running /\ c \in U!Touched(w)
      BY <2>1 DEF InFlight, U!InFlight
    <3>2. c \in U!DelOnly(w)
      BY <3>1 DEF U!Touched, U!DelOnly, Excuse, Creating
    <3> QED
      BY <3>1, <3>2 DEF SystemInv, BatchInv, Excuse
  <2>2. CASE ~InFlight(c)
    BY <2>2 DEF SystemInv, DisagreementExplained, Disagree, Excuse
  <2> QED
    BY <2>1, <2>2
<1> QED
  BY <1>1 DEF ItemsOf, Q!ItemsOf, HasOrders, U!HasOrders

(* As long as a request is under way, everything is seen.                  *)
LEMMA UnderWay ==
  ASSUME Observe, NEW q \in Request, qstage'[q] \in {"check", "fetch"}
  PROVE  /\ ItemsOf(qclient[q])' \in seen'[q]
         /\ Excuse(qclient[q])' => excused'[q]
BY DEF Observe

LEMMA InitAnswers == Init => AnswersInv
BY DEF Init, Q!CliInit, AnswersInv, QueryInv, Q!CliTypeOK, Q!Reply, Q!NoReply

LEMMA RepliesStay ==
  ASSUME AnswersInv, Observe, UNCHANGED querying
  PROVE  AnswersInv'
<1>1. ASSUME NEW q \in Request PROVE QueryInv(q)'
  <2>1. QueryInv(q) /\ UNCHANGED <<qstage, qclient, reply, cut>>
    BY DEF AnswersInv, querying
  <2>2. CASE qstage[q] \in {"check", "fetch"}
    BY <2>1, <2>2, UnderWay DEF QueryInv
  <2>3. CASE qstage[q] = "done"
    <3>1. seen'[q] = seen[q] /\ excused'[q] = excused[q]
      BY <2>1, <2>3 DEF Observe
    <3> QED
      BY <2>1, <2>3, <3>1 DEF QueryInv, Current
  <2>4. CASE qstage[q] \notin {"check", "fetch", "done"}
    BY <2>1, <2>4 DEF QueryInv
  <2> QED
    BY <2>2, <2>3, <2>4
<1> QED
  BY <1>1 DEF AnswersInv, querying, Q!CliTypeOK

(* An answer is what the rows say now, or a part of it if rows were lost,  *)
(* or empty for a client that is rightly hidden.                           *)
LEMMA QueryStepAnswers ==
  ASSUME SystemInv, AnswersInv, Observe, NEW p \in Request, Q!CliStep(p)
  PROVE  AnswersInv'
<1> USE DEF Q!Arrive, Q!Answer, Q!ShortCircuit, Q!HitActive, Q!GetOrders,
        Q!GetOrdersTruncated, Q!QueryError, Q!Sent
<1>1. Q!CliTypeOK /\ QueryInv(p)
  BY DEF AnswersInv
<1>2. \A c : ItemsOf(c) \subseteq Item
  BY DEF SystemInv, U!TypeOK, U!StoresTypeOK, U!OrderKey, ItemsOf, Q!ItemsOf
<1>3. Q!CliTypeOK'
  <2>1. \A status \in {"none", "ok", "error"}, items \in SUBSET Item :
          [status |-> status, items |-> items] \in Q!Reply
    BY DEF Q!Reply
  <2>2. \A c : Q!ItemsOf(c) \subseteq Item
    BY <1>2 DEF ItemsOf
  <2>3. \E r \in Q!Reply : UNCHANGED reply \/ reply' = [reply EXCEPT ![p] = r]
    BY <2>1, <2>2 DEF Q!CliStep, Q!NoReply
  <2>4. \E s \in {"idle", "check", "fetch", "done"} : qstage' = [qstage EXCEPT ![p] = s]
    BY DEF Q!CliStep
  <2>5. \E c \in Client \cup {None} : UNCHANGED qclient \/ qclient' = [qclient EXCEPT ![p] = c]
    BY DEF Q!CliStep
  <2>6. cut' \subseteq cut \cup {p}
    BY DEF Q!CliStep
  <2> QED
    BY <1>1, <2>3, <2>4, <2>5, <2>6 DEF Q!CliTypeOK
<1>4. QueryInv(p)'
  <2>1. ASSUME NEW c \in Client, Q!Arrive(p, c) PROVE QueryInv(p)'
    BY <1>1, <2>1, UnderWay DEF QueryInv, Q!CliTypeOK
  <2>2. CASE Q!HitActive(p)
    BY <1>1, <2>2, UnderWay DEF QueryInv, Q!CliTypeOK
  <2>3. ASSUME qstage'[p] = "done" PROVE seen'[p] = seen[p] /\ excused'[p] = excused[p]
    BY <2>3 DEF Observe
  <2>4. CASE Q!ShortCircuit(p)
    <3>1. /\ qstage'[p] = "done" /\ reply'[p].items = {}
          /\ qstage[p] = "check" /\ qclient[p] \notin active
      BY <1>1, <2>4 DEF Q!CliTypeOK
    <3>2. ~excused[p] => {} \in seen[p]
      BY <1>1, <3>1, HiddenIsEmpty DEF QueryInv
    <3> QED
      BY <2>3, <3>1, <3>2 DEF QueryInv, Current
  <2>5. CASE Q!GetOrders(p)
    <3>1. /\ qstage'[p] = "done" /\ reply'[p].items = ItemsOf(qclient[p])
          /\ qstage[p] = "fetch"
      BY <1>1, <2>5 DEF Q!CliTypeOK, ItemsOf
    <3> QED
      BY <1>1, <2>3, <3>1 DEF QueryInv, Current
  <2>6. CASE Q!GetOrdersTruncated(p)
    <3>1. /\ qstage'[p] = "done" /\ reply'[p].items \subseteq ItemsOf(qclient[p])
          /\ qstage[p] = "fetch" /\ p \in cut'
      BY <1>1, <2>6 DEF Q!CliTypeOK, ItemsOf
    <3> QED
      BY <1>1, <2>3, <3>1 DEF QueryInv, Current
  <2>7. CASE Q!QueryError(p)
    <3>1. qstage'[p] = "done" /\ reply'[p].status # "ok"
      BY <1>1, <2>7 DEF Q!CliTypeOK
    <3> QED
      BY <3>1 DEF QueryInv
  <2>8. CASE Q!Sent(p)
    BY <1>1, <2>8 DEF QueryInv, Q!CliTypeOK
  <2> QED
    BY <2>1, <2>2, <2>4, <2>5, <2>6, <2>7, <2>8 DEF Q!CliStep
<1>5. ASSUME NEW q \in Request, q # p PROVE QueryInv(q)'
  <2>1. /\ qstage'[q] = qstage[q] /\ qclient'[q] = qclient[q] /\ reply'[q] = reply[q]
        /\ q \in cut' <=> q \in cut
        /\ QueryInv(q)
    BY <1>1, <1>5 DEF Q!CliStep, Q!CliTypeOK, AnswersInv
  <2>2. CASE qstage[q] \in {"check", "fetch"}
    BY <2>1, <2>2, UnderWay DEF QueryInv
  <2>3. CASE qstage[q] = "done"
    <3>1. seen'[q] = seen[q] /\ excused'[q] = excused[q]
      BY <2>1, <2>3 DEF Observe
    <3> QED
      BY <2>1, <2>3, <3>1 DEF QueryInv, Current
  <2>4. CASE qstage[q] \notin {"check", "fetch", "done"}
    BY <2>1, <2>4 DEF QueryInv
  <2> QED
    BY <2>2, <2>3, <2>4
<1> QED
  BY <1>3, <1>4, <1>5 DEF AnswersInv

LEMMA AnswersStep ==
  ASSUME SystemInv, AnswersInv, [Next]_vars
  PROVE  AnswersInv'
<1>1. CASE UNCHANGED vars
  <2>1. UNCHANGED <<orders, active, stale, raced, phase, cres, qstage, qclient, reply, cut, seen,
                    excused>>
    BY <1>1 DEF vars, querying, handling, observed
  <2>2. ASSUME NEW q \in Request PROVE QueryInv(q)'
    <3>1. QueryInv(q)
      BY DEF AnswersInv
    <3> QED
      BY <2>1, <3>1 DEF QueryInv, Current, ItemsOf, Q!ItemsOf, Excuse, Creating, U!ClientsOf
  <2> QED
    BY <2>1, <2>2 DEF AnswersInv, Q!CliTypeOK
<1>2. CASE QueryStep /\ Observe
  BY <1>2, QueryStepAnswers DEF QueryStep
<1>3. CASE Next /\ ~QueryStep
  BY <1>3, RepliesStay DEF Next, HandlerStep, HandlerGivesUp, LateStatement, LatePipeline,
     ReconStep
<1> QED
  BY <1>1, <1>2, <1>3 DEF Next

(* An answer with status 200 shows the client's orders at one moment of    *)
(* the request, or a part of them if GetOrders lost rows, which it does    *)
(* not tell; nothing is said if meanwhile a batch with creates for the     *)
(* client was running, an update of Redis was lost, a late statement or    *)
(* pipeline had changed its rows or its membership, or a reconciler had    *)
(* acted on an answer that had turned.                                     *)
THEOREM AnswersCurrent ==
  ASSUME U!OneWorkerPerClient
  PROVE  Spec => []AnswersAreCurrent
<1>1. AnswersInv => AnswersAreCurrent
  BY DEF AnswersInv, QueryInv, AnswersAreCurrent
<1>2. AnswersInv /\ SystemInv /\ [Next]_vars => AnswersInv'
  BY AnswersStep
<1> QED
  BY <1>1, <1>2, InitAnswers, SystemSafe, PTL DEF Spec

-----------------------------------------------------------------------------
(* What a pass repairs, by the proof for the reconciler alone.             *)

LEMMA SameRecon ==
  /\ R!ReconTypeOK <=> RP!ReconTypeOK
  /\ R!ReconTypeOK' <=> RP!ReconTypeOK'
  /\ R!Minute <=> RP!Minute
  /\ \A r : R!ReconStep(r) <=> RP!ReconStep(r)
  /\ \A r, c : R!SweptInv(r, c) <=> RP!SweptInv(r, c)
  /\ \A r, c : R!SweptInv(r, c)' <=> RP!SweptInv(r, c)'
<1>1. R!Working = RP!Working /\ \A c : R!HasOrders(c) <=> RP!HasOrders(c)
  BY DEF R!Working, RP!Working, R!HasOrders, RP!HasOrders
<1>2. (R!ReconTypeOK <=> RP!ReconTypeOK) /\ (R!ReconTypeOK' <=> RP!ReconTypeOK')
  BY <1>1 DEF R!ReconTypeOK, RP!ReconTypeOK
<1>3. R!Minute <=> RP!Minute
  BY <1>1 DEF R!Minute, RP!Minute, R!lockVars, RP!lockVars, R!passVars, RP!passVars
<1>4. ASSUME NEW r PROVE R!ReconStep(r) <=> RP!ReconStep(r)
  <2> USE DEF R!Enter, RP!Enter, R!Mishap, RP!Mishap, R!lockVars, RP!lockVars,
       R!passVars, RP!passVars, R!watchVars, RP!watchVars, R!PipeExec, RP!PipeExec
  <2>1. R!Page(r) = RP!Page(r)
    <3>1. \A S : R!Cardinality(S) = RP!Cardinality(S)
      BY DEF R!Cardinality, RP!Cardinality
    <3> QED
      BY <1>1, <3>1 DEF R!Page, RP!Page, R!Smallest, RP!Smallest
  <2>2. R!StageOne(r) <=> RP!StageOne(r)
    BY <2>1 DEF R!StageOne, RP!StageOne, R!PageOk, RP!PageOk, R!PagesDone, RP!PagesDone,
       R!AddOk, RP!AddOk, R!AddFail, RP!AddFail, R!Max, RP!Max
  <2>3. R!StageTwo(r) <=> RP!StageTwo(r)
    BY <1>1 DEF R!StageTwo, RP!StageTwo, R!ScanOk, RP!ScanOk, R!CheckOk, RP!CheckOk,
       R!RemoveOk, RP!RemoveOk, R!RemoveFail, RP!RemoveFail, R!NextScan, RP!NextScan,
       R!OwedKeeps, RP!OwedKeeps, R!GetActiveClients, RP!GetActiveClients
  <2>4. R!Lifecycle(r) <=> RP!Lifecycle(r)
    BY <1>1 DEF R!Lifecycle, RP!Lifecycle, R!Start, RP!Start, R!StartFail, RP!StartFail,
       R!Renew, RP!Renew, R!RenewFail, RP!RenewFail, R!Unlock, RP!Unlock, R!Die, RP!Die,
       R!Abort, RP!Abort
  <2> QED
    BY <2>2, <2>3, <2>4 DEF R!ReconStep, RP!ReconStep
<1>5. \A r, c : R!SweptInv(r, c) <=> RP!SweptInv(r, c)
  BY <1>1 DEF R!SweptInv, RP!SweptInv
<1>6. \A r, c : R!SweptInv(r, c)' <=> RP!SweptInv(r, c)'
  BY <1>1 DEF R!SweptInv, RP!SweptInv, R!HasOrders, RP!HasOrders
<1> QED
  BY <1>2, <1>3, <1>4, <1>5, <1>6

LEMMA ReconAssumed == RP!ReconAssumption
  BY SystemAssumption DEF RP!ReconAssumption

(* A step that leaves the locals of the reconcilers alone.                 *)
LEMMA ReconIdles ==
  ASSUME RepairInv, SystemInv', Observe, UNCHANGED passing,
         owed' = [r \in Process |-> owed[r] \cap active']
  PROVE  RepairInv'
<1>1. R!ReconTypeOK'
  BY DEF RepairInv, R!ReconTypeOK, passing
<1>2. ASSUME NEW r \in Process PROVE turned'[r] \subseteq disturbed'[r]
  BY <1>2 DEF Observe, RepairInv
<1>3. ASSUME NEW r \in Process, clean'[r], NEW c \in Client \ disturbed'[r]
      PROVE  R!SweptInv(r, c)'
  <2>1. /\ rstage' = rstage /\ cursor' = cursor /\ found' = found
        /\ final' = final /\ clean' = clean
    BY DEF passing
  <2>2. CASE rstage[r] = "idle"
    BY <2>1, <2>2 DEF R!SweptInv
  <2>3. CASE rstage[r] # "idle"
    <3>1. c \notin disturbed[r] \cup Turning /\ (c \in active' <=> c \in active)
      BY <1>3, <2>1, <2>3 DEF Observe
    <3>2. R!HasOrders(c)' <=> R!HasOrders(c)
      BY <3>1 DEF Turning, HasOrders, U!HasOrders, R!HasOrders
    <3>3. R!SweptInv(r, c)
      BY <1>3, <2>1, <3>1 DEF RepairInv
    <3> QED
      BY <2>1, <3>1, <3>2, <3>3 DEF R!SweptInv
  <2> QED
    BY <2>2, <2>3
<1> QED
  BY <1>1, <1>2, <1>3 DEF RepairInv

LEMMA OtherReconcilers ==
  ASSUME RepairInv, NEW q \in Process, NEW r \in Process, r # q, R!ReconStep(q)
  PROVE  /\ rstage'[r] = rstage[r] /\ cursor'[r] = cursor[r] /\ found'[r] = found[r]
         /\ final'[r] = final[r] /\ clean'[r] = clean[r]
         /\ \A c : c \in owed[r] /\ c \in active' => c \in owed'[r]
<1> USE DEF RepairInv, R!ReconTypeOK, R!Enter, R!passVars, R!watchVars
<1>1. CASE R!StageOne(q)
  BY <1>1 DEF R!StageOne, R!PageOk, R!PagesDone, R!AddOk, R!AddFail
<1>2. CASE R!StageTwo(q)
  BY <1>2 DEF R!StageTwo, R!ScanOk, R!CheckOk, R!RemoveOk, R!RemoveFail, R!NextScan,
     R!OwedKeeps
<1>3. CASE R!Lifecycle(q)
  BY <1>3 DEF R!Lifecycle, R!Start, R!StartFail, R!Renew, R!RenewFail, R!Unlock,
     R!Die, R!Abort
<1> QED
  BY <1>1, <1>2, <1>3 DEF R!ReconStep

(* A step of reconciler q.                                                 *)
LEMMA ReconMoves ==
  ASSUME RepairInv, SystemInv, Observe, NEW q \in Process, R!ReconStep(q), UNCHANGED orders
  PROVE  RepairInv'
<1>0. RP!ReconTypeOK /\ RP!ReconStep(q) /\ RP!ReconNext /\ active \subseteq Client
  BY SameRecon DEF RepairInv, RP!ReconNext, SystemInv, U!TypeOK, U!StoresTypeOK
<1>1. R!ReconTypeOK'
  BY <1>0, SameRecon, ReconAssumed, RP!ReconTypeStep
<1>2. ASSUME NEW r \in Process PROVE turned'[r] \subseteq disturbed'[r]
  BY DEF Observe, RepairInv
<1>3. ASSUME NEW r \in Process, clean'[r], NEW c \in Client \ disturbed'[r]
      PROVE  R!SweptInv(r, c)'
  <2>1. CASE rstage'[r] = "idle"
    BY <2>1 DEF R!SweptInv
  <2>2. CASE rstage'[r] # "idle"
    <3>1. c \notin disturbed[r] \cup Turning
      BY <1>3, <2>2 DEF Observe
    <3>2. clean[r] => R!SweptInv(r, c)
      BY <1>3, <3>1 DEF RepairInv
    <3>3. CASE r = q
      <4>1. RP!FoundInv(r, c)
        <5>1. c \notin turned[r]
          BY <3>1 DEF RepairInv
        <5>2. PassInv(r)
          BY DEF SystemInv
        <5> QED
          BY <5>1, <5>2 DEF PassInv, RP!FoundInv, HasOrders, U!HasOrders, RP!HasOrders
      <4>2. clean[r] => RP!SweptInv(r, c)
        BY <3>2, SameRecon
      <4>3. RP!SweptInv(r, c)'
        BY <1>0, <1>3, <3>3, <4>1, <4>2, ReconAssumed, RP!SweptOwnStep
      <4> QED
        BY <4>3, SameRecon
    <3>4. CASE r # q
      <4>1. /\ rstage'[r] = rstage[r] /\ cursor'[r] = cursor[r] /\ found'[r] = found[r]
            /\ final'[r] = final[r] /\ clean'[r] = clean[r]
            /\ c \in owed[r] /\ c \in active' => c \in owed'[r]
        BY <3>4, OtherReconcilers
      <4>2. c \in active' <=> c \in active
        BY <1>3, <2>2, <4>1 DEF Observe
      <4>3. R!HasOrders(c)' <=> R!HasOrders(c)
        BY DEF R!HasOrders
      <4> QED
        BY <1>3, <3>2, <4>1, <4>2, <4>3 DEF R!SweptInv
    <3> QED
      BY <3>3, <3>4
  <2> QED
    BY <2>1, <2>2
<1> QED
  BY <1>1, <1>2, <1>3 DEF RepairInv

(* A step that keeps the set and what the iterations are owed.             *)
LEMMA OwedStays ==
  ASSUME RepairInv, UNCHANGED <<active, owed>>
  PROVE  owed' = [r \in Process |-> owed[r] \cap active']
<1>1. owed \in [Process -> SUBSET active]
  BY DEF RepairInv, R!ReconTypeOK
<1>2. \A r \in Process : owed[r] = owed[r] \cap active
  BY <1>1
<1> QED
  BY <1>1, <1>2

LEMMA InitRepair == Init => RepairInv
<1> SUFFICES ASSUME Init PROVE RepairInv
  OBVIOUS
<1> USE SystemAssumption DEF Init, R!ReconInit
<1>1. R!ReconTypeOK
  <2>1. age \in 0 .. LockTTL - 1 /\ mishaps \in 0 .. MaxMishaps
    OBVIOUS
  <2>2. timer \in [Process -> 0 .. RenewIntvl] /\ missed \in [Process -> Nat]
    OBVIOUS
  <2>3. lock \in Process \cup {None} /\ cursor \in [Process -> Client \cup {0}]
    OBVIOUS
  <2>4. /\ rstage \in [Process -> R!Working \cup {"idle", "unlock"}]
        /\ found \in [Process -> SUBSET Client] /\ final \in [Process -> BOOLEAN]
        /\ owed \in [Process -> SUBSET active] /\ clean \in [Process -> BOOLEAN]
    OBVIOUS
  <2> QED
    BY <2>1, <2>2, <2>3, <2>4 DEF R!ReconTypeOK
<1> QED
  BY <1>1 DEF RepairInv

LEMMA RepairStep ==
  ASSUME RepairInv, SystemInv, SystemInv', [Next]_vars
  PROVE  RepairInv'
<1>1. CASE UNCHANGED vars
  <2>1. UNCHANGED <<orders, active, lock, age, rstage, cursor, found, final, timer, owed,
                    missed, clean, mishaps, turned, disturbed>>
    BY <1>1 DEF vars, passing, observed
  <2>2. R!ReconTypeOK'
    BY <2>1 DEF RepairInv, R!ReconTypeOK
  <2>3. ASSUME NEW r \in Process, NEW c PROVE R!SweptInv(r, c) => R!SweptInv(r, c)'
    BY <2>1 DEF R!SweptInv, R!HasOrders
  <2> QED
    BY <2>1, <2>2, <2>3 DEF RepairInv
<1>2. CASE HandlerStep /\ Observe
  BY <1>2, ReconIdles DEF HandlerStep, R!OwedKeeps
<1>3. ASSUME NEW w \in Worker, HandlerGivesUp(w), Observe PROVE RepairInv'
  <2>1. UNCHANGED <<active, owed, passing>>
    BY <1>3 DEF HandlerGivesUp, Outlived
  <2> QED
    BY <1>3, <2>1, OwedStays, ReconIdles
<1>4. ASSUME NEW statement \in late, LateStatement(statement), Observe PROVE RepairInv'
  BY <1>4, OwedStays, ReconIdles DEF LateStatement
<1>5. ASSUME NEW pipeline \in late, LatePipeline(pipeline), Observe PROVE RepairInv'
  BY <1>5, ReconIdles DEF LatePipeline, R!OwedKeeps
<1>6. CASE QueryStep /\ Observe
  <2>1. UNCHANGED active
    BY <1>6 DEF QueryStep, Q!CliStep, Q!Arrive, Q!Answer, Q!ShortCircuit, Q!HitActive,
       Q!GetOrders, Q!GetOrdersTruncated, Q!QueryError, Q!Sent
  <2> QED
    BY <1>6, <2>1, OwedStays, ReconIdles DEF QueryStep
<1>7. CASE R!Minute /\ Observe
  <2>1. RP!ReconTypeOK /\ RP!ReconNext /\ active \subseteq Client
    BY <1>7, SameRecon DEF RepairInv, RP!ReconNext, SystemInv, U!TypeOK, U!StoresTypeOK
  <2>2. R!ReconTypeOK'
    BY <2>1, SameRecon, ReconAssumed, RP!ReconTypeStep
  <2>3. UNCHANGED <<orders, active, rstage, cursor, found, final, owed, clean>>
    BY <1>7 DEF R!Minute, R!passVars
  <2>4. ASSUME NEW r \in Process PROVE turned'[r] \subseteq disturbed'[r]
    BY <1>7 DEF Observe, RepairInv
  <2>5. ASSUME NEW r \in Process, clean'[r], NEW c \in Client \ disturbed'[r]
        PROVE  R!SweptInv(r, c)'
    <3>1. CASE rstage[r] = "idle"
      BY <2>3, <3>1 DEF R!SweptInv
    <3>2. CASE rstage[r] # "idle"
      <4>1. R!SweptInv(r, c)
        BY <1>7, <2>3, <2>5, <3>2 DEF Observe, RepairInv
      <4> QED
        BY <2>3, <4>1 DEF R!SweptInv, R!HasOrders
    <3> QED
      BY <3>1, <3>2
  <2> QED
    BY <2>2, <2>4, <2>5 DEF RepairInv
<1>8. ASSUME NEW q \in Process, R!ReconStep(q), Observe PROVE RepairInv'
  <2>1. UNCHANGED orders
    BY <1>8, ReconActs
  <2> QED
    BY <1>8, <2>1, ReconMoves
<1> QED
  BY <1>1, <1>2, <1>3, <1>4, <1>5, <1>6, <1>7, <1>8 DEF Next, ReconStep

(* A pass of the reconciler that met no error leaves the stores agreeing   *)
(* about every client nobody disturbed since the pass began.               *)
THEOREM PassesRepair ==
  ASSUME U!OneWorkerPerClient
  PROVE  Spec => []PassRepairs
<1>1. RepairInv => PassRepairs
  BY DEF RepairInv, PassRepairs, R!SweptInv, Disagree, HasOrders, U!HasOrders, R!HasOrders
<1>2. RepairInv /\ SystemInv /\ SystemInv' /\ [Next]_vars => RepairInv'
  BY RepairStep
<1> QED
  BY <1>1, <1>2, InitRepair, SystemSafe, PTL DEF Spec

-----------------------------------------------------------------------------
(* Types.                                                                  *)

LateInv == IsFiniteSet(late) /\ Cardinality(late) <= MaxLate

LEMMA LateStep ==
  ASSUME LateInv, [Next]_vars
  PROVE  LateInv'
<1>1. CASE late' = late
  BY <1>1 DEF LateInv
<1>2. ASSUME NEW statement, late' = late \cup {statement}, Cardinality(late') <= MaxLate
      PROVE  LateInv'
  BY <1>2, FS_AddElement DEF LateInv
<1>3. ASSUME NEW statement, late' = late \ {statement} PROVE LateInv'
  <2>1. IsFiniteSet(late') /\ Cardinality(late') <= Cardinality(late)
    BY <1>3, FS_Subset DEF LateInv
  <2>2. Cardinality(late') \in Nat /\ Cardinality(late) \in Nat
    BY <2>1, FS_CardinalityType DEF LateInv
  <2> QED
    BY <2>1, <2>2, SystemAssumption DEF LateInv
<1> QED
  BY <1>1, <1>2, <1>3 DEF Next, HandlerStep, HandlerGivesUp, Outlived, LateStatement,
     LatePipeline, QueryStep, ReconStep, vars

(* All variables of the system keep their types, and no more commands      *)
(* outlive their handlers than the bound.                                  *)
THEOREM SystemTypeCorrect ==
  ASSUME U!OneWorkerPerClient
  PROVE  Spec => []TypeOK
<1>1. Init => LateInv
  BY FS_EmptySet, SystemAssumption DEF Init, LateInv
<1>2. LateInv /\ [Next]_vars => LateInv'
  BY LateStep
<1>3. AnswersInv /\ SystemInv /\ [Next]_vars => AnswersInv'
  BY AnswersStep
<1>4. RepairInv /\ SystemInv /\ SystemInv' /\ [Next]_vars => RepairInv'
  BY RepairStep
<1>5. LateInv /\ AnswersInv /\ RepairInv /\ SystemInv => TypeOK
  BY DEF LateInv, AnswersInv, RepairInv, SystemInv, TypeOK
<1> QED
  BY <1>1, <1>2, <1>3, <1>4, <1>5, InitAnswers, InitRepair, SystemSafe, PTL DEF Spec

=============================================================================
