---------------------------- MODULE UpdSvr_proofs ----------------------------
(***************************************************************************)
(* Proofs about HandleBatch, for any sets of clients, items and workers    *)
(* and any number of retries.  The only hypothesis is that no two workers   *)
(* are given records of the same client at the same time, which            *)
(* OneWorkerPerClient implies.                                             *)
(***************************************************************************)
EXTENDS UpdSvr, TLAPS

-----------------------------------------------------------------------------
(* The initial states satisfy the inductive invariant.                     *)
LEMMA InitHandlerInv == Init => HandlerInv
<1> SUFFICES ASSUME Init PROVE HandlerInv
  OBVIOUS
<1>1. TypeOK
  BY UpdSvrAssumption DEF Init, StoresInit, HandlerInit, TypeOK, StoresTypeOK, Phase
<1>2. ASSUME NEW w \in Worker PROVE BatchInv(w)
  BY UpdSvrAssumption DEF Init, StoresInit, HandlerInit, BatchInv, Touched, DelOnly,
     ClientsOf, Running
<1>3. SyncedClientsAgree
  BY DEF Init, StoresInit, SyncedClientsAgree, HasOrders
<1> QED
  BY <1>1, <1>2, <1>3 DEF HandlerInv

-----------------------------------------------------------------------------
(* Every step preserves the types.                                         *)
LEMMA TypeStep == TypeOK /\ [Next]_vars => TypeOK'
<1> SUFFICES ASSUME TypeOK, [Next]_vars PROVE TypeOK'
  OBVIOUS
<1> USE UpdSvrAssumption DEF TypeOK, StoresTypeOK, Phase
<1>1. ASSUME NEW w \in Worker, Call(w) PROVE TypeOK'
  <2>1. PICK cs \in SUBSET OrderKey, ds \in SUBSET OrderKey, done \in BOOLEAN :
               Begin(w, cs, ds, done)
    BY <1>1 DEF Call, OrderKey
  <2> QED
    BY <2>1 DEF Begin, Goto
<1>2. ASSUME NEW ws \in SUBSET Worker, Expire(ws) PROVE TypeOK'
  BY <1>2 DEF Expire
<1>3. ASSUME NEW w \in Worker, Step(w) PROVE TypeOK'
  <2>0. /\ Touched(w) \subseteq Client
        /\ DelOnly(w) \subseteq Client
    BY DEF Touched, DelOnly, ClientsOf, OrderKey
  <2>1. CASE CreateOk(w)
    BY <2>1 DEF CreateOk, BatchCreateOrders, Goto
  <2>2. CASE CreateFail(w)
    BY <2>2, <2>0 DEF CreateFail, BatchCreateOrders, Goto, RetryOrFail
  <2>3. CASE DeleteOk(w)
    BY <2>3 DEF DeleteOk, BatchDeleteOrders, Goto
  <2>4. CASE DeleteFail(w)
    BY <2>4, <2>0 DEF DeleteFail, BatchDeleteOrders, Goto, RetryOrFail
  <2>5. CASE QueryOk(w)
    BY <2>5, <2>0 DEF QueryOk, Goto
  <2>6. CASE QueryFail(w)
    BY <2>6, <2>0 DEF QueryFail, Goto
  <2>7. CASE SyncOk(w)
    BY <2>7 DEF SyncOk, PipeExec, Goto, ClientsOf, OrderKey
  <2>8. CASE SyncFail(w)
    BY <2>8 DEF SyncFail, PipeExec, Goto, ClientsOf, OrderKey
  <2> QED
    BY <1>3, <2>1, <2>2, <2>3, <2>4, <2>5, <2>6, <2>7, <2>8 DEF Step
<1>4. ASSUME NEW w \in Worker, Return(w) PROVE TypeOK'
  BY <1>4 DEF Return, Forget
<1>5. ASSUME NEW ws \in SUBSET Worker, Crash(ws) PROVE TypeOK'
  BY <1>5 DEF Crash, Forget, Touched, ClientsOf, OrderKey
<1>6. CASE UNCHANGED vars
  BY <1>6 DEF vars, handler
<1> QED
  BY <1>1, <1>2, <1>3, <1>4, <1>5, <1>6 DEF Next

(* HandleBatch keeps the types of its locals and of the stores.            *)
THEOREM TypeCorrect == Spec => []TypeOK
<1>1. Init => TypeOK
  BY InitHandlerInv DEF HandlerInv
<1> QED
  BY <1>1, TypeStep, PTL DEF Spec

-----------------------------------------------------------------------------
(* A step of one worker: what it must establish for its clients T, given   *)
(* that it leaves the clients of the others alone, for the invariant to    *)
(* survive.                                                                *)
Reserved(w, T) == T \subseteq Client /\ \A v \in Worker \ {w} : T \cap Touched(v) = {}

OnlyTouches(w, T) ==
  /\ \A v \in Worker \ {w} :
       /\ phase'[v] = phase[v]
       /\ cres'[v] = cres[v]
       /\ dels'[v] = dels[v]
       /\ rems'[v] = rems[v]
  /\ \A k \in OrderKey : k.client \notin T => (k \in orders' <=> k \in orders)
  /\ \A c \in Client \ T :
       /\ c \in active' <=> c \in active
       /\ c \in stale' <=> c \in stale

ServedAgree(w, T) ==
  \A c \in T :
    c \notin stale /\ ~(phase[w] \in Running /\ c \in Touched(w))
      => (c \in active <=> HasOrders(c))

(* Before the step, the clients that are reserved for a worker agree unless*)
(* it is handling them: no other worker can be.                            *)
LEMMA AgreeBefore ==
  ASSUME HandlerInv, NEW w \in Worker, NEW T, Reserved(w, T)
  PROVE  ServedAgree(w, T)
<1> SUFFICES ASSUME NEW c \in T, c \notin stale,
                    ~(phase[w] \in Running /\ c \in Touched(w))
             PROVE  c \in active <=> HasOrders(c)
  BY DEF ServedAgree
<1>1. c \in Client
  BY DEF Reserved
<1>2. ASSUME NEW v \in Worker, v # w PROVE c \notin Touched(v)
  BY <1>2 DEF Reserved
<1>3. ~InFlight(c)
  BY <1>2 DEF InFlight
<1> QED
  BY <1>1, <1>3 DEF HandlerInv, SyncedClientsAgree

LEMMA Frame ==
  ASSUME HandlerInv, NEW w \in Worker, NEW T, Reserved(w, T),
         phase[w] \in Running => Touched(w) \subseteq T,
         TypeOK', OnlyTouches(w, T), BatchInv(w)', ServedAgree(w, T)'
  PROVE  HandlerInv'
<1>1. ASSUME NEW c \in Client, c \notin T PROVE HasOrders(c)' <=> HasOrders(c)
  BY <1>1 DEF OnlyTouches, HasOrders, HandlerInv, TypeOK, StoresTypeOK, OrderKey
<1>2. ASSUME NEW v \in Worker, v # w PROVE BatchInv(v)'
  <2>1. /\ Touched(v)' = Touched(v)
        /\ DelOnly(v)' = DelOnly(v)
        /\ phase'[v] = phase[v]
        /\ cres'[v] = cres[v]
        /\ dels'[v] = dels[v]
        /\ rems'[v] = rems[v]
    BY <1>2 DEF OnlyTouches, Touched, DelOnly
  <2>2. BatchInv(v)
    BY DEF HandlerInv
  <2>3. /\ Touched(v) \subseteq Client \ T
        /\ DelOnly(v) \subseteq Touched(v)
    BY <1>2, <2>2, UpdSvrAssumption DEF BatchInv, Reserved, Touched, DelOnly
  <2>4. \A c \in Touched(v) : /\ HasOrders(c)' <=> HasOrders(c)
                              /\ c \in active' <=> c \in active
                              /\ c \in stale' <=> c \in stale
    BY <1>1, <2>3 DEF OnlyTouches
  <2>5. /\ \A k \in cres[v] \cup dels[v] : k \in OrderKey /\ k.client \in Touched(v)
    BY DEF Touched, ClientsOf, HandlerInv, TypeOK
  <2>6. \A k \in cres[v] \cup dels[v] : k \in orders' <=> k \in orders
    BY <2>3, <2>5 DEF OnlyTouches
  <2>7. /\ phase[v] \in {"delete", "query", "sync", "ok"} => cres[v] \subseteq orders'
        /\ phase[v] \in {"query", "sync", "ok"} => dels[v] \cap orders' = {}
    BY <2>2, <2>6 DEF BatchInv
  <2>8. /\ phase[v] = "sync" => \A c \in rems[v] : ~HasOrders(c)'
        /\ phase[v] = "sync" => \A c \in DelOnly(v) \ rems[v] : c \in stale' \/ HasOrders(c)'
        /\ phase[v] \in Running =>
             \A c \in DelOnly(v) : c \in stale' \/ (HasOrders(c)' => c \in active')
    BY <2>2, <2>3, <2>4 DEF BatchInv
  <2> QED
    BY <2>1, <2>2, <2>7, <2>8 DEF BatchInv
<1>3. SyncedClientsAgree'
  <2> SUFFICES ASSUME NEW c \in Client, (c \notin stale)', ~InFlight(c)'
               PROVE  (c \in active <=> HasOrders(c))'
    BY DEF SyncedClientsAgree
  <2>1. CASE c \in T
    BY <2>1 DEF ServedAgree, InFlight
  <2>2. CASE c \notin T
    <3>1. ~(phase[w] \in Running /\ c \in Touched(w))
      BY <2>2
    <3>2. ASSUME NEW v \in Worker, v # w PROVE ~(phase[v] \in Running /\ c \in Touched(v))
      BY <3>2 DEF InFlight, OnlyTouches, Touched
    <3>3. ~InFlight(c)
      BY <3>1, <3>2 DEF InFlight
    <3> QED
      BY <2>2, <3>3, <1>1 DEF OnlyTouches, HandlerInv, SyncedClientsAgree
  <2> QED
    BY <2>1, <2>2
<1> QED
  BY <1>2, <1>3 DEF HandlerInv

-----------------------------------------------------------------------------
(* The steps of HandleBatch, one by one.                                   *)

LEMMA CallKeeps ==
  ASSUME HandlerInv, TypeOK', NEW w \in Worker,
         NEW T, Reserved(w, T), Touched(w)' \subseteq T, Call(w)
  PROVE  HandlerInv'
<1>1. PICK cs \in SUBSET [client : Serves[w], item : Item],
           ds \in SUBSET [client : Serves[w], item : Item],
           done \in BOOLEAN :
             cs \cap ds = {} /\ Begin(w, cs, ds, done)
  BY DEF Call
<1> USE <1>1 DEF Begin, Goto, HandlerInv, TypeOK
<1>2. OnlyTouches(w, T)
  BY DEF OnlyTouches
<1>3. /\ Touched(w)' = ClientsOf(cs) \cup ClientsOf(ds)
      /\ DelOnly(w)' = ClientsOf(ds) \ ClientsOf(cs)
      /\ Touched(w)' \subseteq Serves[w]
      /\ DelOnly(w)' \subseteq Serves[w]
  BY DEF Touched, DelOnly, ClientsOf
<1>4. ServedAgree(w, T)
  BY AgreeBefore
<1>5. phase[w] = "idle"
  OBVIOUS
<1>6. \A c \in T : c \notin stale => (c \in active <=> HasOrders(c))
  BY <1>4, <1>5 DEF ServedAgree, Running
<1>7. BatchInv(w)'
  <2>1. \A c \in DelOnly(w)' : c \in stale \/ (HasOrders(c) => c \in active)
    BY <1>3, <1>6
  <2>2. /\ phase'[w] \in {"create", "delete", "ok"}
        /\ phase'[w] # "create" => cs = {}
        /\ phase'[w] = "ok" => ds = {}
    OBVIOUS
  <2>3. cres'[w] = cs /\ dels'[w] = ds /\ rems'[w] = {}
    OBVIOUS
  <2>4. \A c \in Client : HasOrders(c)' <=> HasOrders(c)
    BY DEF HasOrders
  <2>5. DelOnly(w)' \subseteq Client
    BY <1>3, UpdSvrAssumption
  <2> QED
    BY <1>3, <2>1, <2>2, <2>3, <2>4, <2>5 DEF BatchInv
<1>8. ServedAgree(w, T)'
  BY <1>6 DEF ServedAgree, HasOrders
<1>9. ~ (phase[w] \in Running)
  BY <1>5 DEF Running
<1> QED
  BY <1>2, <1>7, <1>8, <1>9, Frame

(* A failed try of a statement: whatever part of the rows of the batch it  *)
(* changed, the clients of the batch stay under handling, or become stale. *)
LEMMA RetryKeeps ==
  ASSUME HandlerInv, TypeOK', NEW w \in Worker,
         NEW T, Reserved(w, T), Touched(w) \subseteq T, phase[w] \in {"create", "delete"},
         RetryOrFail(w),
         UNCHANGED <<active, cres, dels, rems>>,
         \A k \in OrderKey : k.client \notin Touched(w) => (k \in orders' <=> k \in orders),
         \A c \in DelOnly(w) : HasOrders(c)' => HasOrders(c),
         phase[w] = "delete" => cres[w] \subseteq orders'
  PROVE  HandlerInv'
<1>1. BatchInv(w) /\ ServedAgree(w, T)
  BY AgreeBefore DEF HandlerInv
<1>2. /\ Touched(w) \subseteq Serves[w]
      /\ T \subseteq Client
      /\ DelOnly(w) \subseteq Touched(w)
      /\ Touched(w)' = Touched(w)
      /\ DelOnly(w)' = DelOnly(w)
  BY <1>1 DEF BatchInv, Reserved, Touched, DelOnly
<1>3. /\ \A v \in Worker \ {w} : phase'[v] = phase[v]
      /\ \/ phase'[w] = phase[w] /\ stale' = stale
         \/ phase'[w] = "err" /\ stale' = stale \cup Touched(w)
  BY DEF RetryOrFail, Goto, HandlerInv, TypeOK
<1>4. OnlyTouches(w, T)
  BY <1>2, <1>3 DEF OnlyTouches
<1>5. BatchInv(w)'
  BY <1>1, <1>2, <1>3 DEF BatchInv, Running
<1>6. ServedAgree(w, T)'
  <2> SUFFICES ASSUME NEW c \in T, c \notin stale',
                      ~(phase'[w] \in Running /\ c \in Touched(w))
               PROVE  c \in active' <=> HasOrders(c)'
    BY <1>2 DEF ServedAgree
  <2>1. c \notin Touched(w)
    BY <1>3 DEF Running
  <2>2. HasOrders(c)' <=> HasOrders(c)
    BY <2>1 DEF HasOrders, HandlerInv, TypeOK, StoresTypeOK
  <2> QED
    BY <1>1, <1>3, <2>1, <2>2 DEF ServedAgree
<1> QED
  BY <1>4, <1>5, <1>6, Frame

LEMMA CreateOkKeeps ==
  ASSUME HandlerInv, TypeOK', NEW w \in Worker,
         NEW T, Reserved(w, T), Touched(w) \subseteq T, CreateOk(w)
  PROVE  HandlerInv'
<1> USE DEF CreateOk, BatchCreateOrders, Goto
<1>1. BatchInv(w) /\ ServedAgree(w, T) /\ TypeOK
  BY AgreeBefore DEF HandlerInv
<1>2. /\ Touched(w) \subseteq Serves[w]
      /\ T \subseteq Client
      /\ DelOnly(w) \subseteq Touched(w)
      /\ Touched(w)' = Touched(w)
      /\ DelOnly(w)' = DelOnly(w)
  BY <1>1 DEF BatchInv, Reserved, Touched, DelOnly
<1>3. \A k \in cres[w] : k \in OrderKey /\ k.client \in Touched(w) /\ k.client \notin DelOnly(w)
  BY <1>1 DEF Touched, DelOnly, ClientsOf, TypeOK
<1>4. OnlyTouches(w, T)
  BY <1>1, <1>2, <1>3 DEF OnlyTouches, TypeOK
<1>5. \A c \in Client : c \notin Touched(w) \/ c \in DelOnly(w) => (HasOrders(c)' <=> HasOrders(c))
  BY <1>3 DEF HasOrders
<1>6. phase'[w] \in {"delete", "sync"} /\ (phase'[w] = "sync" => dels[w] = {})
  BY <1>1 DEF TypeOK
<1>7. BatchInv(w)'
  <2>1. dels[w] = {} => DelOnly(w) = {}
    BY DEF DelOnly, ClientsOf
  <2>2. phase[w] = "create" /\ rems[w] = {}
    BY <1>1 DEF BatchInv
  <2>3. \A c \in DelOnly(w) : c \in stale \/ (HasOrders(c) => c \in active)
    BY <1>1, <2>2 DEF BatchInv, Running
  <2>4. \A c \in DelOnly(w) : HasOrders(c)' <=> HasOrders(c)
    BY <1>2, <1>5
  <2>5. cres[w] \cap dels[w] = {} /\ Touched(w) \subseteq Serves[w]
    BY <1>1 DEF BatchInv
  <2>6. cres' = cres /\ dels' = dels /\ rems' = rems /\ active' = active /\ stale' = stale
    OBVIOUS
  <2>7. cres[w] \subseteq orders'
    OBVIOUS
  <2> QED
    BY <1>2, <1>6, <2>1, <2>2, <2>3, <2>4, <2>5, <2>6, <2>7 DEF BatchInv
<1>8. ServedAgree(w, T)'
  BY <1>1, <1>2, <1>5, <1>6 DEF ServedAgree, Running
<1> QED
  BY <1>4, <1>7, <1>8, Frame

LEMMA CreateFailKeeps ==
  ASSUME HandlerInv, TypeOK', NEW w \in Worker,
         NEW T, Reserved(w, T), Touched(w) \subseteq T, CreateFail(w)
  PROVE  HandlerInv'
<1> USE DEF CreateFail, BatchCreateOrders
<1>1. \A k \in cres[w] : k \in OrderKey /\ k.client \in Touched(w) /\ k.client \notin DelOnly(w)
  BY DEF Touched, DelOnly, ClientsOf, TypeOK, HandlerInv
<1>2. orders' = orders \/ orders' = orders \cup cres[w]
  OBVIOUS
<1>3. \A k \in OrderKey : k.client \notin Touched(w) => (k \in orders' <=> k \in orders)
  BY <1>1, <1>2
<1>4. \A c \in DelOnly(w) : HasOrders(c)' => HasOrders(c)
  BY <1>1, <1>2 DEF HasOrders
<1> QED
  BY <1>3, <1>4, RetryKeeps

LEMMA DeleteFailKeeps ==
  ASSUME HandlerInv, TypeOK', NEW w \in Worker,
         NEW T, Reserved(w, T), Touched(w) \subseteq T, DeleteFail(w)
  PROVE  HandlerInv'
<1> USE DEF DeleteFail, BatchDeleteOrders
<1>1. \A k \in dels[w] : k \in OrderKey /\ k.client \in Touched(w)
  BY DEF Touched, ClientsOf, TypeOK, HandlerInv
<1>2. orders' = orders \/ orders' = orders \ dels[w]
  OBVIOUS
<1>3. \A k \in OrderKey : k.client \notin Touched(w) => (k \in orders' <=> k \in orders)
  BY <1>1, <1>2
<1>4. \A c \in DelOnly(w) : HasOrders(c)' => HasOrders(c)
  BY <1>2 DEF HasOrders
<1>5. cres[w] \subseteq orders'
  BY <1>2 DEF HandlerInv, BatchInv
<1> QED
  BY <1>3, <1>4, <1>5, RetryKeeps

LEMMA DeleteOkKeeps ==
  ASSUME HandlerInv, TypeOK', NEW w \in Worker,
         NEW T, Reserved(w, T), Touched(w) \subseteq T, DeleteOk(w)
  PROVE  HandlerInv'
<1> USE DEF DeleteOk, BatchDeleteOrders, Goto
<1>1. BatchInv(w) /\ ServedAgree(w, T) /\ TypeOK
  BY AgreeBefore DEF HandlerInv
<1>2. /\ Touched(w) \subseteq Serves[w]
      /\ T \subseteq Client
      /\ DelOnly(w) \subseteq Touched(w)
      /\ Touched(w)' = Touched(w)
      /\ DelOnly(w)' = DelOnly(w)
  BY <1>1 DEF BatchInv, Reserved, Touched, DelOnly
<1>3. \A k \in dels[w] : k \in OrderKey /\ k.client \in Touched(w)
  BY <1>1 DEF Touched, ClientsOf, TypeOK
<1>4. OnlyTouches(w, T)
  BY <1>1, <1>2, <1>3 DEF OnlyTouches, TypeOK
<1>5. \A c \in Client : /\ HasOrders(c)' => HasOrders(c)
                        /\ c \notin Touched(w) => (HasOrders(c)' <=> HasOrders(c))
  BY <1>3 DEF HasOrders
<1>6. phase'[w] \in {"query", "sync"} /\ (phase'[w] = "sync" => DelOnly(w) = {})
  BY <1>1 DEF TypeOK
<1>7. BatchInv(w)'
  <2>1. phase[w] = "delete" /\ rems[w] = {} /\ cres[w] \subseteq orders
    BY <1>1 DEF BatchInv
  <2>2. \A c \in DelOnly(w) : c \in stale \/ (HasOrders(c)' => c \in active)
    BY <1>1, <1>2, <1>5, <2>1 DEF BatchInv, Running
  <2>3. cres[w] \cap dels[w] = {} /\ Touched(w) \subseteq Serves[w]
    BY <1>1 DEF BatchInv
  <2>4. cres' = cres /\ dels' = dels /\ rems' = rems /\ active' = active /\ stale' = stale
    OBVIOUS
  <2>5. cres[w] \subseteq orders' /\ dels[w] \cap orders' = {}
    BY <2>1, <2>3
  <2> QED
    BY <1>2, <1>6, <2>1, <2>2, <2>3, <2>4, <2>5 DEF BatchInv
<1>8. ServedAgree(w, T)'
  BY <1>1, <1>2, <1>5, <1>6 DEF ServedAgree, Running
<1> QED
  BY <1>4, <1>7, <1>8, Frame

(* The SREM list holds exactly the clients with deletes only that had no   *)
(* row when the query ran.                                                 *)
LEMMA QueryOkKeeps ==
  ASSUME HandlerInv, TypeOK', NEW w \in Worker,
         NEW T, Reserved(w, T), Touched(w) \subseteq T, QueryOk(w)
  PROVE  HandlerInv'
<1> USE DEF QueryOk, GetActiveClients, Goto
<1>1. BatchInv(w) /\ ServedAgree(w, T) /\ TypeOK
  BY AgreeBefore DEF HandlerInv
<1>2. /\ Touched(w)' = Touched(w)
      /\ DelOnly(w)' = DelOnly(w)
  BY DEF Touched, DelOnly
<1>3. \A c \in Client : HasOrders(c)' <=> HasOrders(c)
  BY DEF HasOrders
<1>4. /\ phase'[w] = "sync"
      /\ rems'[w] = {c \in DelOnly(w) : ~HasOrders(c)}
  BY <1>1 DEF TypeOK
<1>5. DelOnly(w) \subseteq Client
  BY <1>1 DEF TypeOK, DelOnly, ClientsOf, OrderKey
<1>6. OnlyTouches(w, T)
  BY <1>1 DEF OnlyTouches, TypeOK
<1>7. BatchInv(w)'
  <2>1. /\ cres[w] \subseteq orders
        /\ dels[w] \cap orders = {}
        /\ cres[w] \cap dels[w] = {}
        /\ Touched(w) \subseteq Serves[w]
        /\ \A c \in DelOnly(w) : c \in stale \/ (HasOrders(c) => c \in active)
    BY <1>1 DEF BatchInv, Running
  <2>2. /\ \A c \in rems'[w] : ~HasOrders(c)'
        /\ \A c \in DelOnly(w) \ rems'[w] : HasOrders(c)'
        /\ rems'[w] \subseteq DelOnly(w)
    BY <1>3, <1>4, <1>5
  <2> QED
    BY <1>2, <1>3, <1>4, <1>5, <2>1, <2>2 DEF BatchInv
<1>8. ServedAgree(w, T)'
  BY <1>1, <1>2, <1>3, <1>4 DEF ServedAgree, Running, Reserved
<1> QED
  BY <1>6, <1>7, <1>8, Frame

LEMMA QueryFailKeeps ==
  ASSUME HandlerInv, TypeOK', NEW w \in Worker,
         NEW T, Reserved(w, T), Touched(w) \subseteq T, QueryFail(w)
  PROVE  HandlerInv'
<1> USE DEF QueryFail, Goto
<1>1. BatchInv(w) /\ ServedAgree(w, T) /\ TypeOK
  BY AgreeBefore DEF HandlerInv
<1>2. /\ Touched(w)' = Touched(w)
      /\ DelOnly(w)' = DelOnly(w)
      /\ DelOnly(w) \subseteq Touched(w)
  BY DEF Touched, DelOnly
<1>3. \A c \in Client : HasOrders(c)' <=> HasOrders(c)
  BY DEF HasOrders
<1>4. phase'[w] = "sync" /\ rems[w] = {}
  BY <1>1 DEF TypeOK, BatchInv
<1>5. Touched(w) \subseteq Serves[w]
  BY <1>1 DEF BatchInv
<1>6. OnlyTouches(w, T)
  BY <1>1, <1>2, <1>5 DEF OnlyTouches, TypeOK
<1>7. BatchInv(w)'
  BY <1>1, <1>2, <1>4 DEF BatchInv
<1>8. ServedAgree(w, T)'
  BY <1>1, <1>2, <1>3, <1>4 DEF ServedAgree, Running, Reserved
<1> QED
  BY <1>6, <1>7, <1>8, Frame

(* The pipeline ran: the clients with creates have rows and are members,   *)
(* those on the SREM list have none and are not.                           *)
LEMMA SyncOkKeeps ==
  ASSUME HandlerInv, TypeOK', NEW w \in Worker,
         NEW T, Reserved(w, T), Touched(w) \subseteq T, SyncOk(w)
  PROVE  HandlerInv'
<1> USE DEF SyncOk, PipeExec, Goto
<1>1. BatchInv(w) /\ ServedAgree(w, T) /\ TypeOK
  BY AgreeBefore DEF HandlerInv
<1>2. /\ Touched(w)' = Touched(w)
      /\ DelOnly(w)' = DelOnly(w)
      /\ Touched(w) = ClientsOf(cres[w]) \cup DelOnly(w)
      /\ ClientsOf(cres[w]) \cap DelOnly(w) = {}
  BY DEF Touched, DelOnly
<1>3. \A c \in Client : HasOrders(c)' <=> HasOrders(c)
  BY DEF HasOrders
<1>4. phase'[w] = "ok"
  BY <1>1 DEF TypeOK
<1>5. /\ Touched(w) \subseteq Serves[w]
      /\ rems[w] \subseteq DelOnly(w)
      /\ \A c \in rems[w] : ~HasOrders(c)
      /\ \A c \in DelOnly(w) \ rems[w] :
           c \in stale \/ (HasOrders(c) /\ c \in active)
      /\ cres[w] \subseteq orders
      /\ dels[w] \cap orders = {}
    BY <1>1 DEF BatchInv, Running
<1>6. \A c \in ClientsOf(cres[w]) : HasOrders(c)
  BY <1>5 DEF ClientsOf, HasOrders
<1>7. OnlyTouches(w, T)
  BY <1>1, <1>2, <1>5 DEF OnlyTouches, TypeOK
<1>8. BatchInv(w)'
  BY <1>1, <1>2, <1>4, <1>5 DEF BatchInv, Running
<1>9. ServedAgree(w, T)'
  <2> SUFFICES ASSUME NEW c \in T, c \notin stale'
               PROVE  c \in active' <=> HasOrders(c)'
    BY DEF ServedAgree
  <2>1. c \in Client
    BY DEF Reserved
  <2>2. CASE c \notin Touched(w)
    BY <1>1, <1>2, <1>3, <1>5, <2>1, <2>2 DEF ServedAgree
  <2>3. CASE c \in DelOnly(w)
    BY <1>2, <1>3, <1>5, <2>1, <2>3
  <2>4. CASE c \in ClientsOf(cres[w])
    BY <1>2, <1>3, <1>5, <1>6, <2>1, <2>4
  <2> QED
    BY <1>2, <2>2, <2>3, <2>4
<1> QED
  BY <1>7, <1>8, <1>9, Frame

LEMMA SyncFailKeeps ==
  ASSUME HandlerInv, TypeOK', NEW w \in Worker,
         NEW T, Reserved(w, T), Touched(w) \subseteq T, SyncFail(w)
  PROVE  HandlerInv'
<1> USE DEF SyncFail, PipeExec, Goto
<1>1. BatchInv(w) /\ ServedAgree(w, T) /\ TypeOK
  BY AgreeBefore DEF HandlerInv
<1>2. /\ Touched(w)' = Touched(w)
      /\ DelOnly(w)' = DelOnly(w)
      /\ Touched(w) = ClientsOf(cres[w]) \cup DelOnly(w)
  BY DEF Touched, DelOnly
<1>3. \A c \in Client : HasOrders(c)' <=> HasOrders(c)
  BY DEF HasOrders
<1>4. phase'[w] = "ok"
  BY <1>1 DEF TypeOK
<1>5. /\ Touched(w) \subseteq Serves[w]
      /\ rems[w] \subseteq DelOnly(w)
      /\ \A c \in DelOnly(w) \ rems[w] :
           c \in stale \/ (HasOrders(c) /\ c \in active)
    BY <1>1 DEF BatchInv, Running
<1>6. \A c \in Client : c \notin ClientsOf(cres[w]) \cup rems[w] => (c \in active' <=> c \in active)
  OBVIOUS
<1>7. OnlyTouches(w, T)
  BY <1>1, <1>2, <1>5, <1>6 DEF OnlyTouches, TypeOK
<1>8. BatchInv(w)'
  BY <1>1, <1>2, <1>4 DEF BatchInv, Running
<1>9. ServedAgree(w, T)'
  <2> SUFFICES ASSUME NEW c \in T, c \notin stale'
               PROVE  c \in active' <=> HasOrders(c)'
    BY DEF ServedAgree
  <2>1. c \in Client /\ c \notin stale /\ c \notin ClientsOf(cres[w]) \cup rems[w]
    BY DEF Reserved
  <2>2. CASE c \notin Touched(w)
    BY <1>1, <1>3, <1>6, <2>1, <2>2 DEF ServedAgree
  <2>3. CASE c \in DelOnly(w)
    BY <1>3, <1>5, <1>6, <2>1, <2>3
  <2> QED
    BY <1>2, <2>1, <2>2, <2>3
<1> QED
  BY <1>7, <1>8, <1>9, Frame

(* Calls go out of scope: the finished ones leave their clients in         *)
(* agreement, the ones cut off leave theirs stale.                         *)
LEMMA ForgetKeeps ==
  ASSUME HandlerInv, TypeOK', NEW ws \in SUBSET Worker, Forget(ws),
         UNCHANGED <<orders, active>>,
         stale \subseteq stale',
         \A w \in ws : phase[w] \in Running => Touched(w) \subseteq stale'
  PROVE  HandlerInv'
<1>1. \A c \in Client : HasOrders(c)' <=> HasOrders(c)
  BY DEF HasOrders
<1>2. ASSUME NEW w \in Worker PROVE BatchInv(w)'
  <2>1. CASE w \in ws
    BY <2>1 DEF Forget, BatchInv, Touched, DelOnly, ClientsOf, Running
  <2>2. CASE w \notin ws
    <3>1. /\ Touched(w)' = Touched(w)
          /\ DelOnly(w)' = DelOnly(w)
          /\ phase'[w] = phase[w]
          /\ cres'[w] = cres[w]
          /\ dels'[w] = dels[w]
          /\ rems'[w] = rems[w]
      BY <2>2 DEF Forget, Touched, DelOnly
    <3>2. BatchInv(w)
      BY DEF HandlerInv
    <3>3. DelOnly(w) \subseteq Client
      BY DEF HandlerInv, TypeOK, DelOnly, ClientsOf, OrderKey
    <3> QED
      BY <1>1, <3>1, <3>2, <3>3 DEF BatchInv
  <2> QED
    BY <2>1, <2>2
<1>3. SyncedClientsAgree'
  <2> SUFFICES ASSUME NEW c \in Client, c \notin stale', ~InFlight(c)'
               PROVE  c \in active <=> HasOrders(c)
    BY <1>1 DEF SyncedClientsAgree
  <2>1. ASSUME NEW w \in Worker, phase[w] \in Running PROVE c \notin Touched(w)
    BY <2>1 DEF InFlight, Forget, Touched, Running
  <2>2. c \notin stale /\ ~InFlight(c)
    BY <2>1 DEF InFlight
  <2> QED
    BY <2>2 DEF HandlerInv, SyncedClientsAgree
<1> QED
  BY <1>2, <1>3 DEF HandlerInv

(* A step that changes neither the stores nor the locals the invariant     *)
(* speaks of.                                                              *)
LEMMA StillKeeps ==
  ASSUME HandlerInv, TypeOK',
         UNCHANGED <<orders, active, phase, cres, dels, rems, stale>>
  PROVE  HandlerInv'
<1>1. ASSUME NEW w \in Worker PROVE BatchInv(w)'
  <2>1. BatchInv(w)
    BY DEF HandlerInv
  <2> QED
    BY <2>1 DEF BatchInv, Touched, DelOnly, HasOrders
<1>2. SyncedClientsAgree'
  BY DEF HandlerInv, SyncedClientsAgree, InFlight, Touched, HasOrders
<1> QED
  BY <1>1, <1>2 DEF HandlerInv

(* No two workers have batches of the same client.                         *)
Apart == \A v, w \in Worker : v # w => Touched(v) \cap Touched(w) = {}

LEMMA HandlerInvStep == HandlerInv /\ [Next]_vars /\ Apart' => HandlerInv'
<1> SUFFICES ASSUME HandlerInv, [Next]_vars, Apart' PROVE HandlerInv'
  OBVIOUS
<1>0. TypeOK' /\ TypeOK
  BY TypeStep DEF HandlerInv
<1>1. ASSUME NEW w \in Worker, Call(w) PROVE HandlerInv'
  <2>1. \A v \in Worker \ {w} : Touched(v)' = Touched(v)
    BY <1>0, <1>1 DEF Call, Begin, Touched, TypeOK
  <2>2. Touched(w)' \subseteq Client
    BY <1>0 DEF Touched, ClientsOf, TypeOK, OrderKey
  <2> PICK T : T = Touched(w)'
    OBVIOUS
  <2>3. \A v \in Worker \ {w} : T \cap Touched(v) = {}
    BY <2>1 DEF Apart
  <2>4. Reserved(w, T) /\ Touched(w)' \subseteq T
    BY <2>2, <2>3 DEF Reserved
  <2> QED
    BY <1>0, <1>1, <2>4, CallKeeps
<1>2. ASSUME NEW ws \in SUBSET Worker, Expire(ws) PROVE HandlerInv'
  BY <1>0, <1>2, StillKeeps DEF Expire
<1>3. ASSUME NEW w \in Worker, Step(w) PROVE HandlerInv'
  <2>1. \A v \in Worker : Touched(v)' = Touched(v)
    BY <1>3 DEF Step, CreateOk, CreateFail, DeleteOk, DeleteFail, QueryOk, QueryFail,
       SyncOk, SyncFail, Touched
  <2>2. Touched(w) \subseteq Client
    BY <1>0 DEF Touched, ClientsOf, TypeOK, OrderKey
  <2> PICK T : T = Touched(w)
    OBVIOUS
  <2>3. Reserved(w, T) /\ Touched(w) \subseteq T
    BY <2>1, <2>2 DEF Reserved, Apart
  <2> QED
    BY <1>0, <1>3, <2>3, CreateOkKeeps, CreateFailKeeps, DeleteOkKeeps, DeleteFailKeeps,
       QueryOkKeeps, QueryFailKeeps, SyncOkKeeps, SyncFailKeeps DEF Step
<1>4. ASSUME NEW w \in Worker, Return(w) PROVE HandlerInv'
  <2>1. \A v \in {w} : phase[v] \notin Running
    BY <1>4 DEF Return, Running
  <2> QED
    BY <1>0, <1>4, <2>1, ForgetKeeps DEF Return
<1>5. ASSUME NEW ws \in SUBSET Worker, Crash(ws) PROVE HandlerInv'
  BY <1>0, <1>5, ForgetKeeps DEF Crash
<1>6. CASE UNCHANGED vars
  BY <1>0, <1>6, StillKeeps DEF vars, handler
<1> QED
  BY <1>1, <1>2, <1>3, <1>4, <1>5, <1>6 DEF Next

(* Workers keep to the clients they serve: with one worker per client they *)
(* are apart.                                                              *)
LEMMA ServedStep ==
  ASSUME OneWorkerPerClient, HandlerInv, [Next]_vars
  PROVE  Apart'
<1>1. TypeOK /\ \A w \in Worker : Touched(w) \subseteq Serves[w]
  BY DEF HandlerInv, BatchInv
<1>2. ASSUME NEW v \in Worker PROVE Touched(v)' \subseteq Serves[v]
  <2>1. ASSUME NEW w \in Worker, Call(w) PROVE Touched(v)' \subseteq Serves[v]
    <3>1. PICK cs \in SUBSET [client : Serves[w], item : Item],
               ds \in SUBSET [client : Serves[w], item : Item], done \in BOOLEAN :
                 Begin(w, cs, ds, done)
      BY <2>1 DEF Call
    <3>2. CASE v = w
      BY <1>1, <3>1, <3>2 DEF Begin, Touched, ClientsOf, TypeOK
    <3>3. CASE v # w
      BY <1>1, <3>1, <3>3 DEF Begin, Touched, ClientsOf, TypeOK
    <3> QED
      BY <3>2, <3>3
  <2>2. ASSUME NEW ws \in SUBSET Worker, Forget(ws) PROVE Touched(v)' \subseteq Serves[v]
    BY <1>1, <2>2 DEF Forget, Touched, ClientsOf
  <2>3. ASSUME UNCHANGED <<cres, dels>> PROVE Touched(v)' \subseteq Serves[v]
    BY <1>1, <2>3 DEF Touched
  <2> QED
    BY <2>1, <2>2, <2>3 DEF Next, vars, handler, Expire, Crash, Return, Step, CreateOk,
       CreateFail, DeleteOk, DeleteFail, QueryOk, QueryFail, SyncOk, SyncFail
<1> QED
  BY <1>2 DEF Apart, OneWorkerPerClient

-----------------------------------------------------------------------------
(* The theorems.                                                           *)

(* With one worker per client, every state of HandleBatch satisfies the    *)
(* inductive invariant.                                                    *)
THEOREM HandlerSafe ==
  ASSUME OneWorkerPerClient
  PROVE  Spec => []HandlerInv
<1>1. HandlerInv /\ [Next]_vars => HandlerInv'
  BY HandlerInvStep, ServedStep
<1> QED
  BY <1>1, InitHandlerInv, PTL DEF Spec

(* The dual write keeps MySQL and Redis in agreement: whatever the workers *)
(* interleave, a client of no running batch is a member of the set exactly *)
(* if it has rows, unless a failure cut its last batch short.              *)
THEOREM StoresAgree ==
  ASSUME OneWorkerPerClient
  PROVE  Spec => []SyncedClientsAgree
<1>1. HandlerInv => SyncedClientsAgree
  BY DEF HandlerInv
<1> QED
  BY <1>1, HandlerSafe, PTL

(* A client whose running batches only delete is visible in Redis for as   *)
(* long as it has rows.                                                    *)
THEOREM NeverHiddenByDeletes ==
  ASSUME OneWorkerPerClient
  PROVE  Spec => []VisibleThroughDeletes
<1>1. HandlerInv => VisibleThroughDeletes
  <2> SUFFICES ASSUME HandlerInv, NEW c \in Client, c \notin stale, HasOrders(c),
                      \A w \in Worker : phase[w] \in Running => c \notin ClientsOf(cres[w])
               PROVE  c \in active
    BY DEF VisibleThroughDeletes
  <2>1. CASE InFlight(c)
    <3>1. PICK w \in Worker : phase[w] \in Running /\ c \in Touched(w)
      BY <2>1 DEF InFlight
    <3>2. c \in DelOnly(w)
      BY <3>1 DEF Touched, DelOnly
    <3> QED
      BY <3>1, <3>2 DEF HandlerInv, BatchInv
  <2>2. CASE ~InFlight(c)
    BY <2>2 DEF HandlerInv, SyncedClientsAgree
  <2> QED
    BY <2>1, <2>2
<1> QED
  BY <1>1, HandlerSafe, PTL

(* SREM only ever hits clients that have no rows at that moment, although  *)
(* the query that decided it ran two steps earlier.                        *)
THEOREM RemovalsJustified ==
  ASSUME OneWorkerPerClient
  PROVE  Spec => RemovalIsJustified
<1>1. HandlerInv /\ [Next]_vars => [\A c \in active \ active' : ~HasOrders(c)]_vars
  <2> SUFFICES ASSUME HandlerInv, Next, NEW c \in active \ active' PROVE ~HasOrders(c)
    OBVIOUS
  <2>1. PICK w \in Worker : SyncOk(w) \/ SyncFail(w)
    BY DEF Next, Call, Begin, Expire, Return, Crash, Step, CreateOk, CreateFail,
       DeleteOk, DeleteFail, QueryOk, QueryFail
  <2>2. c \in rems[w] /\ phase[w] = "sync"
    BY <2>1 DEF SyncOk, SyncFail, PipeExec
  <2> QED
    BY <2>2 DEF HandlerInv, BatchInv
<1> QED
  BY <1>1, HandlerSafe, PTL DEF Spec, RemovalIsJustified

(* When HandleBatch returns nil, the rows of the batch are as it asked.    *)
THEOREM NilMeansApplied ==
  ASSUME OneWorkerPerClient
  PROVE  Spec => []OkMeansApplied
<1>1. HandlerInv => OkMeansApplied
  BY DEF HandlerInv, BatchInv, OkMeansApplied
<1> QED
  BY <1>1, HandlerSafe, PTL

=============================================================================
