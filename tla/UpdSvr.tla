------------------------------- MODULE UpdSvr -------------------------------
(***************************************************************************)
(* UpdSvr.HandleBatch (internal/app/upd_svr.go): the dual write.  A worker *)
(* of the consumer hands over a folded batch; HandleBatch writes the rows  *)
(* to MySQL (creates, then deletes, each statement retried) and then       *)
(* maintains the Redis set of active clients.                              *)
(*                                                                         *)
(* Every call to a store is a step of its own, so that the handlers of     *)
(* several workers interleave between any two calls.                       *)
(*                                                                         *)
(*   phase[w]    where HandleBatch is on worker w:                         *)
(*                 "idle"    not called                                    *)
(*                 "create"  about to try BatchCreateOrders                *)
(*                 "delete"  about to try BatchDeleteOrders                *)
(*                 "query"   about to call GetActiveClients                *)
(*                 "sync"    about to call pipe.Exec                       *)
(*                 "ok"      returned nil                                  *)
(*                 "err"     returned an error                             *)
(*   cres[w], dels[w]  the two slices the folded map was split into        *)
(*   rems[w]     the clients the pipeline will SREM                        *)
(*   tries[w]    failed tries of the current statement                     *)
(*   ctxDone[w]  the context of the call is done: its deadline (SendTimeout)*)
(*               passed, or the engine was cancelled                       *)
(*   stale       history: the clients whose last change of rows may have   *)
(*               missed Redis, because a call failed or the process died   *)
(***************************************************************************)
EXTENDS Stores, Naturals

CONSTANTS
  Worker,      \* the worker goroutines that call HandleBatch
  Serves,      \* Serves[w]: the clients whose key hashes to worker w
  MaxRetries   \* const maxRetries

ASSUME UpdSvrAssumption ==
  /\ Serves \in [Worker -> SUBSET Client]
  /\ MaxRetries \in Nat \ {0}

VARIABLES phase, cres, dels, rems, tries, ctxDone, stale

handler == <<phase, cres, dels, rems, tries, ctxDone>>
vars == <<orders, active, handler, stale>>

Phase == {"idle", "create", "delete", "query", "sync", "ok", "err"}
Running == {"create", "delete", "query", "sync"}

(* The clients of the batch of worker w, and those of them that have       *)
(* deletes only: the set dCliMap after the prune.                          *)
Touched(w) == ClientsOf(cres[w]) \cup ClientsOf(dels[w])
DelOnly(w) == ClientsOf(dels[w]) \ ClientsOf(cres[w])

(* Client c is in a batch that some worker is handling now.                *)
InFlight(c) == \E w \in Worker : phase[w] \in Running /\ c \in Touched(w)

TypeOK ==
  /\ StoresTypeOK
  /\ phase \in [Worker -> Phase]
  /\ cres \in [Worker -> SUBSET OrderKey]
  /\ dels \in [Worker -> SUBSET OrderKey]
  /\ rems \in [Worker -> SUBSET Client]
  /\ tries \in [Worker -> 0 .. MaxRetries - 1]
  /\ ctxDone \in [Worker -> BOOLEAN]
  /\ stale \subseteq Client

HandlerInit ==
  /\ phase = [w \in Worker |-> "idle"]
  /\ cres = [w \in Worker |-> {}]
  /\ dels = [w \in Worker |-> {}]
  /\ rems = [w \in Worker |-> {}]
  /\ tries = [w \in Worker |-> 0]
  /\ ctxDone = [w \in Worker |-> FALSE]
  /\ stale = {}

Init == StoresInit /\ HandlerInit

Goto(w, p) == phase' = [phase EXCEPT ![w] = p]

-----------------------------------------------------------------------------
(* HandleBatch is called with a folded map: every key has one action, so   *)
(* cs and ds are disjoint.  An empty map returns at once.  done says that  *)
(* the parent context is cancelled already.                                *)
Begin(w, cs, ds, done) ==
  /\ phase[w] = "idle"
  /\ Goto(w, IF cs # {} THEN "create" ELSE IF ds # {} THEN "delete" ELSE "ok")
  /\ cres' = [cres EXCEPT ![w] = cs]
  /\ dels' = [dels EXCEPT ![w] = ds]
  /\ rems' = [rems EXCEPT ![w] = {}]
  /\ tries' = [tries EXCEPT ![w] = 0]
  /\ ctxDone' = [ctxDone EXCEPT ![w] = done]
  /\ UNCHANGED <<orders, active, stale>>

(* The contexts of the running calls of the workers ws are done: the       *)
(* deadline of one call passes, or the engine that owns them is cancelled. *)
Expire(ws) ==
  /\ ctxDone' = [w \in Worker |-> ctxDone[w] \/ (w \in ws /\ phase[w] \in Running)]
  /\ UNCHANGED <<orders, active, phase, cres, dels, rems, tries, stale>>

(* Mutants of execWithRetry: one try too many; the error of the last try   *)
(* swallowed; the failed tries not counted.                                *)
RetryOnceTooOften(w) ==
  \/ /\ tries[w] < MaxRetries
     /\ tries' = [tries EXCEPT ![w] = @ + 1]
     /\ UNCHANGED <<phase, stale>>
  \/ /\ tries[w] = MaxRetries
     /\ Goto(w, "err")
     /\ stale' = stale \cup Touched(w)
     /\ UNCHANGED tries

RetryThenGoOn(w) ==
  \/ /\ tries[w] + 1 < MaxRetries
     /\ tries' = [tries EXCEPT ![w] = @ + 1]
     /\ UNCHANGED <<phase, stale>>
  \/ /\ tries[w] + 1 = MaxRetries
     /\ Goto(w, "sync")
     /\ stale' = stale \cup Touched(w)
     /\ UNCHANGED tries

RetryForever(w) == UNCHANGED <<tries, phase, stale>>

(* execWithRetry after a failed try: once more, or give up with an error.  *)
RetryOrFail(w) ==
  \/ /\ tries[w] + 1 < MaxRetries
     /\ tries' = [tries EXCEPT ![w] = @ + 1]
     /\ UNCHANGED <<phase, stale>>
  \/ /\ tries[w] + 1 = MaxRetries
     /\ Goto(w, "err")
     /\ stale' = stale \cup Touched(w)
     /\ UNCHANGED tries

CreateOk(w) ==
  /\ phase[w] = "create"
  /\ ~ctxDone[w]
  /\ BatchCreateOrders(cres[w])
  /\ Goto(w, IF dels[w] # {} THEN "delete" ELSE "sync")
  /\ tries' = [tries EXCEPT ![w] = 0]
  /\ UNCHANGED <<active, cres, dels, rems, ctxDone, stale>>

(* The statement reports an error.  It may have run all the same (the      *)
(* connection broke, or the deadline passed, after it was sent), unless    *)
(* the context was done before it was sent.                                *)
CreateFail(w) ==
  /\ phase[w] = "create"
  /\ \/ UNCHANGED orders
     \/ ~ctxDone[w] /\ BatchCreateOrders(cres[w])
  /\ RetryOrFail(w)
  /\ UNCHANGED <<active, cres, dels, rems, ctxDone>>

(* Mutant: the clients with deletes only are forgotten.                    *)
DeleteOkNoQuery(w) ==
  /\ phase[w] = "delete"
  /\ ~ctxDone[w]
  /\ BatchDeleteOrders(dels[w])
  /\ Goto(w, "sync")
  /\ tries' = [tries EXCEPT ![w] = 0]
  /\ UNCHANGED <<active, cres, dels, rems, ctxDone, stale>>

DeleteOk(w) ==
  /\ phase[w] = "delete"
  /\ ~ctxDone[w]
  /\ BatchDeleteOrders(dels[w])
  /\ Goto(w, IF DelOnly(w) # {} THEN "query" ELSE "sync")
  /\ tries' = [tries EXCEPT ![w] = 0]
  /\ UNCHANGED <<active, cres, dels, rems, ctxDone, stale>>

DeleteFail(w) ==
  /\ phase[w] = "delete"
  /\ \/ UNCHANGED orders
     \/ ~ctxDone[w] /\ BatchDeleteOrders(dels[w])
  /\ RetryOrFail(w)
  /\ UNCHANGED <<active, cres, dels, rems, ctxDone>>

(* Mutants: everybody with deletes is removed, without looking at the      *)
(* answer; the test of the answer is inverted.                             *)
QueryOkRemoveAll(w) ==
  /\ phase[w] = "query"
  /\ ~ctxDone[w]
  /\ rems' = [rems EXCEPT ![w] = DelOnly(w)]
  /\ Goto(w, "sync")
  /\ UNCHANGED <<orders, active, cres, dels, tries, ctxDone, stale>>

QueryOkInverted(w) ==
  /\ phase[w] = "query"
  /\ ~ctxDone[w]
  /\ rems' = [rems EXCEPT ![w] = GetActiveClients(DelOnly(w))]
  /\ Goto(w, "sync")
  /\ UNCHANGED <<orders, active, cres, dels, tries, ctxDone, stale>>

(* Which of the clients with deletes only have no row left?                *)
QueryOk(w) ==
  /\ phase[w] = "query"
  /\ ~ctxDone[w]
  /\ rems' = [rems EXCEPT ![w] = DelOnly(w) \ GetActiveClients(DelOnly(w))]
  /\ Goto(w, "sync")
  /\ UNCHANGED <<orders, active, cres, dels, tries, ctxDone, stale>>

(* The query fails: a warning is logged and nobody is removed.             *)
QueryFail(w) ==
  /\ phase[w] = "query"
  /\ Goto(w, "sync")
  /\ stale' = stale \cup DelOnly(w)
  /\ UNCHANGED <<orders, active, cres, dels, rems, tries, ctxDone>>

(* pipe.Exec succeeds; an empty pipeline makes no call and never fails.    *)
SyncOk(w) ==
  /\ phase[w] = "sync"
  /\ ctxDone[w] => cres[w] = {} /\ rems[w] = {}
  /\ PipeExec(ClientsOf(cres[w]), rems[w])
  /\ Goto(w, "ok")
  /\ stale' = stale \ (ClientsOf(cres[w]) \cup rems[w])
  /\ UNCHANGED <<orders, cres, dels, rems, tries, ctxDone>>

(* pipe.Exec fails: any part of the pipeline may have run.  The error is   *)
(* logged and HandleBatch still returns nil.                               *)
SyncFail(w) ==
  /\ phase[w] = "sync"
  /\ cres[w] # {} \/ rems[w] # {}
  /\ \/ UNCHANGED active
     \/ /\ ~ctxDone[w]
        /\ \E adds \in SUBSET ClientsOf(cres[w]), gone \in SUBSET rems[w] :
              PipeExec(adds, gone)
  /\ Goto(w, "ok")
  /\ stale' = stale \cup ClientsOf(cres[w]) \cup rems[w]
  /\ UNCHANGED <<orders, cres, dels, rems, tries, ctxDone>>

(* The locals of the calls of the workers ws go out of scope.              *)
Forget(ws) ==
  /\ phase' = [w \in Worker |-> IF w \in ws THEN "idle" ELSE phase[w]]
  /\ cres' = [w \in Worker |-> IF w \in ws THEN {} ELSE cres[w]]
  /\ dels' = [w \in Worker |-> IF w \in ws THEN {} ELSE dels[w]]
  /\ rems' = [w \in Worker |-> IF w \in ws THEN {} ELSE rems[w]]
  /\ tries' = [w \in Worker |-> IF w \in ws THEN 0 ELSE tries[w]]
  /\ ctxDone' = [w \in Worker |-> ctxDone[w] /\ w \notin ws]

(* The caller takes the result of HandleBatch.                             *)
Return(w) ==
  /\ phase[w] \in {"ok", "err"}
  /\ Forget({w})
  /\ UNCHANGED <<orders, active, stale>>

(* The process that runs the workers ws dies: their calls are cut off      *)
(* where they are.                                                         *)
Crash(ws) ==
  /\ Forget(ws)
  /\ stale' = stale \cup UNION {Touched(w) : w \in {v \in ws : phase[v] \in Running}}
  /\ UNCHANGED <<orders, active>>

Step(w) ==
  \/ CreateOk(w) \/ CreateFail(w)
  \/ DeleteOk(w) \/ DeleteFail(w)
  \/ QueryOk(w) \/ QueryFail(w)
  \/ SyncOk(w) \/ SyncFail(w)

(* On its own, the component is called with every folded map a worker can  *)
(* be given: keys of the clients it serves, each with one action.          *)
Call(w) ==
  \E cs, ds \in SUBSET [client : Serves[w], item : Item] :
    /\ cs \cap ds = {}
    /\ \E done \in BOOLEAN : Begin(w, cs, ds, done)

Next ==
  \/ \E w \in Worker : Call(w) \/ Step(w) \/ Return(w)
  \/ \E ws \in SUBSET Worker : Expire(ws) \/ Crash(ws)

Spec == Init /\ [][Next]_vars

(* A called handler runs: Go schedules every runnable goroutine, and every *)
(* call to a store returns or fails by the deadline of its context.        *)
FairSpec == Spec /\ \A w \in Worker : WF_vars(Step(w))

-----------------------------------------------------------------------------
(* Properties.                                                             *)

(* The rows of a client and its membership in Redis agree whenever no      *)
(* batch of the client is being handled, unless the last one that changed  *)
(* its rows was cut off or lost its Redis update.                          *)
SyncedClientsAgree ==
  \A c \in Client : c \notin stale /\ ~InFlight(c) => (c \in active <=> HasOrders(c))

(* A client with rows stays visible in Redis while its deletes are being   *)
(* handled: only a batch that creates rows for it, or a failure, may leave *)
(* it with rows and outside the set.                                       *)
VisibleThroughDeletes ==
  \A c \in Client :
    /\ c \notin stale
    /\ \A w \in Worker : phase[w] \in Running => c \notin ClientsOf(cres[w])
    => (HasOrders(c) => c \in active)

(* SREM never hits a client that has rows at that moment.                  *)
RemovalIsJustified ==
  [][\A c \in active \ active' : ~HasOrders(c)]_vars

(* A nil result means every row of the batch was created and deleted.      *)
OkMeansApplied ==
  \A w \in Worker :
    phase[w] = "ok" => cres[w] \subseteq orders /\ dels[w] \cap orders = {}

(* What relates the locals of HandleBatch on worker w to the stores while  *)
(* it runs: rows written so far are there, a client queued for SREM has no *)
(* rows, and a client that only loses rows is visible as long as it has    *)
(* some.                                                                   *)
BatchInv(w) ==
  /\ Touched(w) \subseteq Serves[w]
  /\ cres[w] \cap dels[w] = {}
  /\ rems[w] \subseteq DelOnly(w)
  /\ phase[w] \in {"delete", "query", "sync", "ok"} => cres[w] \subseteq orders
  /\ phase[w] \in {"query", "sync", "ok"} => dels[w] \cap orders = {}
  /\ phase[w] \in {"create", "delete", "query"} => rems[w] = {}
  /\ phase[w] = "sync" => \A c \in rems[w] : ~HasOrders(c)
  /\ phase[w] = "sync" => \A c \in DelOnly(w) \ rems[w] : c \in stale \/ HasOrders(c)
  /\ phase[w] \in Running =>
       \A c \in DelOnly(w) : c \in stale \/ (HasOrders(c) => c \in active)

(* The inductive invariant behind the safety properties above.             *)
HandlerInv ==
  /\ TypeOK
  /\ \A w \in Worker : BatchInv(w)
  /\ SyncedClientsAgree

(* No client is served by two workers: within one consumer process a key   *)
(* hashes to one worker.                                                   *)
OneWorkerPerClient ==
  \A v, w \in Worker : v # w => Serves[v] \cap Serves[w] = {}

(* Every call of HandleBatch returns, whatever the stores answer, because  *)
(* its retries are bounded: no worker stays in one for ever.               *)
HandlerReturns ==
  \A w \in Worker : []<>(phase[w] \notin Running)

=============================================================================
