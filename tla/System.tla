------------------------------- MODULE System -------------------------------
(***************************************************************************)
(* The two stores with everybody who uses them at the same time: the       *)
(* workers of the consumers (UpdSvr), the query server (CliSvr) and the    *)
(* reconcilers (Recon).  They share nothing else.                          *)
(*                                                                         *)
(*   late         the statements and pipelines of handlers that a server   *)
(*                has not executed yet although their handler was told     *)
(*                that they failed (external)                              *)
(* History variables:                                                      *)
(*   seen[q]      the sets of items the client of request q had since the  *)
(*                request arrived                                          *)
(*   excused[q]   at some moment since then a batch with creates for the   *)
(*                client was running, or Redis could be wrong about the    *)
(*                client for a reason known: stale or raced                *)
(*   turned[r]    the clients that got their first row or lost their last  *)
(*                one since reconciler r last asked MySQL                  *)
(*   raced        the clients of which a late statement changed rows or a  *)
(*                late pipeline the membership, or a reconciler changed it *)
(*                upon an answer that had turned; until it is right and no *)
(*                batch runs                                               *)
(*   disturbed[r] the clients somebody else had to do with since the pass  *)
(*                of reconciler r began: they had a batch running, turned, *)
(*                or were added or removed by another reconciler           *)
(***************************************************************************)
EXTENDS Naturals, FiniteSets

CONSTANTS Client, Item, Worker, Serves, MaxRetries,                \* UpdSvr
          Request, None,                                            \* CliSvr
          Process, BSize, LockTTL, RenewIntvl, MaxMishaps,          \* Recon
          MaxLate   \* bound on the late statements and pipelines at a time

ASSUME SystemAssumption ==
  /\ Serves \in [Worker -> SUBSET Client]
  /\ MaxRetries \in Nat \ {0}
  /\ Client \subseteq Nat \ {0}
  /\ BSize \in Nat \ {0}
  /\ RenewIntvl \in Nat \ {0}
  /\ LockTTL \in Nat /\ LockTTL > RenewIntvl
  /\ MaxMishaps \in Nat
  /\ None \notin Process
  /\ MaxLate \in Nat

VARIABLES orders, active,
          phase, cres, dels, rems, tries, ctxDone, stale,
          qstage, qclient, reply, cut,
          lock, age, rstage, cursor, found, final, timer,
          owed, missed, clean, mishaps,
          late, seen, excused, turned, raced, disturbed

U == INSTANCE UpdSvr
Q == INSTANCE CliSvr
R == INSTANCE Recon

handling == <<phase, cres, dels, rems, tries, ctxDone, stale>>
querying == <<qstage, qclient, reply, cut>>
passing == <<lock, age, rstage, cursor, found, final, timer, missed, clean, mishaps>>
observed == <<seen, excused, turned, disturbed>>
vars == <<orders, active, late, raced, observed, handling, querying, passing, owed>>

Statement == [op : {"cre", "del"}, keys : SUBSET U!OrderKey]
Pipeline == [op : {"pipe"}, adds : SUBSET Client, gone : SUBSET Client]

TypeOK ==
  /\ U!TypeOK /\ Q!CliTypeOK /\ R!ReconTypeOK
  /\ late \subseteq Statement \cup Pipeline
  /\ Cardinality(late) <= MaxLate

Init ==
  /\ U!Init /\ Q!CliInit /\ R!ReconInit
  /\ late = {}
  /\ seen = [q \in Request |-> {}]
  /\ excused = [q \in Request |-> FALSE]
  /\ turned = [r \in Process |-> {}]
  /\ raced = {}
  /\ disturbed = [r \in Process |-> {}]

HasOrders(c) == U!HasOrders(c)
InFlight(c) == U!InFlight(c)
ItemsOf(c) == Q!ItemsOf(c)
Creating(c) == \E w \in Worker : phase[w] \in U!Running /\ c \in U!ClientsOf(cres[w])
Excuse(c) == Creating(c) \/ c \in stale \cup raced
Disagree(c) == c \in active <=> ~HasOrders(c)
Turning == {c \in Client : HasOrders(c)' # HasOrders(c)}

(* Every step is observed.                                                 *)
Observe ==
  /\ seen' = [q \in Request |->
       IF qstage'[q] = "idle" THEN {}
       ELSE IF qstage'[q] = "done" THEN seen[q]
       ELSE seen[q] \cup {ItemsOf(qclient[q])'}]
  /\ excused' = [q \in Request |->
       IF qstage'[q] = "idle" THEN FALSE
       ELSE IF qstage'[q] = "done" THEN excused[q]
       ELSE excused[q] \/ Excuse(qclient[q])']
  /\ turned' = [r \in Process |->
       IF rstage[r] \in {"page", "check"} \/ rstage'[r] = "idle" THEN {}
       ELSE turned[r] \cup Turning]
  /\ disturbed' = [r \in Process |->
       IF rstage'[r] = "idle" THEN {}
       ELSE disturbed[r] \cup Turning \cup {c \in Client : InFlight(c)'}
            \cup {c \in Client : rstage'[r] = rstage[r] /\ (c \in active <=> c \notin active')}]

(* The clients cs have been raced; whoever is right again has not.         *)
Raced(cs) == raced' = {c \in raced \cup cs : Disagree(c)' \/ InFlight(c)'}

HandlerStep ==
  /\ U!Next
  /\ R!OwedKeeps
  /\ Raced({})
  /\ UNCHANGED <<late, querying, passing>>

(* The handler gives up while its command is on the way to the server.     *)
Outlived(command) ==
  /\ UNCHANGED <<orders, active>>
  /\ late' = late \cup {command}
  /\ Cardinality(late') <= MaxLate

Creates(keys) == [op |-> "cre", keys |-> keys]
Deletes(keys) == [op |-> "del", keys |-> keys]
Pipe(adds, gone) == [op |-> "pipe", adds |-> adds, gone |-> gone]

HandlerGivesUp(w) ==
  /\ ~ctxDone[w]
  /\ \/ Outlived(Creates(cres[w])) /\ U!CreateFail(w)
     \/ Outlived(Deletes(dels[w])) /\ U!DeleteFail(w)
     \/ Outlived(Pipe(U!ClientsOf(cres[w]), rems[w])) /\ U!SyncFail(w)
  /\ Raced({})
  /\ UNCHANGED <<owed, querying, passing>>

(* MySQL executes it, whoever has written the rows since.                  *)
LateStatement(statement) ==
  /\ statement.op \in {"cre", "del"}
  /\ late' = late \ {statement}
  /\ IF statement.op = "cre" THEN U!BatchCreateOrders(statement.keys)
                             ELSE U!BatchDeleteOrders(statement.keys)
  /\ UNCHANGED <<active, handling, querying, passing, owed>>
  /\ Raced(U!ClientsOf((orders \ orders') \cup (orders' \ orders)))

(* Redis executes it, whoever has changed the set since.                   *)
LatePipeline(pipeline) ==
  /\ pipeline.op = "pipe"
  /\ late' = late \ {pipeline}
  /\ U!PipeExec(pipeline.adds, pipeline.gone)
  /\ R!OwedKeeps
  /\ UNCHANGED <<orders, handling, querying, passing>>
  /\ Raced({c \in Client : c \in active <=> c \notin active'})

QueryStep ==
  /\ \E q \in Request : Q!CliStep(q)
  /\ UNCHANGED <<late, handling, passing, owed, raced>>

ReconStep ==
  /\ UNCHANGED <<late, handling, querying>>
  /\ \/ R!Minute /\ UNCHANGED raced
     \/ \E r \in Process :
          R!ReconStep(r) /\ Raced({c \in turned[r] : c \in active <=> c \notin active'})

Next ==
  /\ \/ HandlerStep
     \/ \E w \in Worker : HandlerGivesUp(w)
     \/ \E command \in late : LateStatement(command) \/ LatePipeline(command)
     \/ QueryStep
     \/ ReconStep
  /\ Observe

Spec == Init /\ [][Next]_vars

-----------------------------------------------------------------------------
(* Properties.                                                             *)

(* What request q may be answered, the items of its client at some moment  *)
(* being those in seen[q]: all of them, or only some if GetOrders lost     *)
(* rows; never items from different moments.                               *)
Current(q) ==
  \E items \in seen[q] :
    IF q \in cut THEN reply[q].items \subseteq items ELSE reply[q].items = items

(* An answer with status 200 shows the orders of the client as they were   *)
(* at one moment while it was computed, although Redis and MySQL were      *)
(* asked one after the other.  There are two exceptions.  The answer may   *)
(* be short when reading the rows broke off or a row could not be scanned: *)
(* the caller cannot tell.  And nothing is said of a request during which  *)
(* the client was hidden for a reason known (excused): a batch with        *)
(* creates for it was running and had not added it yet, its update of      *)
(* Redis was lost, a late statement or pipeline had changed its rows or    *)
(* its membership, or a reconciler had acted on an answer that had turned. *)
AnswersAreCurrent ==
  \A q \in Request :
    qstage[q] = "done" /\ reply[q].status = "ok" /\ ~excused[q] => Current(q)

(* The two stores agree about a client with no batch running, for all that *)
(* handlers, late commands and reconcilers do to it, with three exceptions *)
(* only: a batch of it lost its update of Redis, a statement or a pipeline *)
(* ran after its handler had given up, or a reconciler acted on an answer   *)
(* that had become wrong meanwhile.                                        *)
DisagreementExplained ==
  \A c \in Client : Disagree(c) /\ ~InFlight(c) => c \in stale \cup raced

(* A pass of the reconciler that met no error leaves the stores agreeing   *)
(* about every client nobody else touched meanwhile, whatever was wrong    *)
(* with it before and however busy the other clients are.                  *)
PassRepairs ==
  \A r \in Process :
    rstage[r] = "unlock" /\ clean[r]
      => \A c \in Client \ disturbed[r] : ~Disagree(c)

(* What relates the locals of HandleBatch on worker w to the stores in the *)
(* presence of late statements and reconcilers: what UpdSvr!BatchInv says, *)
(* but for the clients that have been raced.                               *)
BatchInv(w) ==
  /\ U!Touched(w) \subseteq Serves[w]
  /\ cres[w] \cap dels[w] = {}
  /\ rems[w] \subseteq U!DelOnly(w)
  /\ phase[w] \in {"create", "delete", "query"} => rems[w] = {}
  /\ phase[w] \in {"delete", "query", "sync"} =>
       \A k \in cres[w] : k \in orders \/ k.client \in raced
  /\ phase[w] = "sync" => \A c \in rems[w] : HasOrders(c) => c \in raced
  /\ phase[w] = "sync" =>
       \A c \in U!DelOnly(w) \ rems[w] : c \in stale \cup raced \/ HasOrders(c)
  /\ phase[w] \in U!Running =>
       \A c \in U!DelOnly(w) : c \in stale \cup raced \/ (HasOrders(c) => c \in active)

(* What a reconciler is about to act on is true, or has turned since.      *)
PassInv(r) ==
  /\ rstage[r] = "add" => \A c \in found[r] : HasOrders(c) \/ c \in turned[r]
  /\ rstage[r] = "remove" => \A c \in found[r] : ~HasOrders(c) \/ c \in turned[r]

(* The inductive invariant behind DisagreementExplained.                   *)
SystemInv ==
  /\ U!TypeOK
  /\ late \subseteq Statement \cup Pipeline
  /\ raced \subseteq Client
  /\ rstage \in [Process -> R!Working \cup {"idle", "unlock"}]
  /\ found \in [Process -> SUBSET Client]
  /\ \A w \in Worker : BatchInv(w)
  /\ \A r \in Process : PassInv(r)
  /\ DisagreementExplained

(* The inductive invariant behind PassRepairs: a pass without errors has   *)
(* done for a client nobody disturbed what it would have done alone.       *)
RepairInv ==
  /\ R!ReconTypeOK
  /\ \A r \in Process :
       /\ turned[r] \subseteq disturbed[r]
       /\ clean[r] => \A c \in Client \ disturbed[r] : R!SweptInv(r, c)

=============================================================================
