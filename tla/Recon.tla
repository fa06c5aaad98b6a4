-------------------------------- MODULE Recon --------------------------------
(***************************************************************************)
(* The reconciler (cmd/reconciler/recon.go): a process that takes a lock   *)
(* in Redis, adds every client with rows to the Redis set (stage 1), and   *)
(* removes every member without rows from it (stage 2).                    *)
(*                                                                         *)
(*   lock        whose lockVal is stored under lockKey, or None            *)
(*   age         minutes since the TTL of the lock was set                 *)
(*   rstage[r]   where process r is:                                       *)
(*                 "idle"    does not run                                  *)
(*                 "page"    stage 1, about to read a page of clients      *)
(*                 "add"     about to SADD them                            *)
(*                 "scan"    stage 2, about to call SSCAN                  *)
(*                 "check"   about to look the keys up in MySQL            *)
(*                 "remove"  about to SREM those without rows              *)
(*                 "unlock"  main returns, the deferred unlock runs        *)
(*   cursor[r]   lastClientId                                              *)
(*   found[r]    batch, keys, or the ghosts among them                     *)
(*   final[r]    SSCAN returned the cursor 0                               *)
(*   timer[r]    minutes since the ticker of the watchdog fired            *)
(* History variables:                                                      *)
(*   owed[r]     the members that were in the set ever since the SSCAN     *)
(*               iteration of r began and that it has not returned yet:    *)
(*               Redis guarantees that it returns them (external)          *)
(*   missed[r]   the renewals in a row that failed                         *)
(*   clean[r]    no command of the pass failed so far                      *)
(*   mishaps     how many things went wrong                                *)
(***************************************************************************)
EXTENDS Stores, Naturals, FiniteSetsExt

CONSTANTS
  Process,      \* the reconciler processes
  BSize,        \* const bSize
  LockTTL,      \* const lockTTL, in minutes
  RenewIntvl,   \* const renewIntvl, in minutes
  MaxMishaps,   \* bound on the mishaps of one behaviour
  None

(* Clients are ordered, as client_id is.                                   *)
ASSUME ReconAssumption ==
  /\ Client \subseteq Nat \ {0}
  /\ BSize \in Nat \ {0}
  /\ RenewIntvl \in Nat \ {0}
  /\ LockTTL \in Nat /\ LockTTL > RenewIntvl
  /\ MaxMishaps \in Nat
  /\ None \notin Process

VARIABLES lock, age, rstage, cursor, found, final, timer,
          owed, missed, clean, mishaps

lockVars == <<lock, age>>
passVars == <<cursor, found, final, owed, clean>>
watchVars == <<timer, missed>>
reconVars == <<lockVars, rstage, passVars, watchVars, mishaps>>

Working == {"page", "add", "scan", "check", "remove"}

ReconTypeOK ==
  /\ lock \in Process \cup {None}
  /\ age \in 0 .. LockTTL - 1
  /\ rstage \in [Process -> Working \cup {"idle", "unlock"}]
  /\ cursor \in [Process -> Client \cup {0}]
  /\ found \in [Process -> SUBSET Client]
  /\ final \in [Process -> BOOLEAN]
  /\ timer \in [Process -> 0 .. RenewIntvl]
  /\ owed \in [Process -> SUBSET active]
  /\ missed \in [Process -> Nat]
  /\ clean \in [Process -> BOOLEAN]
  /\ mishaps \in 0 .. MaxMishaps

ReconInit ==
  /\ lock = None
  /\ age = 0
  /\ rstage = [r \in Process |-> "idle"]
  /\ cursor = [r \in Process |-> 0]
  /\ found = [r \in Process |-> {}]
  /\ final = [r \in Process |-> FALSE]
  /\ timer = [r \in Process |-> 0]
  /\ owed = [r \in Process |-> {}]
  /\ missed = [r \in Process |-> 0]
  /\ clean = [r \in Process |-> FALSE]
  /\ mishaps = 0

Mishap == mishaps < MaxMishaps /\ mishaps' = mishaps + 1
Enter(r, s) == rstage' = [rstage EXCEPT ![r] = s]

(* Members that leave the set are not owed to an iteration any more.       *)
OwedKeeps == owed' = [r \in Process |-> owed[r] \cap active']

-----------------------------------------------------------------------------
(* The lock.                                                               *)

(* SET NX succeeds; if the lock is taken, the process just returns.        *)
Start(r) ==
  /\ rstage[r] = "idle"
  /\ lock = None
  /\ lock' = r /\ age' = 0
  /\ Enter(r, "page")
  /\ cursor' = [cursor EXCEPT ![r] = 0]
  /\ found' = [found EXCEPT ![r] = {}]
  /\ final' = [final EXCEPT ![r] = FALSE]
  /\ clean' = [clean EXCEPT ![r] = TRUE]
  /\ timer' = [timer EXCEPT ![r] = 0]
  /\ missed' = [missed EXCEPT ![r] = 0]
  /\ UNCHANGED <<orders, active, owed, mishaps>>

(* SET NX reports an error although it was executed: the process ends, the *)
(* lock stays for its TTL.                                                 *)
StartFail(r) ==
  /\ rstage[r] = "idle"
  /\ lock = None
  /\ Mishap
  /\ lock' = r /\ age' = 0
  /\ UNCHANGED <<orders, active, rstage, passVars, watchVars>>

(* Mutant: the TTL is left as it was.                                      *)
RenewNothing(r) ==
  /\ rstage[r] \in Working
  /\ timer[r] = RenewIntvl
  /\ timer' = [timer EXCEPT ![r] = 0]
  /\ UNCHANGED <<orders, active, lock, age, missed, rstage, passVars, mishaps>>

(* Mutant: EXPIRE without a look at the value.                             *)
RenewAny(r) ==
  /\ rstage[r] \in Working
  /\ timer[r] = RenewIntvl
  /\ timer' = [timer EXCEPT ![r] = 0]
  /\ lock # None
  /\ age' = 0
  /\ missed' = [missed EXCEPT ![r] = 0]
  /\ UNCHANGED <<orders, active, lock, rstage, passVars, mishaps>>

(* The watchdog: RenewScript sets the TTL anew if the lock is its own.     *)
Renew(r) ==
  /\ rstage[r] \in Working
  /\ timer[r] = RenewIntvl
  /\ timer' = [timer EXCEPT ![r] = 0]
  /\ \/ lock = r /\ age' = 0 /\ missed' = [missed EXCEPT ![r] = 0]
     \/ lock # r /\ UNCHANGED <<age, missed>>
  /\ UNCHANGED <<orders, active, lock, rstage, passVars, mishaps>>

(* Eval fails; nobody looks at its result.                                 *)
RenewFail(r) ==
  /\ rstage[r] \in Working
  /\ timer[r] = RenewIntvl
  /\ Mishap
  /\ timer' = [timer EXCEPT ![r] = 0]
  /\ missed' = [missed EXCEPT ![r] = @ + 1]
  /\ UNCHANGED <<orders, active, lockVars, rstage, passVars>>

(* Mutant: the lock expires a minute late.                                 *)
MinuteLate ==
  /\ \A r \in Process : rstage[r] \in Working => timer[r] < RenewIntvl
  /\ \/ lock # None /\ age < LockTTL /\ age' = age + 1 /\ UNCHANGED lock
     \/ lock # None /\ age = LockTTL /\ age' = 0 /\ lock' = None
     \/ lock = None /\ (\E r \in Process : rstage[r] \in Working) /\ UNCHANGED lockVars
  /\ timer' = [r \in Process |-> IF rstage[r] \in Working THEN timer[r] + 1 ELSE timer[r]]
  /\ UNCHANGED <<orders, active, rstage, passVars, missed, mishaps>>

(* Time passes; a watchdog whose ticker has fired goes first.              *)
Minute ==
  /\ \A r \in Process : rstage[r] \in Working => timer[r] < RenewIntvl
  /\ \/ lock # None /\ age + 1 < LockTTL /\ age' = age + 1 /\ UNCHANGED lock
     \/ lock # None /\ age + 1 = LockTTL /\ age' = 0 /\ lock' = None
     \/ lock = None /\ (\E r \in Process : rstage[r] \in Working) /\ UNCHANGED lockVars
  /\ timer' = [r \in Process |-> IF rstage[r] \in Working THEN timer[r] + 1 ELSE timer[r]]
  /\ UNCHANGED <<orders, active, rstage, passVars, missed, mishaps>>

(* Mutant: DEL without a look at the value.                                *)
UnlockAny(r) ==
  /\ rstage[r] = "unlock"
  /\ lock' = None
  /\ age' = 0
  /\ Enter(r, "idle")
  /\ owed' = [owed EXCEPT ![r] = {}]
  /\ clean' = [clean EXCEPT ![r] = FALSE]
  /\ UNCHANGED <<orders, active, cursor, found, final, watchVars, mishaps>>

(* UnlockScript deletes the lock if it is its own.                         *)
Unlock(r) ==
  /\ rstage[r] = "unlock"
  /\ lock' = IF lock = r THEN None ELSE lock
  /\ age' = IF lock = r THEN 0 ELSE age
  /\ Enter(r, "idle")
  /\ owed' = [owed EXCEPT ![r] = {}]
  /\ clean' = [clean EXCEPT ![r] = FALSE]
  /\ UNCHANGED <<orders, active, cursor, found, final, watchVars, mishaps>>

(* The unlock fails, or the process is killed: the lock stays.             *)
Die(r) ==
  /\ rstage[r] # "idle"
  /\ Mishap
  /\ Enter(r, "idle")
  /\ owed' = [owed EXCEPT ![r] = {}]
  /\ clean' = [clean EXCEPT ![r] = FALSE]
  /\ UNCHANGED <<orders, active, lockVars, cursor, found, final, watchVars>>

-----------------------------------------------------------------------------
(* Stage 1: MySQL -> Redis.                                                *)

(* The BSize smallest of the clients cs.                                   *)
Smallest(cs) == {c \in cs : Cardinality({d \in cs : d < c}) < BSize}

(* SELECT DISTINCT client_id ... WHERE client_id > ? ORDER BY ... LIMIT ?  *)
Page(r) == Smallest({c \in Client : HasOrders(c) /\ c > cursor[r]})

PageOk(r) ==
  /\ rstage[r] = "page"
  /\ Page(r) # {}
  /\ found' = [found EXCEPT ![r] = Page(r)]
  /\ cursor' = [cursor EXCEPT ![r] = Max(Page(r))]
  /\ Enter(r, "add")
  /\ UNCHANGED <<orders, active, lockVars, final, owed, clean, watchVars, mishaps>>

PagesDone(r) ==
  /\ rstage[r] = "page"
  /\ Page(r) = {}
  /\ found' = [found EXCEPT ![r] = {}]
  /\ cursor' = [cursor EXCEPT ![r] = 0]
  /\ owed' = [owed EXCEPT ![r] = active]
  /\ Enter(r, "scan")
  /\ UNCHANGED <<orders, active, lockVars, final, clean, watchVars, mishaps>>

AddOk(r) ==
  /\ rstage[r] = "add"
  /\ PipeExec(found[r], {})
  /\ found' = [found EXCEPT ![r] = {}]
  /\ Enter(r, "page")
  /\ UNCHANGED <<orders, lockVars, cursor, final, owed, clean, watchVars, mishaps>>

(* Any part of the pipeline may have run; the process returns.             *)
AddFail(r) ==
  /\ rstage[r] = "add"
  /\ Mishap
  /\ \E adds \in SUBSET found[r] : PipeExec(adds, {})
  /\ clean' = [clean EXCEPT ![r] = FALSE]
  /\ Enter(r, "unlock")
  /\ UNCHANGED <<orders, lockVars, cursor, found, final, owed, watchVars>>

-----------------------------------------------------------------------------
(* Stage 2: Redis -> MySQL.                                                *)

(* After the keys of one SSCAN call.                                       *)
NextScan(r, fin) == Enter(r, IF fin THEN "unlock" ELSE "scan")

(* Mutant: one call of SSCAN is taken for the whole iteration.             *)
ScanOnce(r) ==
  /\ rstage[r] = "scan"
  /\ \E keys \in SUBSET active :
       /\ found' = [found EXCEPT ![r] = keys]
       /\ final' = [final EXCEPT ![r] = TRUE]
       /\ owed' = [owed EXCEPT ![r] = @ \ keys]
       /\ IF keys = {} THEN NextScan(r, TRUE) ELSE Enter(r, "check")
  /\ UNCHANGED <<orders, active, lockVars, cursor, clean, watchVars, mishaps>>

(* One call of the iteration.  The last one completes what is owed.        *)
ScanOk(r) ==
  /\ rstage[r] = "scan"
  /\ \E keys \in SUBSET active, fin \in BOOLEAN :
       /\ fin => owed[r] \subseteq keys
       /\ found' = [found EXCEPT ![r] = keys]
       /\ final' = [final EXCEPT ![r] = fin]
       /\ owed' = [owed EXCEPT ![r] = @ \ keys]
       /\ IF keys = {} THEN NextScan(r, fin) ELSE Enter(r, "check")
  /\ UNCHANGED <<orders, active, lockVars, cursor, clean, watchVars, mishaps>>

(* Mutant: the clients with rows are taken for ghosts.                     *)
CheckInverted(r) ==
  /\ rstage[r] = "check"
  /\ LET ghosts == GetActiveClients(found[r])
     IN  /\ found' = [found EXCEPT ![r] = ghosts]
         /\ IF ghosts = {} THEN NextScan(r, final[r]) ELSE Enter(r, "remove")
  /\ UNCHANGED <<orders, active, lockVars, cursor, final, owed, clean, watchVars, mishaps>>

CheckOk(r) ==
  /\ rstage[r] = "check"
  /\ LET ghosts == found[r] \ GetActiveClients(found[r])
     IN  /\ found' = [found EXCEPT ![r] = ghosts]
         /\ IF ghosts = {} THEN NextScan(r, final[r]) ELSE Enter(r, "remove")
  /\ UNCHANGED <<orders, active, lockVars, cursor, final, owed, clean, watchVars, mishaps>>

RemoveOk(r) ==
  /\ rstage[r] = "remove"
  /\ PipeExec({}, found[r])
  /\ found' = [found EXCEPT ![r] = {}]
  /\ NextScan(r, final[r])
  /\ OwedKeeps
  /\ UNCHANGED <<orders, lockVars, cursor, final, clean, watchVars, mishaps>>

(* A failure of the pipeline is skipped.                                   *)
RemoveFail(r) ==
  /\ rstage[r] = "remove"
  /\ Mishap
  /\ \E gone \in SUBSET found[r] : PipeExec({}, gone)
  /\ found' = [found EXCEPT ![r] = {}]
  /\ clean' = [clean EXCEPT ![r] = FALSE]
  /\ NextScan(r, final[r])
  /\ OwedKeeps
  /\ UNCHANGED <<orders, lockVars, cursor, final, watchVars>>

(* A query or SSCAN fails, or a signal ends the loop: the process returns. *)
Abort(r) ==
  /\ rstage[r] \in {"page", "scan", "check"}
  /\ Mishap
  /\ clean' = [clean EXCEPT ![r] = FALSE]
  /\ Enter(r, "unlock")
  /\ UNCHANGED <<orders, active, lockVars, cursor, found, final, owed, watchVars>>

-----------------------------------------------------------------------------
StageOne(r) == PageOk(r) \/ PagesDone(r) \/ AddOk(r) \/ AddFail(r)
StageTwo(r) == ScanOk(r) \/ CheckOk(r) \/ RemoveOk(r) \/ RemoveFail(r)
Lifecycle(r) ==
  Start(r) \/ StartFail(r) \/ Renew(r) \/ RenewFail(r) \/ Unlock(r) \/ Die(r) \/ Abort(r)

ReconStep(r) == StageOne(r) \/ StageTwo(r) \/ Lifecycle(r)

ReconNext == Minute \/ \E r \in Process : ReconStep(r)

(* On its own, a reconciler meets the stores as the others have left them. *)
AloneInit ==
  /\ orders \in SUBSET OrderKey
  /\ active \in SUBSET Client
  /\ ReconInit

ReconSpec == AloneInit /\ [][ReconNext]_<<orders, active, reconVars>>

-----------------------------------------------------------------------------
(* Properties.                                                             *)

(* A process that works holds the lock, unless the watchdog missed so many *)
(* renewals in a row that the TTL ran out.                                 *)
HoldsLockWhileWorking ==
  \A r \in Process :
    rstage[r] \in Working => lock = r \/ (missed[r] + 1) * RenewIntvl >= LockTTL

(* r itself made the step: it moved on, or its ticker was served.          *)
OwnStep(r) == rstage'[r] # rstage[r] \/ timer'[r] < timer[r]

(* Nobody but its holder ends a lock before its TTL or prolongs it: what   *)
(* else happens to a lock is that it ages until the TTL has run out.  So   *)
(* neither the unlock nor the watchdog of a pass that has outlived its own *)
(* lock touches the lock another process took since.                       *)
ForeignLockKept ==
  [][\A r \in Process :
       lock = r =>
         \/ UNCHANGED lockVars
         \/ lock' = r /\ age' = age + 1
         \/ lock' = None /\ age + 1 = LockTTL
         \/ OwnStep(r)]_<<orders, active, reconVars>>

(* A pass that met no error leaves the set with the clients that have rows *)
(* and no other, whatever it began with, although the pages, the iteration *)
(* and the SREMs of another reconciler that runs into it come in between.  *)
CleanPassAgrees ==
  \A r \in Process :
    rstage[r] = "unlock" /\ clean[r] => active = {c \in Client : HasOrders(c)}

(* The inductive invariants behind them.  The lock of a process that works *)
(* is not older than its last renewals allow, unless they allow too much.  *)
LockInv(r) ==
  rstage[r] \in Working =>
    \/ lock = r /\ age <= missed[r] * RenewIntvl + timer[r]
    \/ (missed[r] + 1) * RenewIntvl >= LockTTL

(* What a pass without errors has done so far for client c: stage 1 up to  *)
(* the cursor, and stage 2 but for what the iteration owes or has found.   *)
SweptInv(r, c) ==
  /\ rstage[r] = "page" => (HasOrders(c) /\ c <= cursor[r] => c \in active)
  /\ rstage[r] = "add" =>
       (HasOrders(c) /\ c <= cursor[r] => c \in active \cup found[r])
  /\ rstage[r] \in {"scan", "check", "remove"} => (HasOrders(c) => c \in active)
  /\ rstage[r] = "scan" => (c \in active /\ ~HasOrders(c) => c \in owed[r])
  /\ rstage[r] \in {"check", "remove"} =>
       (c \in active /\ ~HasOrders(c)
          => c \in found[r] \/ (~final[r] /\ c \in owed[r]))
  /\ rstage[r] = "unlock" => (c \in active <=> HasOrders(c))

(* What a process is about to add has rows, what it is about to remove has *)
(* none.                                                                   *)
FoundInv(r, c) ==
  /\ rstage[r] = "add" /\ c \in found[r] => HasOrders(c)
  /\ rstage[r] = "remove" /\ c \in found[r] => ~HasOrders(c)

ReconInv ==
  /\ active \subseteq Client
  /\ ReconTypeOK
  /\ \A r \in Process :
       /\ LockInv(r)
       /\ \A c \in Client : FoundInv(r, c) /\ (clean[r] => SweptInv(r, c))

=============================================================================
