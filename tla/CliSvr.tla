------------------------------- MODULE CliSvr -------------------------------
(***************************************************************************)
(* The query server (cmd/cli_svr/main.go): handleQueryOrder looks for the  *)
(* client in Redis and, only if it is there, reads its orders from MySQL.  *)
(*                                                                         *)
(*   qstage[r]   where request r is: "idle", "check" (about to ask Redis), *)
(*               "fetch" (about to ask MySQL), "done" (answered)           *)
(*   qclient[r]  the client_id of the request                              *)
(*   reply[r]    the answer: its status, and the items of its orders       *)
(* History variable:                                                       *)
(*   cut         the requests for which GetOrders lost rows on the way     *)
(***************************************************************************)
EXTENDS Stores

CONSTANTS
  Request,   \* the requests being served at the same time
  None

VARIABLES qstage, qclient, reply, cut

cliVars == <<qstage, qclient, reply, cut>>

ItemsOf(c) == {k.item : k \in {j \in orders : j.client = c}}

Reply == [status : {"none", "ok", "error"}, items : SUBSET Item]
NoReply == [status |-> "none", items |-> {}]

CliTypeOK ==
  /\ qstage \in [Request -> {"idle", "check", "fetch", "done"}]
  /\ qclient \in [Request -> Client \cup {None}]
  /\ reply \in [Request -> Reply]
  /\ cut \subseteq Request

CliInit ==
  /\ qstage = [r \in Request |-> "idle"]
  /\ qclient = [r \in Request |-> None]
  /\ reply = [r \in Request |-> NoReply]
  /\ cut = {}

(* A well-formed request arrives.                                          *)
Arrive(r, c) ==
  /\ qstage[r] = "idle"
  /\ qstage' = [qstage EXCEPT ![r] = "check"]
  /\ qclient' = [qclient EXCEPT ![r] = c]
  /\ UNCHANGED <<reply, cut, orders, active>>

Answer(r, status, items) ==
  /\ qstage' = [qstage EXCEPT ![r] = "done"]
  /\ reply' = [reply EXCEPT ![r] = [status |-> status, items |-> items]]
  /\ UNCHANGED <<qclient, orders, active>>

(* Not a member: the answer is empty, MySQL is not asked.                  *)
ShortCircuit(r) ==
  /\ qstage[r] = "check"
  /\ qclient[r] \notin active
  /\ Answer(r, "ok", {})
  /\ UNCHANGED cut

HitActive(r) ==
  /\ qstage[r] = "check"
  /\ qclient[r] \in active
  /\ qstage' = [qstage EXCEPT ![r] = "fetch"]
  /\ UNCHANGED <<qclient, reply, cut, orders, active>>

GetOrders(r) ==
  /\ qstage[r] = "fetch"
  /\ Answer(r, "ok", ItemsOf(qclient[r]))
  /\ UNCHANGED cut

(* The connection breaks or the deadline passes while GetOrders iterates,  *)
(* or a row cannot be scanned.  rows.Err is not looked at and the row is   *)
(* skipped: what was read so far is answered like the whole.               *)
GetOrdersTruncated(r) ==
  /\ qstage[r] = "fetch"
  /\ \E items \in SUBSET ItemsOf(qclient[r]) :
       items # ItemsOf(qclient[r]) /\ Answer(r, "ok", items)
  /\ cut' = cut \cup {r}

(* Redis or MySQL report an error, or the deadline passes: status 500.     *)
QueryError(r) ==
  /\ qstage[r] \in {"check", "fetch"}
  /\ Answer(r, "error", {})
  /\ UNCHANGED cut

Sent(r) ==
  /\ qstage[r] = "done"
  /\ qstage' = [qstage EXCEPT ![r] = "idle"]
  /\ qclient' = [qclient EXCEPT ![r] = None]
  /\ reply' = [reply EXCEPT ![r] = NoReply]
  /\ cut' = cut \ {r}
  /\ UNCHANGED <<orders, active>>

CliStep(r) ==
  \/ \E c \in Client : Arrive(r, c)
  \/ ShortCircuit(r) \/ HitActive(r)
  \/ GetOrders(r) \/ GetOrdersTruncated(r) \/ QueryError(r)
  \/ Sent(r)

=============================================================================
