------------------------------- MODULE Stores -------------------------------
(***************************************************************************)
(* The two stores that every part of qsys shares, and the operations the   *)
(* repositories of internal/db offer on them.                              *)
(*                                                                         *)
(*   orders  the rows of the MySQL table `orders`.  The table has a unique *)
(*           index on (client_id, exchange_type, stock_code), so its       *)
(*           content is a set of order keys.                               *)
(*   active  the Redis set qsys:active_clients.                            *)
(*                                                                         *)
(* One SQL statement runs in its own transaction and one Redis command is  *)
(* atomic, so each operator below is a single step.                        *)
(***************************************************************************)

CONSTANTS
  Client,   \* client_id values
  Item      \* exchange_type and stock_code of an order, taken together

VARIABLES
  orders,
  active

(* model.OrderKey, the comparable struct that identifies an order.         *)
OrderKey == [client : Client, item : Item]

(* The clients of a set of order keys.                                     *)
ClientsOf(keys) == {k.client : k \in keys}

(* SELECT ... WHERE client_id = c returns a row.                           *)
HasOrders(c) == \E k \in orders : k.client = c

StoresTypeOK ==
  /\ orders \subseteq OrderKey
  /\ active \subseteq Client

(* Both stores start empty: init.sql creates the table, Redis has no key.  *)
StoresInit ==
  /\ orders = {}
  /\ active = {}

-----------------------------------------------------------------------------
(* MySQL: internal/db/mysql.go                                             *)

(* INSERT IGNORE: rows that exist already are left alone.                  *)
BatchCreateOrders(keys) == orders' = orders \cup keys

(* DELETE ... IN: rows that do not exist are no error.                     *)
BatchDeleteOrders(keys) == orders' = orders \ keys

(* SELECT DISTINCT client_id ... IN: those of the given clients that have  *)
(* a row.                                                                  *)
GetActiveClients(clients) == {c \in clients : HasOrders(c)}

(* Redis: a pipeline of SADD commands followed by SREM commands.           *)
PipeExec(adds, rems) == active' = (active \cup adds) \ rems

=============================================================================
