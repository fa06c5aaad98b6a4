----------------------------- MODULE MCConsumer -----------------------------
(* Instances of Consumer for TLC.                                          *)
EXTENDS Consumer, TLC

CONSTANTS c1, c2, i1, i2, s1, s2

(* Every client has the worker of its own, or all share one.               *)
RouteApart == (c1 :> s1) @@ (c2 :> s2)
RouteTogether == [c \in Client |-> s1]

Create(c, x) == [key |-> [client |-> c, item |-> x], act |-> "c"]
Delete(c, x) == [key |-> [client |-> c, item |-> x], act |-> "d"]
Dirty(c, x) == [key |-> [client |-> c, item |-> x], act |-> "dirty"]
Blank(c, x) == [key |-> [client |-> c, item |-> x], act |-> "blank"]

(* All contents of one partition with n creates and deletes.               *)
LogsOf(n) ==
  {(1 :> l) : l \in [1 .. n -> {r \in Record : r.act \in {"c", "d"}}]}
Logs3 == LogsOf(3)

(* Everything that can be odd about a record, and enough records of c1 to  *)
(* fill its channel and block the dispatcher, with a worker that goes on   *)
(* and with one that has panicked.                                         *)
LogsOdd ==
  {(1 :> <<Create(c1, "a"), Create(c2, "a"), Delete(c1, "a")>>),
   (1 :> <<Create(c1, "a"), Dirty(c1, "a"), Delete(c1, "a"), Create(c2, "a")>>),
   (1 :> <<Blank(c1, "a"), Create(c1, "a"), Create(c1, "a"), Create(c2, "a")>>)}

(* The rows a and b of c1: created, deleted, and one of them again.        *)
LogsTakeover ==
  {(1 :> <<Create(c1, "a"), r, s, t>>) :
     r, s, t \in {Create(c1, "a"), Delete(c1, "a"), Create(c1, "b")}}

(* For the behaviours that lose or undo a record.                          *)
LogsLoss == {(1 :> <<Create(c1, "a"), Create(c2, "a")>>)}
LogsUndo == {(1 :> <<Create(c1, "a"), Delete(c1, "a")>>)}

=============================================================================
