--------------------------- MODULE MCProducerSync ---------------------------
(* An instance of ProducerSync for TLC: strings of one character.          *)
EXTENDS ProducerSync, TLC

CONSTANTS s1, s2

O(c, a) == [client |-> <<c>>, ex |-> <<"1">>, stock |-> <<"1">>, act |-> a]

(* An order that is valid (messages carry their number) and one that isn't. *)
MCOrder == {O("1", "cre"), O("x", "cre")}

(* Files with no worker, with one and with two, with channels without      *)
(* capacity and with little, one that makes New panic, and files whose     *)
(* missing keys the defaults or the variables must provide.                *)
File(n, q) == [worker_num |-> n, max_queue_size |-> q]
MCFiles ==
  {File(0, 1), File(1, 0), File(1, 2), File(1, -1),
   [db_batch_size |-> 2, db_batch_tout |-> 1], [db_batch_size |-> 2]}

Env(n, q) ==
  [k \in EnvKey |-> CASE k = "worker_num" -> n [] k = "max_queue_size" -> q [] OTHER -> Unset]
MCEnvs == {Env(Unset, Bad), Env(2, 1)}

=============================================================================
