------------------------------- MODULE Config -------------------------------
(***************************************************************************)
(* LoadConfig (internal/config/config.go): defaults, then the file, then   *)
(* the environment; and what the numbers it returns make of the consumer   *)
(* (cmd/consumer/main.go).  The strings (brokers, topic, DSN, ...) are     *)
(* layered in the same way and left out.  Durations are numbers.           *)
(***************************************************************************)
EXTENDS Integers

(* The keys with a number that some part of the system computes with, and  *)
(* those of them that have an environment variable.                        *)
Key == {"db_batch_size", "db_batch_tout", "worker_num", "max_queue_size", "send_timeout"}
EnvKey == Key \ {"db_batch_size", "db_batch_tout"}

(* A file gives some of the keys; a variable is a number, or one of these. *)
CONSTANTS
  Unset,  \* it is not set, or empty
  Bad     \* it is no number

(* Mutant: the number of workers has no default.                           *)
SetDefaultNoWorkers ==
  [k \in Key |-> CASE k = "max_queue_size" -> 300
                   [] k = "send_timeout" -> 2
                   [] OTHER -> 0]

(* What is not set here is the zero of a new Config.                       *)
SetDefault ==
  [k \in Key |-> CASE k = "worker_num" -> 30
                   [] k = "max_queue_size" -> 300
                   [] k = "send_timeout" -> 2
                   [] OTHER -> 0]

(* yaml.Unmarshal writes the keys the file has.                            *)
Unmarshal(file, cfg) == [k \in Key |-> IF k \in DOMAIN file THEN file[k] ELSE cfg[k]]

(* A variable that is no number leaves the value as it is.                 *)
Override(env, cfg) ==
  [k \in Key |-> IF k \in EnvKey /\ env[k] \notin {Unset, Bad} THEN env[k] ELSE cfg[k]]

LoadConfig(file, env) == Override(env, Unmarshal(file, SetDefault))

(* Go divides towards zero.                                                *)
Quotient(a, b) == IF a >= 0 THEN a \div b ELSE -((-a) \div b)

(* How the consumer fares with cfg.  "panic": making the channels panics,  *)
(* in the main goroutine.  "no worker": the dispatcher divides by zero on  *)
(* the first record.  "dead workers": every worker panics before its loop, *)
(* and recovers; the dispatcher fills their channels and blocks for ever.  *)
ConsumerStart(cfg) ==
  LET n == cfg["worker_num"]
  IN  CASE n < 0 -> "panic"
        [] n = 0 -> "no worker"
        [] n > 0 /\ Quotient(cfg["max_queue_size"], n) + 1 < 0 -> "panic"
        [] n > 0 /\ Quotient(cfg["max_queue_size"], n) + 1 >= 0 ->
             IF cfg["db_batch_size"] < 0 \/ cfg["db_batch_tout"] <= 0
             THEN "dead workers" ELSE "runs"

=============================================================================
