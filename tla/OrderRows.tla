------------------------------ MODULE OrderRows ------------------------------
(***************************************************************************)
(* What the consumers promise about the rows of the table `orders`, while  *)
(* no process dies and no partition moves.                                 *)
(*                                                                         *)
(*   rows      the rows                                                    *)
(*   todo[k]   the actions on key k that are not acknowledged yet, each    *)
(*             with its place in the topic                                 *)
(*   spoiled   the keys with an action that was put aside                  *)
(***************************************************************************)
EXTENDS Naturals

CONSTANT Key

VARIABLES rows, todo, spoiled

vars == <<rows, todo, spoiled>>

Action == [at : Nat, act : {"c", "d", "blank"}]

(* The topic can say anything, one action at each place.                   *)
Init ==
  /\ rows = {}
  /\ todo \in [Key -> SUBSET Action]
  /\ \A k \in Key : \A a, b \in todo[k] : a.at = b.at => a = b
  /\ spoiled = {}

RowIs(k, a) == a.act # "blank" /\ (k \in rows' <=> a.act = "c")

(* What is left when everything up to action a was acknowledged.           *)
After(k, a) == {b \in todo[k] : b.at > a.at}

Stay(k) ==
  /\ todo'[k] = todo[k]
  /\ k \in rows' <=> k \in rows
  /\ k \in spoiled' <=> k \in spoiled

(* The row takes the value of an action that is not acknowledged yet.      *)
Write(k, a) ==
  /\ todo'[k] = todo[k]
  /\ RowIs(k, a)
  /\ k \in spoiled' <=> k \in spoiled

(* The actions up to a are acknowledged: the row is as a says.             *)
Acknowledge(k, a) ==
  /\ todo'[k] = After(k, a)
  /\ RowIs(k, a)
  /\ k \in spoiled' <=> k \in spoiled

(* The actions up to a are put aside.                                      *)
PutAside(k, a) ==
  /\ todo'[k] = After(k, a)
  /\ k \in rows' <=> k \in rows
  /\ k \in spoiled'

(* A batch is about several keys: each of them takes a step of its own.    *)
Next ==
  /\ rows' \subseteq Key
  /\ spoiled' \subseteq Key
  /\ DOMAIN todo' = Key
  /\ \A k \in Key :
       \/ Stay(k)
       \/ \E a \in todo[k] : Write(k, a) \/ Acknowledge(k, a) \/ PutAside(k, a)

Spec == Init /\ [][Next]_vars

=============================================================================
