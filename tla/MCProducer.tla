---------------------------- MODULE MCProducer ----------------------------
(* An instance of Producer for TLC: strings of two characters.             *)
EXTENDS Producer, TLC

CONSTANTS s1, s2

O(c, e, s, a) == [client |-> c, ex |-> e, stock |-> s, act |-> a]
c1 == <<"1", "1">>
c2 == <<"1", "2">>

(* Good orders of two clients, and for every test of Validate one that     *)
(* fails it.                                                               *)
MCOrder ==
  {O(c1, <<"1">>, <<"1">>, "cre"), O(c1, <<"1">>, <<"1">>, "del"), O(c2, <<"2">>, <<"1">>, "cre"),
   O(<<"1", "1", "1">>, <<"1">>, <<"1">>, "cre"), O(<<"x", "1">>, <<"1">>, <<"1">>, "cre"),
   O(c1, <<"1", "1">>, <<"1">>, "cre"), O(c1, <<>>, <<"1">>, "cre"),
   O(c1, <<"1">>, <<>>, "del"), O(c1, <<"1">>, <<"1">>, "other")}

MCHash == [c \in {o.client : o \in MCOrder} |-> IF c = c2 THEN 2 ELSE 1]

=============================================================================
