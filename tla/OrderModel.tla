----------------------------- MODULE OrderModel -----------------------------
(***************************************************************************)
(* Orders and their keys (internal/model/order.go).  A string is a         *)
(* sequence of characters; the characters that matter are the digits and   *)
(* the zero byte that fills an array.                                      *)
(***************************************************************************)
EXTENDS Sequences, Naturals

CONSTANTS
  Char,        \* the characters a string may have
  Digit,       \* '0' .. '9'
  Nul,         \* the zero byte
  ClientLen,   \* 12
  StockLen,    \* 6
  SH, SZ       \* the characters of ExchangeSH and ExchangeSZ

ASSUME OrderModelAssumption ==
  /\ Digit \subseteq Char
  /\ SH \in Char /\ SZ \in Char
  /\ ClientLen \in Nat /\ StockLen \in Nat

(* An Order, its timestamp left out.  "other" stands for every action that *)
(* is neither ActionCreate nor ActionDelete.                               *)
AnyOrder == [client : Seq(Char), ex : Seq(Char), stock : Seq(Char), act : {"cre", "del", "other"}]

(* Mutants: the test of the length is left to the database; the first      *)
(* character is not looked at.                                             *)
IsValidAnyLength(s, n) == Len(s) >= n /\ \A i \in 1 .. n : s[i] \in Digit
IsValidOffByOne(s, n) == Len(s) = n /\ \A i \in 2 .. n : s[i] \in Digit

(* n digits.                                                               *)
IsValid(s, n) == Len(s) = n /\ \A i \in 1 .. n : s[i] \in Digit

Validate(o) ==
  /\ IsValid(o.client, ClientLen)
  /\ o.ex \in {<<SH>>, <<SZ>>}
  /\ IsValid(o.stock, StockLen)
  /\ o.act \in {"cre", "del"}

(* copy into an array of n bytes: what is too long is cut off, what is too *)
(* short is followed by zero bytes.                                        *)
CopyTo(n, s) == [i \in 1 .. n |-> IF i <= Len(s) THEN s[i] ELSE Nul]

BuildOrderKey(o) ==
  [client |-> CopyTo(ClientLen, o.client),
   ex     |-> IF Len(o.ex) > 0 THEN o.ex[1] ELSE Nul,
   stock  |-> CopyTo(StockLen, o.stock)]

(* Orders about the same row.                                              *)
SameInstrument(o, q) == o.client = q.client /\ o.ex = q.ex /\ o.stock = q.stock

=============================================================================
