---------------------------- MODULE MCSignalPath ----------------------------
(* SignalPath for TLC: payloads, subscriptions and serial labels.          *)
EXTENDS SignalPath, TLC

Symmetry == Permutations(Conn)

\* Two numbers, or an unavailable value beside an item without one; the
\* subscriptions below select the first.
MixedItems ==
  {[p \in {1, 2} |-> "number"],
   [p \in {1, 2} |-> IF p = 1 THEN "unavailable" ELSE "no value"]}

\* A number and an unavailable value of one gauge.
NumberOrNot == {[p \in {1} |-> x] : x \in {"number", "unavailable"}}

\* Two numbers; the subscriptions below select the first.
TwoNumbers == {[p \in {1, 2} |-> "number"]}

NoKeys == {}
AliasKeys == {<<1, "BusItem", 1>>, <<2, "BusItem", 1>>}

\* Two services whose names end alike share a serial label, or do not.
SharedSerial == [n \in Name |-> 1]
OwnSerial == [n \in Name |-> n]
=============================================================================
