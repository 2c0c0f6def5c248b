---------------------------- MODULE Subscriptions ----------------------------
(***************************************************************************)
(* What a DBusSignalListener has asked the bus for                         *)
(* (src/venus_observability/dbus_listener.py): the one global subscription *)
(* and the explicit (service, interface, path) subscriptions, and the      *)
(* choice of the well-known name under which a batch is published.         *)
(*                                                                         *)
(* Well-known Venus names are positive numbers: the only thing the code    *)
(* does with the text of a name, beyond equality, is min() and sorted().   *)
(***************************************************************************)
EXTENDS Naturals

CONSTANTS Name,    \* well-known names under com.victronenergy.
          Iface,   \* D-Bus interfaces that emit ItemsChanged
          BusItem, \* com.victronenergy.BusItem, the one subscribe_global selects
          Path     \* item paths

NoName == 0

ASSUME NamesAreOrdered == Name \subseteq Nat \ {NoName}
ASSUME BusItemIsAnIface == BusItem \in Iface

VARIABLES globalSub, \* _global_subscription
          subs,      \* _subscriptions
          filterOn   \* _filter_registered

subscriptionVars == <<globalSub, subs, filterOn>>

Key == Name \X Iface \X Path

SubscriptionsTypeOK ==
  /\ globalSub \in BOOLEAN
  /\ subs \subseteq Key
  /\ filterOn \in BOOLEAN

InitSubscriptions ==
  /\ globalSub = FALSE
  /\ subs = {}
  /\ filterOn = FALSE

Global(i) == globalSub /\ i = BusItem

\* The interface test at the head of _message_filter.
Listens(i) == Global(i) \/ \E k \in subs : k[2] = i

\* The daemon's side of the installed match rules: a rule with a sender is
\* matched against the connection that owns the name when the signal is routed.
Routes(ownedBySender, i) ==
  Global(i) \/ \E k \in subs : k[1] \in ownedBySender /\ k[2] = i

Least(S) == CHOOSE n \in S : \A m \in S : n <= m

\* _select_service: every alias competes for the stable global identity, only
\* the subscribed ones otherwise.
Eligible(names, i) ==
  IF Global(i) THEN names
  ELSE {n \in names : \E k \in subs : k[1] = n /\ k[2] = i}

SelectService(names, i) ==
  IF Eligible(names, i) = {} THEN NoName ELSE Least(Eligible(names, i))

\* _process_values publishes the selected paths of a batch only.
Wanted(n, i, p) == Global(i) \/ <<n, i, p>> \in subs

\* subscribe_global and subscribe, their listener half: the rule is added, the
\* filter installed and the selection recorded.
RecordGlobal ==
  /\ ~globalSub
  /\ globalSub' = TRUE
  /\ filterOn' = TRUE
  /\ UNCHANGED subs

\* A second path of one (service, interface) adds no match rule, so it does
\* not reach _install_filter again.
RecordKey(k) ==
  /\ k \notin subs
  /\ subs' = subs \cup {k}
  /\ filterOn' = TRUE
  /\ UNCHANGED globalSub

\* _remove_subscriptions, the listener half.
ForgetSubscriptions ==
  /\ globalSub' = FALSE
  /\ subs' = {}
  /\ filterOn' = FALSE
=============================================================================
