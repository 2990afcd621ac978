---------------------------- MODULE MCBrokerDial ----------------------------
(* Instances of BrokerDial for TLC. *)
EXTENDS BrokerDial, FiniteSets, TLC

CONSTANT MaxLate  \* bound: callbacks MQTTnet has yet to run

Symmetric == Permutations(Brokers) \union Permutations(Readers)

FewLate == Cardinality(late) <= MaxLate
=============================================================================
