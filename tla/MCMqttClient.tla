---------------------------- MODULE MCMqttClient ----------------------------
(***************************************************************************)
(* An instance of MqttClient for TLC: two components that share a topic.   *)
(***************************************************************************)
EXTENDS MqttClient

CONSTANTS c1, c2, x, y

SharedTopic == [c \in Components |-> IF c = c1 THEN <<x>> ELSE <<x, y>>]
=============================================================================
