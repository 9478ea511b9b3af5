----------------------------- MODULE MCMqttChat -----------------------------
(* Model-checking instance of MqttChat. *)
EXTENDS MqttChat, TLC

CONSTANTS ana, dan

Chatters == {ana, dan}
Lines == [c \in Chatters |-> IF c = ana THEN 2 ELSE 1]
Filters == [c \in Chatters |-> Chatters]
=============================================================================
