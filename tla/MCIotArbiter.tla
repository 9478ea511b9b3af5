---------------------------- MODULE MCIotArbiter ----------------------------
(* Model-checking instance of IotArbiter. *)
EXTENDS IotArbiter, TLC

CONSTANTS UPB_A, chat_ana, sprc_chat_ana

Clients == {Arbiter}
Stations == {UPB_A}
PairTopics == {UPB_A, chat_ana}
Topics == PairTopics \cup {sprc_chat_ana}
Filters == [c \in Clients |-> Topics]
=============================================================================
