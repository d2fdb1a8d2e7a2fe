---------------------------- MODULE MCAgentChat ----------------------------
(* AgentChat with three requests for one conversation on two servers. *)
EXTENDS AgentChat, TLC

CONSTANTS i1, i2

MCInstances == {i1, i2}
MCSetups == {<< <<i1, i1, i2>>, 3>>, << <<i1, i2, i1>>, 2>>}
=============================================================================
