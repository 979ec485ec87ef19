--------------------------- MODULE MCWorkflowInbox ---------------------------
(* Two instances, one of which applies what arrives; a document for it and  *)
(* a broadcast that may fail to parse.                                      *)
EXTENDS WorkflowInbox, TLC

CONSTANTS left, right, toLeft, toAll, everyone

MCAddresseeOf == [m \in Messages |-> IF m = toAll THEN everyone ELSE left]
==============================================================================
