----------------------------- MODULE MCPipeline ------------------------------
(***************************************************************************)
(* Deployments of one and of two sources; two restarts and two failures    *)
(* are enough for restarts to overlap and for the back-off to meet its cap.*)
(***************************************************************************)
EXTENDS Pipeline

MCSourceLists == {<<"exness">>, <<"exness", "icmarkets">>}
==============================================================================
