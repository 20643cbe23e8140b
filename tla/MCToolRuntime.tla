---------------------------- MODULE MCToolRuntime ----------------------------
(***************************************************************************)
(* A model and a person, a tool both may call, one that only the person    *)
(* may, and one that needs a human approval.                               *)
(***************************************************************************)
EXTENDS ToolRuntime, TLC

CONSTANTS model, person, quotes, payments, contracts

MCGrants == model :> Tools @@ person :> Tools
=============================================================================
