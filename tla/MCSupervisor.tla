---------------------------- MODULE MCSupervisor ----------------------------
(***************************************************************************)
(* Two listeners with one connection each.                                 *)
(***************************************************************************)
EXTENDS Supervisor, TLC

CONSTANTS L1, L2, a, c

MCHome == a :> L1 @@ c :> L2
=============================================================================
