------------------------------ MODULE MCBroker ------------------------------
(***************************************************************************)
(* The instance of Broker that TLC checks: one subscription of each kind,  *)
(* two publishers whose broadcasts overlap, and channels small enough to   *)
(* overflow.                                                               *)
(***************************************************************************)
EXTENDS Broker
=============================================================================
