---------------------------- MODULE MCPaceTunnel ----------------------------
(* Instances of PaceTunnel for TLC: the CANs are model values. *)
EXTENDS PaceTunnel
=============================================================================
