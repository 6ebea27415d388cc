------------------------------ MODULE MCHandover ------------------------------
(* Two runs of the brief, one delegate, one tool: see the MCHandover*.cfg. *)
EXTENDS Handover, TLC
=============================================================================
