------------------------------- MODULE MCChat -------------------------------
(* Two questions, one delegate, one tool: see MCChat.cfg. *)
EXTENDS Chat, TLC
=============================================================================
