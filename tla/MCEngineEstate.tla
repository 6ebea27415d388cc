--------------------------- MODULE MCEngineEstate ---------------------------
(* Two agents, one older duplicate of the first, three slots. *)
EXTENDS EngineEstate, TLC
CONSTANTS a1, a2, l1
MCTwin == l1 :> a1
MCOrders == {<<a1, a2>>, <<a1, a1>>}
=============================================================================
