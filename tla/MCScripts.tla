----------------------------- MODULE MCScripts -----------------------------
(* Two agents, one older duplicate of the first, three slots; and three tables, of *)
(* which regenerating the first adds rows and the others keep their count.         *)
EXTENDS Scripts, TLC
CONSTANTS a1, a2, l1, t1, t2, t3
MCTwin == l1 :> a1
MCOrders == {<<a1, a2>>, <<a1, a1>>}
MCRewrite == <<t1, t2, t3>>
MCLoadOrder == <<t3, t1, t2>>
MCNumRows == [t \in Table |-> 1]
MCGenRows == [t \in Table |-> IF t = t1 THEN 2 ELSE 1]
=============================================================================
