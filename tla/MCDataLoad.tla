----------------------------- MODULE MCDataLoad -----------------------------
(* Three tables: regenerating the first adds rows, the others keep their count. *)
EXTENDS DataLoad
CONSTANTS t1, t2, t3
MCRewrite == <<t1, t2, t3>>
MCLoadOrder == <<t3, t1, t2>>
MCNumRows == [t \in Table |-> 1]
MCGenRows == [t \in Table |-> IF t = t1 THEN 2 ELSE 1]
=============================================================================
