------------------------------ MODULE Scripts ------------------------------
(***************************************************************************)
(* What an operator runs from a terminal: the scripts that change the      *)
(* estate of deployed agents, and the commands that rewrite the tables.    *)
(* They share nothing, and a behaviour looks at one kind of them.          *)
(***************************************************************************)
EXTENDS EngineEstate, DataLoad

VARIABLE kind    \* the scripts that are looked at

scriptsVars == <<kind, estateVars, loadVars>>

ScriptsInit ==
    /\ kind \in {"estate", "tables"}
    /\ EstateInit /\ LoadInit
    /\ kind # "estate" => engines = {} /\ busy = 0

ScriptsNext ==
    /\ UNCHANGED kind
    /\ \/ kind = "estate" /\ EstateNext /\ UNCHANGED loadVars
       \/ kind = "tables" /\ LoadNext /\ UNCHANGED estateVars

ScriptsSpec == ScriptsInit /\ [][ScriptsNext]_scriptsVars
=============================================================================
