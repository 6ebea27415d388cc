------------------------------ MODULE Service ------------------------------
(***************************************************************************)
(* What runs behind the pages: a swarm's workflow, the tools' way into     *)
(* BigQuery, and the local proxy.  Each is a process of its own, and a     *)
(* behaviour looks at one of them.                                         *)
(***************************************************************************)
EXTENDS Swarm, ToolBoundary, Proxy

VARIABLE part    \* the process that is looked at

serviceVars == <<part, swarmVars, boundaryVars, proxyVars>>

ServiceInit ==
    /\ part \in {"swarm", "tools", "proxy"}
    /\ SwarmInit /\ BoundaryInit /\ ProxyInit
    /\ part # "tools" => setting = "id" /\ base = [v \in View |-> {}]

ServiceNext ==
    /\ UNCHANGED part
    /\ \/ part = "swarm" /\ SwarmNext /\ UNCHANGED <<boundaryVars, proxyVars>>
       \/ part = "tools" /\ BoundaryNext /\ UNCHANGED <<swarmVars, proxyVars>>
       \/ part = "proxy" /\ ProxyNext /\ UNCHANGED <<swarmVars, boundaryVars>>

\* The fairness of Proxy, where the proxy is looked at.
ServiceSpec == /\ ServiceInit /\ [][ServiceNext]_serviceVars
               /\ \A t \in Handler : WF_proxyVars(part = "proxy" /\ Proxied(t))
=============================================================================
