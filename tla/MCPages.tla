------------------------------ MODULE MCPages ------------------------------
(* Every page of the two applications, on a small case.                    *)
EXTENDS Pages, TLC

CONSTANTS s1, s2,
          mill, crusher, belt, liner, bolt, wo1, wo2, wo3, ann, bob, f1, f2,
          truck, i1, i2,
          t1, t2, t3, l1, l2, d1, d2,
          flow, parts, stock, orders, trace1, hand, work, n1, n2, n3, n4, n5,
          method, look, changed, attention

\* Three machines that depend on each other, reached in two ways at one distance; a part
\* consumed by orders of two machines; an operator with a vehicle, one without.
MCDependsOn    == {<<mill, crusher>>, <<crusher, mill>>, <<mill, belt>>, <<crusher, belt>>,
                   <<belt, mill>>}
MCReplacedPart == {<<wo1, liner>>, <<wo2, liner>>, <<wo3, bolt>>, <<wo1, bolt>>}
MCHasWorkOrder == {<<mill, wo1>>, <<belt, wo2>>, <<mill, wo3>>}
MCLoggedFor    == {<<f1, ann>>, <<f2, ann>>, <<f2, bob>>}
MCOperates     == {<<ann, truck>>}
MCInvolvedIn   == {<<truck, i1>>, <<truck, i2>>}

\* Two joined tables and one alone, in two layers and two domains.
MCJoins    == {<<t1, t2>>, <<t2, t1>>}
MCLayerOf  == t1 :> l1 @@ t2 :> l2 @@ t3 :> l2
MCDomainOf == t1 :> d1 @@ t2 :> d1 @@ t3 :> d2

\* Five agents, so that more than three may run up, listed out of the order of ids;
\* capabilities whose words overlap with each other's and with the agents' names.
MCListed     == <<3, 1, 2, 5, 4>>
MCTraversals == <<trace1>>
MCTables     == <<hand, work>>
MCOtherTerms == <<<<n1>>, <<n2>>, <<n3>>, <<n4>>, <<n5>>>>
MCWeightOf   == trace1 :> 4 @@ hand :> 3 @@ work :> 3 @@ [n \in {n1, n2, n3, n4, n5} |-> 2]
MCWordsOf    == trace1 :> {flow, parts} @@ hand :> {parts, stock}
                @@ work :> {orders, stock} @@ n1 :> {orders} @@ n2 :> {flow}
                @@ n3 :> {parts, stock} @@ n4 :> {flow} @@ n5 :> {orders}
MCQuestionOf == trace1 :> {flow, parts} @@ hand :> {parts, stock} @@ work :> {orders}
MCMethods    == <<method>>
MCBackstops  == <<look, changed, attention>>
MCCatalogues ==
    [1..5 -> SUBSET {trace1, hand}]
      \cup {[a \in 1..5 |-> IF a \in 2..4 THEN f[a] ELSE {}] :
              f \in [2..4 -> SUBSET {trace1, hand, work}]}
=============================================================================
