---------------------------- MODULE Conversation ----------------------------
(***************************************************************************)
(* What a page that asks agents promises its reader, without the stream:   *)
(* one question is in progress at a time, each one asked ends in exactly   *)
(* one way, and that ending is final.                                      *)
(***************************************************************************)
CONSTANT Question
VARIABLE outcome

Outcomes == {"unasked", "asking", "answered", "empty", "failed", "stopped"}

TypeOK == outcome \in [Question -> Outcomes]

Init == outcome = [q \in Question |-> "unasked"]

\* Asking a question stops the one in progress.
Ask(q) ==
    /\ outcome[q] = "unasked"
    /\ outcome' = [p \in Question |-> IF p = q THEN "asking"
                                      ELSE IF outcome[p] = "asking" THEN "stopped"
                                      ELSE outcome[p]]

Settle(q) ==
    /\ outcome[q] = "asking"
    /\ \E end \in {"answered", "empty", "failed", "stopped"} :
           outcome' = [outcome EXCEPT ![q] = end]

Next == \E q \in Question : Ask(q) \/ Settle(q)

Spec == Init /\ [][Next]_outcome

\* What the reader is told of a question that ended is never taken back.
OutcomeIsFinal ==
    [][\A q \in Question :
           outcome[q] \notin {"unasked", "asking"} => outcome'[q] = outcome[q]]_outcome

OneAtATime ==
    \A p, q \in Question : outcome[p] = "asking" /\ outcome[q] = "asking" => p = q
=============================================================================
