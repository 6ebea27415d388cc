----------------------------- MODULE MCService -----------------------------
(* What runs behind the pages, on a small instance.                        *)
EXTENDS Service, TLC

CONSTANTS a1, a2, fatigue, assets, scored, elsewhere

\* A table that one agent declares and the other does not, a view, and a table of
\* another project, in texts that read one, two or none of them.
MCQuery == {{}, {fatigue}, {assets}, {scored}, {elsewhere}, {assets, scored}}
MCGrant == a1 :> {fatigue} @@ a2 :> {assets, fatigue}
MCSpelling == a1 :> "none" @@ a2 :> "id"
=============================================================================
