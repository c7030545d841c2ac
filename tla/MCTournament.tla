---------------------------- MODULE MCTournament ----------------------------
(***************************************************************************)
(* Instances of Tournament: a baseline, a stage of five trials (one may    *)
(* fail) and a neural stage.                                               *)
(***************************************************************************)
EXTENDS Tournament, TLC

MCStages == {"baseline", "trees", "neural"}
MCRequired == {"baseline", "trees"}
MCPlan == ("baseline" :> 1) @@ ("trees" :> 5) @@ ("neural" :> 1)
\* The third tree beats the first two, the second is not eligible, and the
\* neural trial beats them all.
MCScore == ("baseline" :> <<1>>) @@ ("trees" :> <<2, 5, 3, 3, 1>>) @@ ("neural" :> <<4>>)
MCEligible == ("baseline" :> {1}) @@ ("trees" :> {1, 3, 4, 5}) @@ ("neural" :> {1})

\* A shorter plan for runs that look for a counterexample.
MCShortPlan == ("baseline" :> 1) @@ ("trees" :> 1) @@ ("neural" :> 1)
MCShortEligible == [s \in MCStages |-> {1}]

Symmetry == Permutations(Procs)
=============================================================================
