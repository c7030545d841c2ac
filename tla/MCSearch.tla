------------------------------ MODULE MCSearch ------------------------------
(***************************************************************************)
(* The offline search: the tournament, the store its stages write with the *)
(* page that reads it, and the splits its trials are scored on.  The three *)
(* share no variable (the tournament's record is whole in Tournament, and  *)
(* Leaderboard looks at one stage file by file), so that a behaviour is    *)
(* one of a single part, chosen at the start; the two without an end of    *)
(* their own may rest.                                                     *)
(***************************************************************************)
EXTENDS MCTournament, Leaderboard, Splits

\* Two validation configs: a seventh row to spare for either the folds or the
\* holdout.
MCOneFold == [folds |-> 1, share |-> <<1, 4>>]
MCConfigs == {MCOneFold, [folds |-> 2, share |-> <<1, 8>>]}

\* The first trial scores, the second's score is zero.
MCTrialScore == <<1, 0>>
MCQuarter == <<1, 4>>
MCGaps == {-1, 0, 2}

VARIABLE part

searchVars == <<part, vars, boardVars, splitVars>>

SearchInit ==
  /\ part \in {"tournament", "board", "splits"}
  /\ Init /\ BoardInit
  /\ part # "splits" => config = MCOneFold
  /\ SplitsInit

SearchNext ==
  /\ UNCHANGED part
  /\ \/ part = "tournament" /\ Next /\ UNCHANGED <<boardVars, splitVars>>
     \/ part = "board" /\ BoardNext /\ UNCHANGED <<vars, splitVars>>
     \/ part = "splits" /\ SplitsNext /\ UNCHANGED <<vars, boardVars>>
     \/ part # "tournament" /\ UNCHANGED <<vars, boardVars, splitVars>>

SearchSpec == SearchInit /\ [][SearchNext]_searchVars
=============================================================================
