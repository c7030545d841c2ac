------------------------------ MODULE Holdout ------------------------------
(***************************************************************************)
(* What the tournament promises of its final holdout (docs/runbook.md: the *)
(* holdout stays sealed through development and can be opened once, only   *)
(* after the required development stages complete).                        *)
(***************************************************************************)
EXTENDS Naturals

VARIABLES
  searched,   \* the required stages are complete
  opened,     \* the seal is broken
  looks       \* how often the holdout was evaluated

vars == <<searched, opened, looks>>

Init == searched = FALSE /\ opened = FALSE /\ looks = 0

Search == searched' = TRUE /\ UNCHANGED <<opened, looks>>

Open ==
  /\ searched /\ ~opened
  /\ opened' = TRUE
  /\ UNCHANGED <<searched, looks>>

Look ==
  /\ opened /\ looks = 0
  /\ looks' = 1
  /\ UNCHANGED <<searched, opened>>

Next == Search \/ Open \/ Look

Spec == Init /\ [][Next]_vars

=============================================================================
