----------------------------- MODULE RunLifecycle -----------------------------
(***************************************************************************)
(* What a row of the training_runs table promises its readers, whoever     *)
(* writes it: a row is created as preparing, moves along the table and is  *)
(* deleted once it is terminal.  TrainingRuns implements this.             *)
(***************************************************************************)
EXTENDS RunState

CONSTANT Runs
VARIABLE row

Init == row = [r \in Runs |-> "unborn"]

Create(r) == row[r] = "unborn" /\ row' = [row EXCEPT ![r] = "preparing"]
Move(r)   == \E t \in RunStates :
                Legal(row[r], t) /\ row' = [row EXCEPT ![r] = t]
Delete(r) == row[r] \in Terminal /\ row' = [row EXCEPT ![r] = "gone"]

Next == \E r \in Runs : Create(r) \/ Move(r) \/ Delete(r)

Spec == Init /\ [][Next]_row
===============================================================================
