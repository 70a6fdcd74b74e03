------------------------------- MODULE RunState -------------------------------
(***************************************************************************)
(* The training run lifecycle table, RunState of                           *)
(* core/src/db/training_runs.rs.                                           *)
(***************************************************************************)

Terminal  == {"completed", "failed", "cancelled"}
RunStates == Terminal \cup {"preparing", "running", "paused", "interrupted",
                            "resuming", "finishing"}
\* Before the row is created, and after it was deleted.
Rows == RunStates \cup {"unborn", "gone"}

\* can_transition_to
Moves ==
    ({"preparing", "resuming"} \X {"running", "failed", "cancelled"})
      \cup ({"running"} \X {"paused", "interrupted", "finishing", "failed", "cancelled"})
      \cup ({"paused", "interrupted"} \X {"resuming", "cancelled"})
      \cup ({"finishing"} \X {"completed", "failed"})

Legal(s, t) == <<s, t>> \in Moves

\* list_recoverable: what the poller, recovery and preflight look at.
Recoverable == {"running", "resuming", "finishing"}
===============================================================================
