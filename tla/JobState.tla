------------------------------- MODULE JobState -------------------------------
(***************************************************************************)
(* The job lifecycle table of core/src/orchestrator/state.rs.  A row of    *)
(* the jobs table is in one of nine states; two more values stand for a    *)
(* job that has not been submitted yet and for a row that was deleted.     *)
(***************************************************************************)

Waiting  == {"queued", "blocked"}
InFlight == {"scheduled", "preparing", "running", "post"}
Terminal == {"completed", "failed", "cancelled"}

JobStates == Waiting \cup InFlight \cup Terminal

Absent == {"unborn", "gone"}
Rows   == JobStates \cup Absent

\* The legal moves, one set of successors per state.
Successors(s) ==
    CASE s = "queued"    -> {"scheduled", "cancelled", "failed"}
      [] s = "scheduled" -> {"preparing", "blocked", "cancelled", "failed"}
      [] s = "blocked"   -> {"scheduled", "cancelled", "failed"}
      [] s = "preparing" -> {"running", "blocked", "cancelled", "failed"}
      [] s = "running"   -> {"post", "cancelled", "failed"}
      [] s = "post"      -> {"completed", "failed"}
      [] OTHER           -> {}

CanTransition(s, t) == t \in Successors(s)
===============================================================================
