---------------------------- MODULE MCTrainingRuns ----------------------------
(***************************************************************************)
(* TrainingRuns on small instances.                                        *)
(*   TrainingTurns.cfg    two runs take turns on the GPU, one caller, with *)
(*                        the liveness of the poller                       *)
(*   TrainingRestart.cfg  one run, resumed once, and one restart           *)
(*   TrainingOrphan.cfg   two callers at once on one run                   *)
(*   TrainingPin.cfg      a stopped run is cancelled while another trains  *)
(*   TrainingReattach.cfg a restart in the middle of a resume              *)
(***************************************************************************)
EXTENDS TrainingRuns
===============================================================================
