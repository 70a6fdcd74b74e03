----------------------------- MODULE MCJobEngine -----------------------------
(***************************************************************************)
(* JobEngine on small instances.  JobEngine.cfg: two jobs, the older one   *)
(* may block, one request at a time, one restart.  JobEngineFinal.cfg and  *)
(* JobEngineCancel.cfg: one job and no restart are enough to lose a cancel.*)
(***************************************************************************)
EXTENDS JobEngine
===============================================================================
