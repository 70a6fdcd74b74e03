----------------------------- MODULE MCDownloads -----------------------------
(***************************************************************************)
(* Downloads on small instances.                                           *)
(*   Downloads.cfg        two downloads of one file, two callers           *)
(*   DownloadsCancel.cfg  one download, one caller: is a cancel obeyed?    *)
(***************************************************************************)
EXTENDS Downloads
===============================================================================
