------------------------------ MODULE MCModelServers ------------------------------
(* Two servers one after the other, two callers, two models *)
EXTENDS ModelServers

MCSupervisors == 1 .. 2
===================================================================================
