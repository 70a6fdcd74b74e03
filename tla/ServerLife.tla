-------------------------------- MODULE ServerLife --------------------------------
(***************************************************************************)
(* What a runtime adapter promises of the server processes it starts, one  *)
(* after the other: a server is started only when no other is kept, and    *)
(* one that was given up is never taken back.  ModelServers implements it. *)
(***************************************************************************)
CONSTANT Supervisors

VARIABLE phase     \* fresh, then kept, then gone

Init == phase = [s \in Supervisors |-> "fresh"]

Keep(s) ==
    /\ phase[s] = "fresh"
    /\ \A t \in Supervisors : phase[t] # "kept"
    /\ phase' = [phase EXCEPT ![s] = "kept"]

LetGo(s) == phase[s] = "kept" /\ phase' = [phase EXCEPT ![s] = "gone"]

Next == \E s \in Supervisors : Keep(s) \/ LetGo(s)

Spec == Init /\ [][Next]_phase
===================================================================================
