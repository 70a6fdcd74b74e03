--------------------------------- MODULE MCDatasets ---------------------------------
(* A dataset of the user's video and a second one of any pictures it finds *)
EXTENDS Datasets, TLC

CONSTANTS d1, d2, u1, x1, x2

MCHome == (u1 :> User) @@ (x1 :> d1) @@ (x2 :> d1)
=====================================================================================
