---- MODULE MCRuntimeSession ----
(* A small instance of RuntimeSession: r and u compete for one buffer id. *)
EXTENDS RuntimeSession, TLC

CONSTANTS r, u, v, g

MCIdOf == r :> 1 @@ u :> 1 @@ v :> 2 @@ g :> 3
====
