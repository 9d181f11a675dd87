--------------------------- MODULE MCTrafficRuntime ---------------------------
(* Small instances of TrafficRuntime for TLC. *)
EXTENDS TrafficRuntime, TLC

CONSTANTS p1, p2

\* The two ports are interchangeable where no liveness is checked.
PortSymmetry == Permutations({p1, p2})
=============================================================================
