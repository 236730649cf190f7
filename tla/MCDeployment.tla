---------------------------- MODULE MCDeployment ----------------------------
(***************************************************************************)
(* Instances of Deployment for TLC.                                        *)
(***************************************************************************)
EXTENDS Deployment, TLC

CONSTANTS r1, r2, r3, local, remote, web, v1, v2, built, none

\* Requests are interchangeable.  A run with a liveness property uses no symmetry.
RequestSymmetry == Permutations(Requests)

=============================================================================
