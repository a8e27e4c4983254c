---------------------------- MODULE MCDeployment ----------------------------
(***************************************************************************)
(* A small instance of Deployment for TLC.  Two faults can leave two       *)
(* launches behind; the recorded one and the one being started need        *)
(* numbers of their own.                                                   *)
(***************************************************************************)
EXTENDS Deployment, TLC

ASSUME Cardinality(Launch) >= MaxFaults + 2

=============================================================================
