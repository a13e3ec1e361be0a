---------------------------- MODULE MCDeployment ----------------------------
(***************************************************************************)
(* Instances of Deployment for TLC.                                        *)
(***************************************************************************)
EXTENDS DeploymentProperties, TLC

=============================================================================
