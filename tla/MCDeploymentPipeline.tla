------------------------- MODULE MCDeploymentPipeline -------------------------
(* Small instances of the deployment pipeline. *)
EXTENDS DeploymentPipeline, WorkerContract

CONSTANTS d1, d2, w1
=============================================================================
