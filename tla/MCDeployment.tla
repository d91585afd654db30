----------------------------- MODULE MCDeployment -----------------------------
(* Deployment with one sidecar, which two runs of the script, three lost     *)
(* requests and a restart of the server disturb.                             *)
EXTENDS Deployment

CONSTANT i1     \* an instance

===============================================================================
