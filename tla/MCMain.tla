------------------------------- MODULE MCMain -------------------------------
(* The deployment of main.cpp: the server 3000, which owns the memory, and  *)
(* one client 2000, which also holds the lock table.                        *)
EXTENDS CoherenceProperties

\* The hypothesis of theorem MainNeverFails holds of this run.
ASSUME DeploymentAssumption == MainDeployment

MainMayWrite == [a \in Addr |-> Client]

=============================================================================
