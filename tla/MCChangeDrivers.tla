---------------------------- MODULE MCChangeDrivers ----------------------------
(* All drivers, each on a target of its own; two values for what else the   *)
(* configuration of a target holds, so that it can drift and be restored.   *)
EXTENDS ChangeDrivers

MCDrivers == {"network", "blob", "versioning", "file"}
MCRests == {"live", "changed"}
==============================================================================
