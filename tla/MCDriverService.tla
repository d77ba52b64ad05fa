-------------------------- MODULE MCDriverService --------------------------
(* Both builds, with two turns of the loop that waits for the database.      *)
EXTENDS DriverService
MCBuilds == {"wfp", "nt"}
=============================================================================
