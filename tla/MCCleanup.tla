----------------------------- MODULE MCCleanup -------------------------------
(* DeltaCleanup with the instances of its .cfg files.                      *)
EXTENDS DeltaCleanup
=============================================================================
