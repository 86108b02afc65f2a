-------------------------------- MODULE MCHub --------------------------------
(* Values of the constants of HubNamespace for its TLC runs.               *)
EXTENDS HubNamespace

=============================================================================
