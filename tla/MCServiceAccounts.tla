------------------------- MODULE MCServiceAccounts ---------------------------
(* ManagedServiceAccounts with the instances of its .cfg files.            *)
EXTENDS ManagedServiceAccounts
=============================================================================
