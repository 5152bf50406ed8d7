---------------------------- MODULE MCVaultSession ---------------------------
(* One login that may be granted, and room to change the protection.         *)
EXTENDS VaultSession
=============================================================================
