--------------------------- MODULE MCRegistryExport ---------------------------
(* TLC instances of RegistryExport.                                         *)
EXTENDS RegistryExport
=============================================================================
