------------------------------ MODULE MCKeyVault --------------------------------
(* Instances of KeyVault for model checking.                                   *)
EXTENDS KeyVault

CONSTANTS q1, q2, q3, k0
=================================================================================
