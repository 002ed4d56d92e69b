------------------------------- MODULE MCVault -------------------------------
(***************************************************************************)
(* Vault on instances small enough for TLC.  The migrations keep what the  *)
(* real list has: a version that only creates, one that mixes both kinds,  *)
(* one of columns only, whose number another branch used as well.          *)
(***************************************************************************)
EXTENDS Vault, TLC

MCMigrations == << <<"create", "create">>, <<"column", "create">>, <<"column">> >>

Interchangeable == Permutations(Password)
=============================================================================
