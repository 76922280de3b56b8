----------------------------- MODULE MCAAFFile -----------------------------
(***************************************************************************)
(* TLC instances of AAFFile: interchangeable client processes.             *)
(***************************************************************************)
EXTENDS AAFFile, TLC

ClientSymmetry == Permutations(Client)
=============================================================================
