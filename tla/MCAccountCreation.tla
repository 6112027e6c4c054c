---------------------------- MODULE MCAccountCreation ----------------------------
(***************************************************************************)
(* Constants of the runs of AccountCreation.                               *)
(***************************************************************************)
EXTENDS AccountCreation, TLC

Alike == Permutations(Clients) \cup Permutations(Workers) \cup Permutations(Emails)
================================================================================
