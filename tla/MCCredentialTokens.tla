--------------------------- MODULE MCCredentialTokens ---------------------------
(***************************************************************************)
(* Constants of the runs of CredentialTokens.                              *)
(***************************************************************************)
EXTENDS CredentialTokens

ThirtyMinutes == [n |-> 30, unit |-> "mins"]
================================================================================
