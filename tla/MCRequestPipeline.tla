---------------------------- MODULE MCRequestPipeline ----------------------------
(***************************************************************************)
(* Constants of the run of RequestPipeline: users are alike.               *)
(***************************************************************************)
EXTENDS RequestPipeline, TLC

Alike == Permutations(Users)
================================================================================
