------------------------------ MODULE MCDashboard ------------------------------
(***************************************************************************)
(* Constants of the run of Dashboard: processes and requests are alike.    *)
(*                                                                         *)
(* Two states are one if they differ only in an entry of Redis that has    *)
(* expired or, once disordered, in the history that NeverOlder no longer   *)
(* looks at.                                                               *)
(***************************************************************************)
EXTENDS Dashboard, TLC

Alike == Permutations(Processes) \cup Permutations(Requests)

SameFuture ==
  <<now, key, version, at, began, step, value, memory, faults, disordered,
    IF Hit(redis) THEN redis ELSE None,
    IF disordered THEN None ELSE <<crowded, shown, floor>>>>
================================================================================
