------------------------------- MODULE MCSessions -------------------------------
(***************************************************************************)
(* Constants of the run of Sessions.  Users, browsers and requests of a    *)
(* kind are alike.                                                         *)
(*                                                                         *)
(* Two states are one if they differ only in latest, in the token of a     *)
(* request that does not use it any more, or in how far window has come:   *)
(* tokens are only compared for equality and new ones are not older than   *)
(* window, so such states can do the same, and what the run checks of them *)
(* is the same.                                                            *)
(***************************************************************************)
EXTENDS Sessions, TLC

OneHour == [n |-> 1, unit |-> "hr"]
TwoHours == [n |-> 120, unit |-> "mins"]

Alike == Permutations(Users) \cup Permutations(Browsers)
           \cup Permutations(Logins) \cup Permutations(Refreshes)

WindowsAgo(i) == IF i = None THEN None ELSE window - i

SameFuture ==
  <<now, step, from, user, overlapped, faults, history,
    [u \in Users |-> WindowsAgo(slot[u])],
    [b \in Browsers |-> IF jar[b] = None THEN None
                        ELSE [jar[b] EXCEPT !.iat = WindowsAgo(@)]],
    [r \in {s \in SignIns : step[s] \in {"sent", "signed", "stored"}} |-> WindowsAgo(iat[r])]>>
================================================================================
