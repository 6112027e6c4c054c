----------------------------- MODULE MCTransactions -----------------------------
(***************************************************************************)
(* Constants of the runs of TransactionsService: one user with an account  *)
(* in each of two currencies, one stranger with an account of its own.     *)
(***************************************************************************)
EXTENDS TransactionsCorrectness, TLC

CONSTANTS ann, bob, usd, ngn, his, c1, c2, w1, w2, t1, t2

MCOwner == (usd :> ann) @@ (ngn :> ann) @@ (his :> bob)
MCCurrency == (usd :> "USD") @@ (ngn :> "NGN") @@ (his :> "USD")

\* IsNumberString lets a sign through, and convertFunds does not look at it.
AnyAmounts == {-1, 2}

TypedAmounts == {-1, 1, 2}

Requests == Permutations(Clients)

Workload == Permutations(Workers) \cup Permutations(Txns)
================================================================================
