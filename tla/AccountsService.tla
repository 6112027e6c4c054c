---------------------------- MODULE AccountsService ----------------------------
(***************************************************************************)
(* AccountsService (src/src/accounts/accounts.service.ts): the two         *)
(* requests of a user that change a balance from outside the queue.        *)
(*                                                                         *)
(* fundAccount looks the account up and increments it; the lookup reads    *)
(* only the id and the owner, which never change, so the handler is one    *)
(* step.  withdrawFromAccount decides on a balance it has read and then    *)
(* decrements in a second statement: the request rests in withdrawal[c]    *)
(* between the two.                                                        *)
(***************************************************************************)
EXTENDS AccountRows

CONSTANTS
  Users,             \* signed-in users
  Owner,             \* the userId column of each account
  Clients,           \* concurrent withdrawal requests the server handles at once
  Amounts,           \* amounts users type, IsNumberString: any sign
  OpeningBalances,   \* balances accounts start with: 0, or what the seed gives them
  MaxRequests        \* bound: fund and withdraw requests of a behaviour

ASSUME AccountsAssumption ==
  /\ Amounts \subseteq Int /\ OpeningBalances \subseteq Int
  /\ MaxRequests \in Nat

VARIABLES
  withdrawal,        \* per client: the checked withdrawal that is not yet debited
  served             \* fund and withdraw requests so far

accountsVars == <<withdrawal, served>>

NoWithdrawal == [account |-> "none", amount |-> 0]

PositiveAmounts == {x \in Amounts : x > 0}

Withdrawals == [account : Accounts, amount : PositiveAmounts]

AccountsTypeOK ==
  /\ withdrawal \in [Clients -> Withdrawals \cup {NoWithdrawal}]
  /\ served \in 0..MaxRequests

AccountsInit ==
  /\ balance \in [Accounts -> OpeningBalances]
  /\ dirty = [w \in Workers |-> NoRows]
  /\ withdrawal = [c \in Clients |-> NoWithdrawal]
  /\ served = 0

--------------------------------------------------------------------------------

\* Mutants: the sign is not looked at; the balance is not looked at.
AnySign(u, a, x) == Owner[a] = u
AlwaysSufficient(a, x) == TRUE

\* The refusals the two handlers share: amount.lte(0) and an account of another user.
Admissible(u, a, x) == x > 0 /\ Owner[a] = u

\* availableBalance.lt(amount) on the committed row the handler has read.
Sufficient(a, x) == balance[a] >= x

NextRequest == served < MaxRequests /\ served' = served + 1

FundAccount(u, a, x) ==
  /\ NextRequest
  /\ Admissible(u, a, x)
  /\ Increment(a, x)
  /\ UNCHANGED withdrawal

\* The first half of withdrawFromAccount: validate, read, compare.
WithdrawFromAccount(c, u, a, x) ==
  /\ withdrawal[c] = NoWithdrawal
  /\ NextRequest
  /\ Admissible(u, a, x)
  /\ Sufficient(a, x)
  /\ withdrawal' = [withdrawal EXCEPT ![c] = [account |-> a, amount |-> x]]
  /\ UNCHANGED rowVars

\* The second half: the decrement, which compares nothing.
DebitWithdrawal(c) ==
  /\ withdrawal[c] # NoWithdrawal
  /\ Increment(withdrawal[c].account, -withdrawal[c].amount)
  /\ withdrawal' = [withdrawal EXCEPT ![c] = NoWithdrawal]
  /\ UNCHANGED served

\* The process or its database connection dies before the decrement.
WithdrawalLost(c) ==
  /\ withdrawal[c] # NoWithdrawal
  /\ withdrawal' = [withdrawal EXCEPT ![c] = NoWithdrawal]
  /\ UNCHANGED <<rowVars, served>>

AccountsNext ==
  \/ \E u \in Users, a \in Accounts, x \in Amounts :
       \/ FundAccount(u, a, x)
       \/ \E c \in Clients : WithdrawFromAccount(c, u, a, x)
  \/ \E c \in Clients : DebitWithdrawal(c) \/ WithdrawalLost(c)
================================================================================
