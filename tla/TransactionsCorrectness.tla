------------------------ MODULE TransactionsCorrectness ------------------------
(***************************************************************************)
(* What must hold of TransactionsService and AccountsService, and two      *)
(* things they promise and do not keep (the last two).                     *)
(*                                                                         *)
(* faults = 0 means: so far no process died, no database or Redis call     *)
(* failed or lost its answer, and no worker lost the lock of its job.      *)
(***************************************************************************)
EXTENDS TransactionsService, FiniteSets

Recorded(t) == txn[t] # NoTxn

Final(t) == status[t] \in {"Completed", "Failed"}

--------------------------------------------------------------------------------

\* Whatever fails and however often a job is handed out: a row that reads Completed, and a
\* job that Bull has completed, belong to a transfer that was committed (processTransaction
\* writes Completed, and the handler returns, only behind the $transaction).
CompletedMeansApplied ==
  \A t \in Txns :
    status[t] = "Completed" \/ jobState[t] = "completed" => applied[t] >= 1

\* The retries of a transfer re-apply it only after a fault, and one fault costs at most one
\* extra application: the attempts option alone, however large, never moves money twice.
DuplicatesNeedFault == \A t \in Txns : applied[t] <= 1 + faults

\* Without faults the row of a settled job tells the truth about it: a conversion is
\* Completed when its transfer was made, once, and Failed when it was not made.
SettledVerdict ==
  faults = 0 =>
    \A t \in Txns : Q!Settled(t) =>
      \/ jobState[t] = "completed" /\ status[t] = "Completed" /\ applied[t] = 1
      \/ jobState[t] = "failed" /\ status[t] = "Failed" /\ applied[t] = 0

\* Without faults no row is left Pending or Processing with nobody to finish it: its
\* request is about to enqueue it, or the queue still has its job.
UnfinishedHasOwner ==
  faults = 0 =>
    \A t \in Txns : Recorded(t) /\ ~Final(t) => t \in creating \/ jobState[t] \in {"wait", "active", "delayed"}

\* A conversion of a negative amount, which nothing refuses, has credited a.
NegativelyCredited(a) ==
  \E t \in Txns : Recorded(t) /\ applied[t] >= 1 /\ txn[t].to = a /\ txn[t].converted < 0

\* Two requests of withdrawFromAccount may both pass the check and both decrement, so an
\* account can be overdrawn; but by no more than every request the server handles at once
\* taking the largest amount, whatever is converted, of any sign, meanwhile.  The exception is
\* the account that a negative conversion has credited: that leg looks at no balance.
OverdraftBound ==
  \A a \in Accounts :
    \/ NegativelyCredited(a)
    \/ \E x \in PositiveAmounts \cup {0} : balance[a] >= -(Cardinality(Clients) * x)

Ledger == INSTANCE AtomicLedger

\* The versions that a worker has written, and locked, at each await of its $transaction.
WorkerRows(w) ==
  LET c == txn[job[w]] IN
  /\ pc[w] \notin {"credit", "commit"} => dirty[w] = NoRows
  /\ pc[w] = "credit" => /\ DOMAIN dirty[w] = {c.from}
                         /\ dirty[w][c.from] = balance[c.from] - c.amount
  /\ pc[w] = "commit" => /\ DOMAIN dirty[w] = {c.from, c.to}
                         /\ \A a \in DOMAIN dirty[w] : dirty[w][a] = Ledger!After(c)[a]
  /\ pc[w] \in {"credit", "commit"} => balance[c.from] >= c.amount

RowsExclusive == \A w \in Workers : \A a \in DOMAIN dirty[w] : Acquirable(w, a)

\* What a worker has read inside its $transaction stays true until the transaction ends,
\* though the committed balances go on changing under other requests: nobody else holds its
\* rows, its versions are the committed balances with its own legs applied, the debit is
\* still covered, and no row stays locked behind an aborted, retried or crashed transfer.
TransferRows == RowsExclusive /\ \A w \in Workers : WorkerRows(w)

\* Every committed change of the balances is one that the ledger allows: both legs of a
\* transfer at once, with the amounts recorded, from an account that covers the debit.
AtomicTransfers == Ledger!Spec

--------------------------------------------------------------------------------

\* A job that was added is carried to the end, whichever faults strike on the way.
JobsSettle == \A t \in Txns : jobState[t] = "wait" ~> Q!Settled(t)

\* Unless there is a fault, a recorded conversion reaches a verdict and keeps it.
ConversionsSettle == \A t \in Txns : Recorded(t) ~> (faults > 0 \/ [](Final(t)))

--------------------------------------------------------------------------------

\* processTransaction comments its updates "Step 2: Mark as SUCCESS", behind the transfer,
\* and "Step 3: Mark as FAILED": once its job is settled, a row marked Failed stands for a
\* transfer that was not made.
FailedMeansUntouched ==
  \A t \in Txns : jobState[t] = "failed" /\ status[t] = "Failed" => applied[t] = 0

\* withdrawFromAccount answers "Insufficient balance" to a request above what is available:
\* withdrawals and deposits alone never bring a balance below zero.
NoOverdraft == \A a \in Accounts : balance[a] >= 0
================================================================================
