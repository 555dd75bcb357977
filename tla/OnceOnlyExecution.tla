-------------------------- MODULE OnceOnlyExecution --------------------------
(***************************************************************************)
(* What the execution journal promises to the rest of the system, with no  *)
(* leases, tokens, workers or retries: an approval is consumed by one      *)
(* execution, only that execution may write to DataHub, and it gets one    *)
(* receipt, the only one that ever becomes evidence.                       *)
(***************************************************************************)
CONSTANTS Keys, Approvals, NoKey, ApprovalOf, Approved, Receipts, NoReceipt

VARIABLES
  owner,     \* the execution that consumed an approval
  result,    \* the receipt of an execution
  wrote,     \* the executions that asked DataHub for their write
  published  \* the receipts that became evidence

vars == <<owner, result, wrote, published>>

Init ==
  /\ owner = [a \in Approvals |-> NoKey]
  /\ result = [k \in Keys |-> NoReceipt]
  /\ wrote = {}
  /\ published = [k \in Keys |-> {}]

Consume(k) ==
  /\ owner[ApprovalOf[k]] = NoKey
  /\ owner' = [owner EXCEPT ![ApprovalOf[k]] = k]
  /\ UNCHANGED <<result, wrote, published>>

Write(k) ==
  /\ owner[ApprovalOf[k]] = k
  /\ k \in Approved
  /\ wrote' = wrote \cup {k}
  /\ UNCHANGED <<owner, result, published>>

Settle(k) ==
  /\ owner[ApprovalOf[k]] = k
  /\ result[k] = NoReceipt
  /\ result'[k] \in Receipts
  /\ result' = [result EXCEPT ![k] = result'[k]]
  /\ UNCHANGED <<owner, wrote, published>>

Publish(k) ==
  /\ result[k] # NoReceipt
  /\ published' = [published EXCEPT ![k] = {result[k]}]
  /\ UNCHANGED <<owner, result, wrote>>

Next == \E k \in Keys : Consume(k) \/ Write(k) \/ Settle(k) \/ Publish(k)

Spec == Init /\ [][Next]_vars
=============================================================================
