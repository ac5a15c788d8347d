--------------------------- MODULE CustomerAccount ---------------------------
(***************************************************************************)
(* What the receivables of a customer promise: a balance that only bills,   *)
(* credits and receipts move, each by its amount, a receipt at most once in *)
(* and once out again.  Which open item a payment is applied to, and taken  *)
(* back from, never shows.                                                  *)
(***************************************************************************)
EXTENDS Integers

CONSTANTS
    Receipts,       \* ids of cash receipts
    Bills,          \* amounts of what is billed, negative for credits
    ReceiptAmounts  \* amounts of receipts

VARIABLES
    balance,  \* what the customer owes
    billed,   \* the sum of the bills and credits
    status,   \* a receipt's: "pending", "in" or "closed"
    received  \* the cash a receipt has brought in

accountVars == <<balance, billed, status, received>>

Init ==
    /\ balance = 0 /\ billed = 0
    /\ status = [r \in Receipts |-> "pending"]
    /\ received = [r \in Receipts |-> 0]

Bill(n) ==
    /\ balance' = balance + n /\ billed' = billed + n
    /\ UNCHANGED <<status, received>>

Receive(r, n) ==
    /\ status[r] = "pending"
    /\ status' = [status EXCEPT ![r] = "in"]
    /\ received' = [received EXCEPT ![r] = n]
    /\ balance' = balance - n
    /\ UNCHANGED billed

Return(r) ==
    /\ status[r] = "in"
    /\ status' = [status EXCEPT ![r] = "closed"]
    /\ received' = [received EXCEPT ![r] = 0]
    /\ balance' = balance + received[r]
    /\ UNCHANGED billed

Drop(r) ==
    /\ status[r] = "pending"
    /\ status' = [status EXCEPT ![r] = "closed"]
    /\ UNCHANGED <<balance, billed, received>>

Next ==
    \/ \E n \in Bills : Bill(n)
    \/ \E r \in Receipts, n \in ReceiptAmounts : Receive(r, n)
    \/ \E r \in Receipts : Return(r) \/ Drop(r)

Spec == Init /\ [][Next]_accountVars

=============================================================================
