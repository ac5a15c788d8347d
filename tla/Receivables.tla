----------------------------- MODULE Receivables -----------------------------
(***************************************************************************)
(* The open items of one customer, the cash receipts that pay them and the  *)
(* credit memos applied to them, in one currency, without discounts,        *)
(* miscellaneous distributions, customer groups and credit cards.  Receipts *)
(* are applied to what is owed, not to credits.                             *)
(*                                                                         *)
(* A procedure is one transaction.  Posting and reversing read what they    *)
(* check and the paid amounts first and write later, in two steps; the      *)
(* others are one step.  An exception leaves no trace: the action is not    *)
(* enabled, or the call ends without effect.                                *)
(***************************************************************************)
EXTENDS Integers, FiniteSets, Bags, Functions

CONSTANTS
    Docs,       \* ids of open items, in the order of their due dates
    Receipts,   \* ids of cash receipts
    Sessions,   \* sessions that post and reverse
    Later,      \* receipts whose application date is after their distribution date
    DocAmounts, ReceiptAmounts, ItemAmounts, \* amounts entered by hand
    MaxAmount,  \* bound: amount of a document
    MaxIssued,  \* bound: documents issued by hand
    MaxEntries, \* bound: documents issued and applications recorded when
                \* another application starts
    Overlap,    \* transactions overlap
    Overdrawn   \* receipts are applied to items whose balance is used up

ASSUME ReceivablesAssumption ==
    /\ Docs \subseteq Nat \ {0} /\ IsFiniteSet(Docs)
    /\ Receipts \subseteq Nat \ {0} /\ IsFiniteSet(Receipts)
    /\ Later \subseteq Receipts
    /\ DocAmounts \subseteq 1..MaxAmount /\ ReceiptAmounts \subseteq 1..MaxAmount
    /\ ItemAmounts \subseteq 0..MaxAmount
    /\ MaxAmount \in Nat \ {0} /\ MaxIssued \in Nat /\ MaxEntries \in Nat
    /\ Overlap \in BOOLEAN /\ Overdrawn \in BOOLEAN

VARIABLES
    aropen,        \* open items
    cashrcpt,      \* receipts
    item,          \* cashrcptitem: amount of a receipt applied to an item, 0 for none
    arcreditapply, \* amount of a credit to be applied to an item, 0 for none
    arapply,       \* bag of applications
    issued,        \* history: documents issued by hand, and what they come to
    cash,          \* what a receipt has brought into the bank account
    call           \* transactions between their reads and their writes

vars == <<aropen, cashrcpt, item, arcreditapply, arapply, issued, cash, call>>

NoDoc == [type |-> "none", amount |-> 0, paid |-> 0, open |-> FALSE]
Receipt(state, amount) ==
    [state |-> state, amount |-> amount, posted |-> FALSE, void |-> FALSE]
NoItem == [amount |-> 0, applied |-> TRUE]
Idle == [op |-> "none"]

\* An open item as createARDebitMemo, createARCreditMemo and postInvoice insert it.
Doc(type, amount) == [type |-> type, amount |-> amount, paid |-> 0, open |-> TRUE]
Item(amount, applied) == [amount |-> amount, applied |-> applied]

\* A row of arapply; the source of a receipt's application is 0, and only a
\* receipt's application is marked with the receipt.
Application(source, target, applied, receipt, reversed) ==
    [source |-> source, target |-> target, applied |-> applied, receipt |-> receipt,
     reversed |-> reversed]

Sum(f) == SumFunction(f)
Least(S) == CHOOSE d \in S : \A e \in S : d <= e
FreeDocs(ar) == {d \in Docs : ar[d].type = "none"}
NewDoc(ar) == Least(FreeDocs(ar))

Balance(ar, d) == ar[d].amount - ar[d].paid
Amounts(items) == [d \in Docs |-> items[d].amount]

\* (mutant) the trigger of aropen lets everything through.
ValidAlways(ar) == TRUE

\* What the trigger of aropen lets through, and what it does to a row paid up.
Valid(ar) == \A d \in Docs : ar[d].paid \in 0..ar[d].amount
Paid(doc, paid, open) ==
    [type |-> doc.type, amount |-> doc.amount, paid |-> paid,
     open |-> open /\ paid # doc.amount]

Unposted(r) == cashrcpt[r].state = "entered" /\ ~cashrcpt[r].posted /\ ~cashrcpt[r].void

\* What the other receipts that are neither posted nor void take of item d.
OthersTake(r, d) ==
    Sum([q \in {q \in Receipts \ {r} : Unposted(q)} |-> item[q][d].amount])
Left(r, d) == Balance(aropen, d) - OthersTake(r, d)

\* calcPendingARApplications, for an invoice or debit memo.
Pending(d) ==
    Sum([r \in {r \in Receipts : Unposted(r)} |-> item[r][d].amount])
      + Sum([c \in Docs |-> arcreditapply[c][d]])

Owing == {d \in Docs : aropen[d].type \in {"I", "D"} /\ aropen[d].open}

Alone == Overlap \/ \A s \in Sessions : call[s] = Idle

Room == issued.count + BagCardinality(arapply) < MaxEntries

-----------------------------------------------------------------------------
(* Entering.                                                               *)

\* An invoice, a debit memo or a credit memo is issued.
Issue(type, amount) ==
    /\ Alone
    /\ issued.count < MaxIssued
    /\ FreeDocs(aropen) # {}
    /\ aropen' = [aropen EXCEPT ![NewDoc(aropen)] = Doc(type, amount)]
    /\ issued' = [count |-> issued.count + 1,
                  net |-> issued.net + (IF type = "C" THEN -amount ELSE amount)]
    /\ UNCHANGED <<cashrcpt, item, arcreditapply, arapply, cash, call>>

\* A receipt is entered under the next id.
EnterReceipt(r, amount) ==
    /\ Alone
    /\ cashrcpt[r].state = "none"
    /\ \A q \in Receipts : q < r => cashrcpt[q].state # "none"
    /\ cashrcpt' = [cashrcpt EXCEPT ![r] = Receipt("entered", amount)]
    /\ UNCHANGED <<aropen, item, arcreditapply, arapply, issued, cash, call>>

\* The receipt's items become amounts, unless the trigger of cashrcptitem finds
\* more than the balance of an item.  The client leaves posted and void ones alone.
SetItems(r, amounts) ==
    /\ Unposted(r)
    /\ amounts \in [Docs -> Int]
    /\ \A d \in Docs : amounts[d] # 0 /\ amounts[d] # item[r][d].amount
                          => amounts[d] <= Left(r, d)
    /\ item' = [item EXCEPT ![r] = [d \in Docs |->
                  IF amounts[d] = item[r][d].amount THEN item[r][d] ELSE Item(amounts[d], TRUE)]]
    /\ UNCHANGED <<aropen, cashrcpt, arcreditapply, arapply, issued, cash, call>>

\* What the loop takes of item d when left is left: all of its balance or the
\* rest, unless there is nothing to take.
Take(r, d, left) ==
    LET take == IF Left(r, d) <= left THEN Left(r, d) ELSE left
    IN  IF take > 0 THEN take ELSE 0

\* The loop over the open items: what each takes leaves the rest to the later ones.
Unused(r) == cashrcpt[r].amount - Sum(Amounts(item[r]))
Taken(r) ==
    LET take[d \in Docs] ==
          IF d \notin Owing THEN 0
          ELSE Take(r, d, Unused(r) - Sum([e \in {e \in Docs : e < d} |-> take[e]]))
    IN  take
ApplyCashReceiptToBalance(r) ==
    /\ Alone
    /\ Unused(r) > 0
    /\ SetItems(r, [d \in Docs |-> item[r][d].amount + Taken(r)[d]])

\* One item: what was applied to it is deleted first, and stays deleted when
\* the receipt is used up.
LineAmount(r, d) ==
    LET left == cashrcpt[r].amount - Sum([Amounts(item[r]) EXCEPT ![d] = 0])
    IN  IF left <= 0 THEN 0 ELSE IF Left(r, d) <= left THEN Left(r, d) ELSE left
ApplyCashReceiptLineBalance(r, d) ==
    /\ Alone
    /\ aropen[d].type \in {"I", "D"}
    /\ Overdrawn \/ Left(r, d) >= 0
    /\ SetItems(r, [Amounts(item[r]) EXCEPT ![d] = LineAmount(r, d)])

\* An imported or changed application, or (amount 0) a deleted one.
EnterItem(r, d, amount) ==
    /\ Alone
    /\ aropen[d].type \in {"I", "D"}
    /\ SetItems(r, [Amounts(item[r]) EXCEPT ![d] = amount])

\* A receipt with applications is voided instead of deleted.
DeleteCashrcpt(r) ==
    /\ Alone
    /\ cashrcpt[r].state = "entered" /\ ~cashrcpt[r].posted
    /\ IF \E a \in BagToSet(arapply) : a.receipt = r
       THEN /\ cashrcpt' = [cashrcpt EXCEPT ![r].void = TRUE]
            /\ UNCHANGED item
       ELSE /\ cashrcpt' = [cashrcpt EXCEPT ![r] = Receipt("deleted", 0)]
            /\ item' = [item EXCEPT ![r] = [d \in Docs |-> NoItem]]
    /\ UNCHANGED <<aropen, arcreditapply, arapply, issued, cash, call>>

-----------------------------------------------------------------------------
(* Credit memos.                                                           *)

\* What is left of credit memo c.
CreditLeft(ar, pending, c) == Balance(ar, c) - Sum(pending[c])

\* What the loop adds to what the memo has to be applied to an item: the smaller
\* of what the item needs and what is left, less what is there.  The balance may be
\* negative, when receipts and credits together take more than is owed.
Offset(has, need, left) ==
    LET apply == IF need > left THEN left ELSE need
    IN  IF has # 0 /\ apply < has THEN 0 ELSE apply - has

\* The loop over the open items ends when nothing is left after one of them.
Added(c) ==
    LET left == CreditLeft(aropen, arcreditapply, c)
        add[d \in Docs] ==
          LET rest == left - Sum([e \in {e \in Docs : e < d} |-> add[e]])
          IN  IF d \notin Owing \/ (rest = 0 /\ d # Least(Owing)) THEN 0
              ELSE Offset(arcreditapply[c][d], Balance(aropen, d) - Pending(d), rest)
    IN  add
ApplyARCreditMemoToBalance(c) ==
    /\ Alone
    /\ aropen[c].type = "C"
    /\ CreditLeft(aropen, arcreditapply, c) >= 0
    /\ Owing # {}
    /\ Added(c) \in [Docs -> Int]
    /\ arcreditapply' = [arcreditapply EXCEPT ![c] =
                           [d \in Docs |-> arcreditapply[c][d] + Added(c)[d]]]
    /\ UNCHANGED <<aropen, cashrcpt, item, arapply, issued, cash, call>>

\* (mutant) the credit memo itself keeps its balance.
CreditedTargets(ar, c, to) ==
    [d \in Docs |-> IF to[d] = 0 THEN ar[d]
                    ELSE Paid(ar[d], ar[d].paid + to[d], ar[d].amount > ar[d].paid + to[d])]

\* The effect of posting the rows to[d] of credit memo c on open items.
Credited(ar, c, to) ==
    [d \in Docs |->
       LET paid == ar[d].paid + to[d] + (IF d = c THEN Sum(to) ELSE 0)
       IN  IF to[d] # 0 \/ d = c THEN Paid(ar[d], paid, ar[d].amount > paid) ELSE ar[d]]
CreditRows(c, to) == SetToBag({Application(c, d, to[d], 0, FALSE) : d \in {d \in Docs : to[d] # 0}})

\* What postARCreditMemoApplication checks before it writes.
MayPost(ar, c, to) == Sum(to) # 0 /\ Sum(to) <= Balance(ar, c)

StartApplication(s, c) ==
    /\ Alone /\ call[s] = Idle
    /\ aropen[c].type = "C"
    /\ MayPost(aropen, c, arcreditapply[c])
    /\ Room
    /\ call' = [call EXCEPT ![s] = [op |-> "apply", id |-> c, rows |-> arcreditapply[c]]]
    /\ UNCHANGED <<aropen, cashrcpt, item, arcreditapply, arapply, issued, cash>>

EndApplication(s) ==
    /\ call[s].op = "apply"
    /\ LET c == call[s].id
           ar == Credited(aropen, c, call[s].rows)
       IN  IF Valid(ar)
           THEN /\ aropen' = ar
                /\ arcreditapply' = [arcreditapply EXCEPT ![c] = [d \in Docs |->
                                       IF call[s].rows[d] # 0 THEN 0 ELSE @[d]]]
                /\ arapply' = arapply (+) CreditRows(c, call[s].rows)
           ELSE UNCHANGED <<aropen, arcreditapply, arapply>>
    /\ call' = [call EXCEPT ![s] = Idle]
    /\ UNCHANGED <<cashrcpt, item, issued, cash>>

-----------------------------------------------------------------------------
(* Posting and reversing receipts.                                         *)

Reads(op, r) == [op |-> op, id |-> r, amount |-> cashrcpt[r].amount, items |-> item[r],
                 paid |-> [d \in Docs |-> aropen[d].paid]]

\* (mutant) a posted receipt is posted again.
StartPostAgain(s, r) ==
    /\ Alone /\ call[s] = Idle
    /\ cashrcpt[r].state = "entered" /\ ~cashrcpt[r].void
    /\ cashrcpt[r].amount > 0
    /\ Sum(Amounts(item[r])) <= cashrcpt[r].amount
    /\ Room
    /\ call' = [call EXCEPT ![s] = Reads("post", r)]
    /\ UNCHANGED <<aropen, cashrcpt, item, arcreditapply, arapply, issued, cash>>

\* Raises for a posted or void receipt, returns -1 for one applied too far and -2
\* for one of nothing.
StartPost(s, r) ==
    /\ Alone /\ call[s] = Idle
    /\ cashrcpt[r].state = "entered" /\ ~cashrcpt[r].posted /\ ~cashrcpt[r].void
    /\ cashrcpt[r].amount > 0
    /\ Sum(Amounts(item[r])) <= cashrcpt[r].amount
    /\ Room
    /\ call' = [call EXCEPT ![s] = Reads("post", r)]
    /\ UNCHANGED <<aropen, cashrcpt, item, arcreditapply, arapply, issued, cash>>

\* The loop over the items writes the paid amount computed when it began.
Size(n) == IF n < 0 THEN -n ELSE n
ItemsPosted(ar, k) ==
    [d \in Docs |->
       LET n == Size(k.items[d].amount)
       IN  IF n = 0 THEN ar[d]
           ELSE Paid(ar[d], k.paid[d] + n, ar[d].amount - k.paid[d] > n)]
ReceiptRows(k, applied) ==
    SetToBag({Application(0, d, applied[d], k.id, FALSE) : d \in {d \in Docs : applied[d] # 0}})

\* What a call leaves behind, unless an exception undoes it: ok is false.
Outcome(ok, ar, items, pending, rows) ==
    [ok |-> ok, aropen |-> ar, item |-> items, arcreditapply |-> pending, rows |-> rows]

Remains(rest) == rest \in Nat \ {0}

\* What is left over becomes a credit memo, recorded as an item not applied.
PostNow(k, ar) ==
    LET rest == k.amount - Sum(Amounts(k.items))
        c == NewDoc(ar)
        rows == ReceiptRows(k, Amounts(k.items))
    IN  IF Remains(rest)
        THEN Outcome(Valid(ar), [ar EXCEPT ![c] = Doc("C", rest)],
                     [item EXCEPT ![k.id][c] = Item(rest, FALSE)], arcreditapply, rows)
        ELSE Outcome(Valid(ar), ar, item, arcreditapply, rows)

\* With a later application date the whole receipt becomes a credit memo, to
\* which the items are applied unless they are more than it has.
PostLater(k, ar) ==
    LET amount == k.amount
        to == [d \in Docs |-> IF k.items[d].amount > 0 THEN k.items[d].amount ELSE 0]
        c == NewDoc(ar)
        made == [ar EXCEPT ![c] = Doc("C", amount)]
        rest == amount - Sum(to)
        items == IF Remains(rest) THEN [item EXCEPT ![k.id][c] = Item(rest, FALSE)] ELSE item
    IN  IF MayPost(made, c, to)
        THEN Outcome(Valid(Credited(made, c, to)), Credited(made, c, to), items,
                     arcreditapply, CreditRows(c, to))
        ELSE Outcome(TRUE, made, items, [arcreditapply EXCEPT ![c] = to], EmptyBag)

Posted(k) ==
    IF k.id \in Later THEN PostLater(k, aropen) ELSE PostNow(k, ItemsPosted(aropen, k))

\* A call ends with its outcome, or with an exception and no effect.  A receipt
\* deleted meanwhile takes no items and no flags.
End(s, out, flags, amount) ==
    LET r == call[s].id
        there == cashrcpt[r].state = "entered"
    IN  /\ FreeDocs(aropen) # {}
        /\ IF out.ok /\ (there \/ out.item = item)
           THEN /\ aropen' = out.aropen
                /\ item' = out.item
                /\ arcreditapply' = out.arcreditapply
                /\ arapply' = arapply (+) out.rows
                /\ cashrcpt' = IF there THEN [cashrcpt EXCEPT ![r] = flags] ELSE cashrcpt
                /\ cash' = [cash EXCEPT ![r] = @ + amount]
           ELSE UNCHANGED <<aropen, cashrcpt, item, arcreditapply, arapply, cash>>
        /\ call' = [call EXCEPT ![s] = Idle]
        /\ UNCHANGED issued

EndPost(s) ==
    /\ call[s].op = "post"
    /\ End(s, Posted(call[s]), [cashrcpt[call[s].id] EXCEPT !.posted = TRUE], call[s].amount)

\* The client offers to reverse a posted receipt; the procedure does not ask.
StartReverse(s, r) ==
    /\ Alone /\ call[s] = Idle
    /\ cashrcpt[r].state = "entered" /\ cashrcpt[r].posted /\ cashrcpt[r].amount > 0
    /\ Sum([d \in Docs |-> IF item[r][d].applied THEN item[r][d].amount ELSE 0])
         <= cashrcpt[r].amount
    /\ Room
    /\ call' = [call EXCEPT ![s] = Reads("reverse", r)]
    /\ UNCHANGED <<aropen, cashrcpt, item, arcreditapply, arapply, issued, cash>>

\* (mutant) what was left over is reversed as if it had been applied.
AppliedAll(k) == Amounts(k.items)

Applied(k) == [d \in Docs |-> IF k.items[d].applied THEN k.items[d].amount ELSE 0]
ItemsReversed(ar, k) ==
    [d \in Docs |-> IF Applied(k)[d] = 0 THEN ar[d]
                    ELSE Paid(ar[d], k.paid[d] - Size(Applied(k)[d]), TRUE)]

\* What was left over becomes a debit memo, to which what remains of the
\* receipt's credit memo is applied.  All that is to be applied of the credit
\* memo is posted with it.
SettleRest(k, ar, rest, rows) ==
    LET d == NewDoc(ar)
        made == [ar EXCEPT ![d] = Doc("D", rest)]
        items == [item EXCEPT ![k.id][d] = Item(rest, TRUE)]
        credits == {c \in Docs : k.items[c].amount # 0 /\ ~k.items[c].applied}
        c == CHOOSE c \in credits : TRUE
        left == CreditLeft(made, arcreditapply, c)
        to == [arcreditapply[c] EXCEPT ![d] = IF rest > left THEN left ELSE rest]
    IN  IF credits = {} THEN Outcome(Valid(ar), made, items, arcreditapply, rows)
        ELSE IF ~MayPost(made, c, to)
        THEN Outcome(Valid(ar) /\ left \in Nat, made, items, [arcreditapply EXCEPT ![c] = to], rows)
        ELSE Outcome(Valid(ar) /\ left \in Nat /\ Valid(Credited(made, c, to)),
                     Credited(made, c, to), items,
                     [arcreditapply EXCEPT ![c] = [e \in Docs |-> 0]],
                     rows (+) CreditRows(c, to))

Reversed(k) ==
    LET ar == ItemsReversed(aropen, k)
        rest == k.amount - Sum(Applied(k))
        rows == ReceiptRows(k, [d \in Docs |-> -Applied(k)[d]])
    IN  IF Remains(rest) THEN SettleRest(k, ar, rest, rows)
        ELSE Outcome(Valid(ar), ar, item, arcreditapply, rows)

EndReverse(s) ==
    /\ call[s].op = "reverse"
    /\ End(s, Reversed(call[s]),
           [cashrcpt[call[s].id] EXCEPT !.posted = FALSE, !.void = TRUE], -call[s].amount)

\* (mutant) a paid item stays closed.
TakenBackClosed(ar, a) ==
    [d \in Docs |-> IF d \notin {a.source, a.target} THEN ar[d]
                    ELSE [ar[d] EXCEPT !.paid = @ - a.applied]]

\* An application is taken back, once; a receipt's becomes a credit memo, which
\* cannot be negative.  What takes it back is an application itself.
TakenBack(ar, a) ==
    [d \in Docs |->
       IF d \notin {a.source, a.target} THEN ar[d]
       ELSE LET paid == ar[d].paid - a.applied
            IN  Paid(ar[d], paid, paid # ar[d].amount)]
ReverseARApplication(a) ==
    /\ Alone
    /\ Room
    /\ ~a.reversed
    /\ aropen[a.target].paid >= a.applied
    /\ Valid(TakenBack(aropen, a))
    /\ IF a.source = 0
       THEN /\ FreeDocs(aropen) # {}
            /\ a.applied > 0
            /\ aropen' = [TakenBack(aropen, a) EXCEPT ![NewDoc(aropen)] = Doc("C", a.applied)]
       ELSE aropen' = TakenBack(aropen, a)
    /\ arapply' = (arapply (-) SetToBag({a}))
                    (+) SetToBag({Application(a.source, a.target, a.applied, a.receipt, TRUE)})
                    (+) SetToBag({Application(a.source, a.target, -a.applied, 0, FALSE)})
    /\ UNCHANGED <<cashrcpt, item, arcreditapply, issued, cash, call>>

-----------------------------------------------------------------------------

Init ==
    /\ aropen = [d \in Docs |-> NoDoc]
    /\ cashrcpt = [r \in Receipts |-> Receipt("none", 0)]
    /\ item = [r \in Receipts |-> [d \in Docs |-> NoItem]]
    /\ arcreditapply = [c \in Docs |-> [d \in Docs |-> 0]]
    /\ arapply = EmptyBag
    /\ issued = [count |-> 0, net |-> 0]
    /\ cash = [r \in Receipts |-> 0]
    /\ call = [s \in Sessions |-> Idle]

Next ==
    \/ \E type \in {"I", "C"}, n \in DocAmounts : Issue(type, n)
    \/ \E r \in Receipts, n \in ReceiptAmounts : EnterReceipt(r, n)
    \/ \E r \in Receipts : ApplyCashReceiptToBalance(r)
    \/ \E r \in Receipts, d \in Docs : ApplyCashReceiptLineBalance(r, d)
    \/ \E r \in Receipts, d \in Docs, n \in ItemAmounts : EnterItem(r, d, n)
    \/ \E r \in Receipts : DeleteCashrcpt(r)
    \/ \E c \in Docs : ApplyARCreditMemoToBalance(c)
    \/ \E s \in Sessions, c \in Docs : StartApplication(s, c)
    \/ \E s \in Sessions, r \in Receipts : StartPost(s, r) \/ StartReverse(s, r)
    \/ \E s \in Sessions : EndApplication(s) \/ EndPost(s) \/ EndReverse(s)
    \/ \E a \in BagToSet(arapply) : ReverseARApplication(a)

Spec == Init /\ [][Next]_vars

-----------------------------------------------------------------------------
(* Properties.                                                             *)

DocType == [type : {"none", "I", "D", "C"}, amount : Nat, paid : Nat, open : BOOLEAN]
ReceiptType == [state : {"none", "entered", "deleted"}, amount : Nat, posted : BOOLEAN,
                void : BOOLEAN]
ItemType == [amount : Int, applied : BOOLEAN]
CallType ==
    {Idle} \cup [op : {"apply"}, id : Docs, rows : [Docs -> Int]]
      \cup [op : {"post", "reverse"}, id : Receipts, items : [Docs -> ItemType],
            paid : [Docs -> Nat], amount : Nat \ {0}]

\* The types, and no open item is paid more than it comes to.
TypeOK ==
    /\ aropen \in [Docs -> DocType]
    /\ \A d \in Docs : aropen[d].paid <= aropen[d].amount
    /\ cashrcpt \in [Receipts -> ReceiptType]
    /\ item \in [Receipts -> [Docs -> ItemType]]
    /\ arcreditapply \in [Docs -> [Docs -> Int]]
    /\ \A a \in BagToSet(arapply) : a.applied \in Int
    /\ cash \in [Receipts -> Int]
    /\ call \in [Sessions -> CallType]

\* An open item is paid by exactly what arapply records of it, as the target or
\* as the source of an application, whatever was posted, taken back and reversed.
AppliedTo(d) ==
    Sum([a \in {a \in BagToSet(arapply) : d \in {a.source, a.target}} |->
           a.applied * arapply[a]])
PaidIsApplied == \A d \in Docs : aropen[d].paid = AppliedTo(d)

\* An open item is open exactly as long as something is owed on it.
OpenIfOwed ==
    \A d \in Docs : aropen[d].type # "none" => (aropen[d].open <=> Balance(aropen, d) > 0)

\* The bank account has the cash of the posted receipts, once each.
CashOnce ==
    \A r \in Receipts : cash[r] = IF cashrcpt[r].posted THEN cashrcpt[r].amount ELSE 0

\* The open items together are one account: issuing, posting and reversing move
\* its balance by the document's or the receipt's amount, and applying, taking
\* back and settling do not move it.
Account == INSTANCE CustomerAccount WITH
    Bills <- DocAmounts \cup {-n : n \in DocAmounts},
    balance <- Sum([d \in Docs |-> IF aropen[d].type = "C" THEN -Balance(aropen, d)
                                   ELSE Balance(aropen, d)]),
    billed <- issued.net,
    status <- [r \in Receipts |->
                 IF cashrcpt[r].posted THEN "in"
                 ELSE IF cashrcpt[r].void \/ cashrcpt[r].state = "deleted" THEN "closed"
                 ELSE "pending"],
    received <- cash
AccountKept == Account!Spec

=============================================================================
