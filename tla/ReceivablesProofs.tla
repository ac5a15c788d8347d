--------------------------- MODULE ReceivablesProofs ---------------------------
(***************************************************************************)
(* Theorems about Receivables, for every number of documents, receipts and  *)
(* sessions and all amounts:                                                *)
(*   - no open item is paid more than it comes to, and an item is open       *)
(*     exactly as long as something is owed on it, even when transactions   *)
(*     overlap (TypeOKHolds, OpenIfOwedHolds);                               *)
(*   - the bank account has the cash of the posted receipts, once each, as   *)
(*     long as transactions do not overlap (CashOnceHolds);                  *)
(*   - every open item is paid by exactly what is recorded as applied to it, *)
(*     and the open items together are one account with the customer, as    *)
(*     long as, besides, receipts are not applied beyond an item's balance   *)
(*     (PaidIsAppliedHolds, AccountKeptHolds).                               *)
(* The first three do not depend on what the sums of amounts come to; the    *)
(* last two are about nothing else, and use the lemmas of Sums.              *)
(***************************************************************************)
EXTENDS Receivables, Sums, TLAPS

-----------------------------------------------------------------------------
(* Open items.                                                             *)

\* An item that is typed, not paid more than it comes to, and open if owed.
DocOK(doc) ==
    /\ doc \in DocType
    /\ doc.paid <= doc.amount
    /\ doc.type # "none" => (doc.open <=> doc.amount - doc.paid > 0)
DocsOK(ar) == ar \in [Docs -> DocType] /\ \A d \in Docs : DocOK(ar[d])

\* An item stays so when its new balance is valid and an owed one is left open.
LEMMA PaidOK ==
    ASSUME NEW doc, DocOK(doc), NEW paid, NEW open \in BOOLEAN,
           paid \in 0..doc.amount, paid < doc.amount => open
    PROVE  DocOK(Paid(doc, paid, open))
<1> DEFINE still == open /\ paid # doc.amount
<1>1. /\ doc.type \in {"none", "I", "D", "C"} /\ doc.amount \in Nat /\ paid \in Nat
      /\ paid <= doc.amount /\ still \in BOOLEAN
  BY DEF DocOK, DocType
<1>2. still <=> doc.amount - paid > 0
  BY <1>1
<1> HIDE DEF still
<1>3. Paid(doc, paid, open) = [type |-> doc.type, amount |-> doc.amount, paid |-> paid,
                               open |-> still]
  BY Zenon DEF Paid, still
<1>4. Paid(doc, paid, open) \in DocType
  BY <1>1, <1>3 DEF DocType
<1>5. /\ Paid(doc, paid, open).amount = doc.amount /\ Paid(doc, paid, open).paid = paid
      /\ Paid(doc, paid, open).open = still
  BY <1>3
<1>6. QED
  BY <1>1, <1>2, <1>4, <1>5, Zenon DEF DocOK

\* So does an item just issued.
LEMMA NewDocOK ==
    ASSUME NEW ar, DocsOK(ar), NEW c, NEW type \in {"I", "D", "C"}, NEW amount \in Nat \ {0}
    PROVE  DocsOK([ar EXCEPT ![c] = Doc(type, amount)])
<1>1. Doc(type, amount) \in DocType
  BY DEF Doc, DocType
<1>2. /\ Doc(type, amount).paid = 0 /\ Doc(type, amount).amount = amount
      /\ Doc(type, amount).open = TRUE
  BY Zenon DEF Doc
<1>3. DocOK(Doc(type, amount))
  BY <1>1, <1>2 DEF DocOK
<1>4. QED
  BY <1>1, <1>3, Zenon DEF DocsOK

\* Applying a credit memo leaves the items so, if the trigger lets it through.
LEMMA CreditedOK ==
    ASSUME NEW ar, DocsOK(ar), NEW c, NEW to, Valid(Credited(ar, c, to))
    PROVE  DocsOK(Credited(ar, c, to))
<1> DEFINE paid(d) == ar[d].paid + to[d] + (IF d = c THEN Sum(to) ELSE 0)
<1>1. ASSUME NEW d \in Docs PROVE DocOK(Credited(ar, c, to)[d])
  <2>1. CASE to[d] = 0 /\ d # c
    BY <2>1, <1>1 DEF Credited, DocsOK
  <2>2. CASE to[d] # 0 \/ d = c
    <3>1. Credited(ar, c, to)[d] = Paid(ar[d], paid(d), ar[d].amount > paid(d))
      BY <2>2, <1>1 DEF Credited
    <3>2. DocOK(ar[d])
      BY <1>1 DEF DocsOK
    <3>3. paid(d) \in 0..ar[d].amount
      BY <3>1, <3>2, <1>1 DEF Valid, Paid, DocOK, DocType
    <3> DEFINE open == ar[d].amount > paid(d)
    <3>4. open \in BOOLEAN /\ (paid(d) < ar[d].amount => open)
      BY <3>2, <3>3 DEF DocOK, DocType
    <3> HIDE DEF paid, open
    <3>5. DocOK(Paid(ar[d], paid(d), open))
      BY <3>2, <3>3, <3>4, PaidOK
    <3>6. QED
      BY <3>1, <3>5, Zenon DEF open
  <2>3. QED
    BY <2>1, <2>2
<1>2. Credited(ar, c, to) = [d \in Docs |-> Credited(ar, c, to)[d]]
  BY DEF Credited
<1>3. QED
  BY <1>1, <1>2 DEF DocsOK, DocOK

-----------------------------------------------------------------------------
(* Applications.                                                           *)

RowsOK(rows) == \A a \in BagToSet(rows) : a.applied \in Int

\* Recording more applications keeps them typed.
LEMMA MoreRowsOK ==
    ASSUME NEW rows, NEW more, RowsOK(rows), RowsOK(more)
    PROVE  RowsOK(rows (+) more)
BY DEF RowsOK, BagToSet, (+)

\* So does taking some away.
LEMMA FewerRowsOK ==
    ASSUME NEW rows, NEW less, RowsOK(rows)
    PROVE  RowsOK(rows (-) less)
BY DEF RowsOK, BagToSet, (-)

\* The rows of a receipt and of a credit memo are typed.
LEMMA ReceiptRowsOK ==
    ASSUME NEW k, NEW applied \in [Docs -> Int]
    PROVE  RowsOK(ReceiptRows(k, applied))
BY DEF RowsOK, BagToSet, ReceiptRows, SetToBag, Application

LEMMA CreditRowsOK ==
    ASSUME NEW c, NEW to \in [Docs -> Int]
    PROVE  RowsOK(CreditRows(c, to))
BY DEF RowsOK, BagToSet, CreditRows, SetToBag, Application

LEMMA EmptyRowsOK == RowsOK(EmptyBag)
BY DEF RowsOK, BagToSet, EmptyBag, SetToBag

-----------------------------------------------------------------------------
(* The inductive invariant: the types, with the open items so.             *)

ItemsType == [Receipts -> [Docs -> ItemType]]
PendingType == [Docs -> [Docs -> Int]]

IInv ==
    /\ DocsOK(aropen)
    /\ cashrcpt \in [Receipts -> ReceiptType]
    /\ item \in ItemsType
    /\ arcreditapply \in PendingType
    /\ RowsOK(arapply)
    /\ cash \in [Receipts -> Int]
    /\ call \in [Sessions -> CallType]

\* It says no less than the two properties.
LEMMA IInvImplies == IInv => TypeOK /\ OpenIfOwed
BY DEF IInv, TypeOK, OpenIfOwed, DocsOK, DocOK, Balance, RowsOK, ItemsType, PendingType

\* Nothing is there at first.
LEMMA InitIInv == Init => IInv
<1> SUFFICES ASSUME Init PROVE IInv
  OBVIOUS
<1>1. DocsOK(aropen)
  BY DEF Init, DocsOK, DocOK, DocType, NoDoc
<1>2. cashrcpt \in [Receipts -> ReceiptType]
  BY DEF Init, ReceiptType, Receipt
<1>3. item \in ItemsType /\ arcreditapply \in PendingType
  BY DEF Init, ItemsType, ItemType, NoItem, PendingType
<1>4. RowsOK(arapply)
  BY EmptyRowsOK DEF Init
<1>5. cash \in [Receipts -> Int] /\ call \in [Sessions -> CallType]
  BY DEF Init, CallType
<1>6. QED
  BY <1>1, <1>2, <1>3, <1>4, <1>5 DEF IInv

\* A document issued.
LEMMA IssueStep ==
    ASSUME IInv, NEW type \in {"I", "D", "C"}, NEW n \in Nat \ {0}, Issue(type, n)
    PROVE  IInv'
BY NewDocOK DEF IInv, Issue, DocsOK, DocOK

\* A receipt entered.
LEMMA EnterStep ==
    ASSUME IInv, NEW r \in Receipts, NEW n \in Nat, EnterReceipt(r, n)
    PROVE  IInv'
BY DEF IInv, EnterReceipt, ReceiptType, Receipt, DocsOK, DocOK

\* Applications of a receipt entered, by hand or by a loop.
LEMMA SetItemsStep ==
    ASSUME IInv, NEW r \in Receipts, NEW amounts, SetItems(r, amounts)
    PROVE  IInv'
<1>1. item' \in ItemsType
  BY DEF IInv, SetItems, ItemsType, ItemType, Item
<1>2. QED
  BY <1>1 DEF IInv, SetItems, DocsOK, DocOK

\* A receipt deleted or voided.
LEMMA DeleteStep ==
    ASSUME IInv, NEW r \in Receipts, DeleteCashrcpt(r)
    PROVE  IInv'
<1>1. /\ [cashrcpt[r] EXCEPT !.void = TRUE] \in ReceiptType
      /\ Receipt("deleted", 0) \in ReceiptType
  BY DEF IInv, ReceiptType, Receipt
<1>2. [d \in Docs |-> NoItem] \in [Docs -> ItemType]
  BY DEF ItemType, NoItem
<1>3. PICK receipt \in ReceiptType : cashrcpt' = [cashrcpt EXCEPT ![r] = receipt]
  BY <1>1, Zenon DEF DeleteCashrcpt
<1>4. item' = item \/ item' = [item EXCEPT ![r] = [d \in Docs |-> NoItem]]
  BY Zenon DEF DeleteCashrcpt
<1>5. item' \in ItemsType
  BY <1>2, <1>4 DEF IInv, ItemsType
<1>6. QED
  BY <1>3, <1>5 DEF IInv, DeleteCashrcpt, DocsOK, DocOK

\* What a credit memo is to be applied to, chosen by the loop.
LEMMA CreditStep ==
    ASSUME IInv, NEW c \in Docs, ApplyARCreditMemoToBalance(c)
    PROVE  IInv'
<1>1. arcreditapply' \in PendingType
  BY DEF IInv, ApplyARCreditMemoToBalance, PendingType
<1>2. QED
  BY <1>1 DEF IInv, ApplyARCreditMemoToBalance, DocsOK, DocOK

-----------------------------------------------------------------------------
(* The procedures in two steps.                                            *)

\* A call that has read what it needs.
LEMMA StartApplicationStep ==
    ASSUME IInv, NEW s \in Sessions, NEW c \in Docs, StartApplication(s, c)
    PROVE  IInv'
<1>1. [op |-> "apply", id |-> c, rows |-> arcreditapply[c]] \in CallType
  BY DEF IInv, CallType, PendingType
<1>2. call' \in [Sessions -> CallType]
  BY <1>1 DEF IInv, StartApplication
<1>3. QED
  BY <1>2 DEF IInv, StartApplication, DocsOK, DocOK

LEMMA StartStep ==
    ASSUME IInv, NEW s \in Sessions, NEW r \in Receipts, StartPost(s, r) \/ StartReverse(s, r)
    PROVE  IInv'
<1>1. cashrcpt[r].amount > 0
  BY DEF StartPost, StartReverse
<1>2. Reads("post", r) \in CallType /\ Reads("reverse", r) \in CallType
  BY <1>1 DEF IInv, ReceiptType, Reads, CallType, DocsOK, DocType, ItemsType
<1>3. call' \in [Sessions -> CallType]
  BY <1>2 DEF IInv, StartPost, StartReverse
<1>4. QED
  BY <1>3 DEF IInv, StartPost, StartReverse, DocsOK, DocOK

LEMMA IdleOK == Idle \in CallType
BY DEF CallType

\* What a call holds, by its procedure.
LEMMA CallOK ==
    ASSUME IInv, NEW s \in Sessions
    PROVE  /\ call[s].op = "apply" => call[s].rows \in [Docs -> Int]
           /\ call[s].op \in {"post", "reverse"} =>
                /\ call[s].id \in Receipts
                /\ call[s].items \in [Docs -> ItemType]
                /\ call[s].paid \in [Docs -> Nat]
                /\ call[s].amount \in Nat \ {0}
BY DEF IInv, CallType, Idle

\* A credit memo applied.
LEMMA EndApplicationStep ==
    ASSUME IInv, NEW s \in Sessions, EndApplication(s)
    PROVE  IInv'
<1> DEFINE c == call[s].id
           rows == call[s].rows
           ar == Credited(aropen, c, rows)
<1>1. rows \in [Docs -> Int]
  BY CallOK DEF EndApplication
<1>2. call' \in [Sessions -> CallType]
  BY IdleOK DEF IInv, EndApplication
<1>3. CASE Valid(ar)
  <2>1. aropen' = ar /\ arapply' = arapply (+) CreditRows(c, rows)
    BY <1>3 DEF EndApplication
  <2>2. DocsOK(aropen')
    BY <1>3, <2>1, CreditedOK DEF IInv
  <2>3. arcreditapply' \in PendingType
    BY <1>3 DEF IInv, EndApplication, PendingType
  <2>4. RowsOK(arapply')
    BY <1>1, <2>1, CreditRowsOK, MoreRowsOK DEF IInv
  <2>5. QED
    BY <1>2, <2>2, <2>3, <2>4 DEF IInv, EndApplication, DocsOK, RowsOK
<1>4. CASE ~Valid(ar)
  BY <1>2, <1>4 DEF IInv, EndApplication, DocsOK, DocOK, RowsOK
<1>5. QED
  BY <1>3, <1>4

\* A record of what a call leaves behind that keeps the types, if the call is
\* not undone.
OutcomeOK(out) ==
    out.ok => /\ DocsOK(out.aropen)
              /\ out.item \in ItemsType
              /\ out.arcreditapply \in PendingType
              /\ RowsOK(out.rows)

LEMMA OutcomeIsOK ==
    ASSUME NEW ok \in BOOLEAN, NEW ar, NEW items, NEW pending, NEW rows,
           ok => /\ DocsOK(ar) /\ items \in ItemsType
                 /\ pending \in PendingType /\ RowsOK(rows)
    PROVE  OutcomeOK(Outcome(ok, ar, items, pending, rows))
<1> DEFINE out == Outcome(ok, ar, items, pending, rows)
<1>1. /\ out.ok = ok /\ out.aropen = ar /\ out.item = items
      /\ out.arcreditapply = pending /\ out.rows = rows
  BY DEF Outcome
<1> HIDE DEF out
<1>2. QED
  BY <1>1, Zenon DEF OutcomeOK, out

\* A call ends in a typed state when its outcome is one.
LEMMA EndStep ==
    ASSUME IInv, NEW s \in Sessions, call[s].id \in Receipts,
           NEW out, OutcomeOK(out), NEW flags \in ReceiptType, NEW amount \in Int,
           End(s, out, flags, amount)
    PROVE  IInv'
<1>1. call' \in [Sessions -> CallType]
  BY IdleOK DEF IInv, End
<1> DEFINE done == out.ok /\ (cashrcpt[call[s].id].state = "entered" \/ out.item = item)
<1>2. CASE done
  <2>1. /\ aropen' = out.aropen /\ item' = out.item /\ arcreditapply' = out.arcreditapply
        /\ arapply' = arapply (+) out.rows
        /\ cashrcpt' = [cashrcpt EXCEPT ![call[s].id] = flags] \/ cashrcpt' = cashrcpt
        /\ cash' = [cash EXCEPT ![call[s].id] = @ + amount]
    BY <1>2, Zenon DEF End
  <2>2. DocsOK(aropen') /\ item' \in ItemsType /\ arcreditapply' \in PendingType
    BY <1>2, <2>1, Zenon DEF OutcomeOK
  <2>3. RowsOK(arapply')
    BY <1>2, <2>1, MoreRowsOK, Zenon DEF IInv, OutcomeOK
  <2>4. cashrcpt' \in [Receipts -> ReceiptType] /\ cash' \in [Receipts -> Int]
    BY <2>1 DEF IInv
  <2>5. QED
    BY <1>1, <2>2, <2>3, <2>4, Zenon DEF IInv, DocsOK, RowsOK
<1>3. CASE ~done
  <2>1. UNCHANGED <<aropen, cashrcpt, item, arcreditapply, arapply, cash>>
    BY <1>3, Zenon DEF End
  <2>2. QED
    BY <1>1, <2>1 DEF IInv, DocsOK, DocOK, RowsOK
<1>4. QED
  BY <1>2, <1>3

-----------------------------------------------------------------------------
(* Posting a receipt.                                                      *)

\* Items written with the paid amounts read before, if the trigger lets them
\* through.
LEMMA ItemsPostedOK ==
    ASSUME NEW ar, DocsOK(ar), NEW k, k.items \in [Docs -> ItemType],
           k.paid \in [Docs -> Nat], Valid(ItemsPosted(ar, k))
    PROVE  DocsOK(ItemsPosted(ar, k))
<1> DEFINE n(d) == Size(k.items[d].amount)
<1>1. ASSUME NEW d \in Docs PROVE DocOK(ItemsPosted(ar, k)[d])
  <2>1. DocOK(ar[d])
    BY <1>1 DEF DocsOK
  <2>2. n(d) \in Nat /\ k.paid[d] \in Nat
    BY <1>1 DEF Size, ItemType
  <2>3. CASE n(d) = 0
    BY <2>1, <2>3, <1>1 DEF ItemsPosted
  <2>4. CASE n(d) # 0
    <3> DEFINE paid == k.paid[d] + n(d)
               open == ar[d].amount - k.paid[d] > n(d)
    <3>1. ItemsPosted(ar, k)[d] = Paid(ar[d], paid, open)
      BY <2>4, <1>1 DEF ItemsPosted
    <3>2. paid \in 0..ar[d].amount
      BY <3>1, <2>1, <1>1 DEF Valid, Paid
    <3>3. open \in BOOLEAN /\ (paid < ar[d].amount => open)
      BY <2>1, <2>2 DEF DocOK, DocType
    <3> HIDE DEF paid, open
    <3>4. QED
      BY <2>1, <3>1, <3>2, <3>3, PaidOK
  <2>5. QED
    BY <2>3, <2>4
<1>2. ItemsPosted(ar, k) = [d \in Docs |-> ItemsPosted(ar, k)[d]]
  BY DEF ItemsPosted
<1>3. QED
  BY <1>1, <1>2 DEF DocsOK, DocOK

\* An item for what is left over keeps the items typed.
LEMMA RestItemOK ==
    ASSUME IInv, NEW r \in Receipts, NEW c, NEW rest \in Nat, NEW applied \in BOOLEAN
    PROVE  [item EXCEPT ![r][c] = Item(rest, applied)] \in ItemsType
<1>1. Item(rest, applied) \in ItemType
  BY DEF ItemType, Item
<1>2. [item[r] EXCEPT ![c] = Item(rest, applied)] \in [Docs -> ItemType]
  BY <1>1 DEF IInv, ItemsType
<1>3. QED
  BY <1>2 DEF IInv, ItemsType

LEMMA AmountsOK ==
    ASSUME NEW items \in [Docs -> ItemType]
    PROVE  Amounts(items) \in [Docs -> Int]
BY DEF Amounts, ItemType

LEMMA ValidBoolean ==
    ASSUME NEW ar
    PROVE  Valid(ar) \in BOOLEAN
BY DEF Valid

\* A receipt posted, with what is left over as a credit memo.
LEMMA PostNowOK ==
    ASSUME IInv, NEW k, k.id \in Receipts, k.items \in [Docs -> ItemType],
           k.paid \in [Docs -> Nat]
    PROVE  OutcomeOK(PostNow(k, ItemsPosted(aropen, k)))
<1> DEFINE ar == ItemsPosted(aropen, k)
           rest == k.amount - Sum(Amounts(k.items))
           c == NewDoc(ar)
           made == [ar EXCEPT ![c] = Doc("C", rest)]
           rows == ReceiptRows(k, Amounts(k.items))
<1>1. Valid(ar) => DocsOK(ar)
  BY ItemsPostedOK DEF IInv
<1>2. RowsOK(rows)
  BY AmountsOK, ReceiptRowsOK
<1>3. item \in ItemsType /\ arcreditapply \in PendingType
  BY DEF IInv
<1>4. PostNow(k, ar) = IF Remains(rest)
        THEN Outcome(Valid(ar), made, [item EXCEPT ![k.id][c] = Item(rest, FALSE)],
                     arcreditapply, rows)
        ELSE Outcome(Valid(ar), ar, item, arcreditapply, rows)
  BY DEF PostNow
<1>5. Valid(ar) \in BOOLEAN
  BY ValidBoolean
<1>6. Remains(rest) <=> rest \in Nat \ {0}
  BY DEF Remains
<1> HIDE DEF ar, rest, c, rows
<1>7. CASE Remains(rest)
  <2>1. Valid(ar) => DocsOK(made)
    BY <1>1, <1>6, <1>7, NewDocOK
  <2>2. [item EXCEPT ![k.id][c] = Item(rest, FALSE)] \in ItemsType
    BY <1>6, <1>7, RestItemOK
  <2> HIDE DEF made
  <2>3. QED
    BY <1>2, <1>3, <1>4, <1>5, <1>7, <2>1, <2>2, OutcomeIsOK DEF ar
<1>8. CASE ~Remains(rest)
  BY <1>1, <1>2, <1>3, <1>4, <1>5, <1>8, OutcomeIsOK DEF ar
<1>9. QED
  BY <1>7, <1>8

\* A receipt posted as a credit memo, applied if it can be.
LEMMA PostLaterOK ==
    ASSUME IInv, NEW k, k.id \in Receipts, k.items \in [Docs -> ItemType],
           k.amount \in Nat \ {0}
    PROVE  OutcomeOK(PostLater(k, aropen))
<1> DEFINE amount == k.amount
           to == [d \in Docs |-> IF k.items[d].amount > 0 THEN k.items[d].amount ELSE 0]
           c == NewDoc(aropen)
           made == [aropen EXCEPT ![c] = Doc("C", amount)]
           rest == amount - Sum(to)
           items == IF Remains(rest) THEN [item EXCEPT ![k.id][c] = Item(rest, FALSE)] ELSE item
           pending == [arcreditapply EXCEPT ![c] = to]
<1>1. to \in [Docs -> Int]
  BY DEF ItemType
<1>2. DocsOK(made)
  BY NewDocOK DEF IInv
<1>3. items \in ItemsType
  BY RestItemOK DEF Remains, IInv
<1>4. pending \in PendingType /\ arcreditapply \in PendingType
  BY <1>1 DEF IInv, PendingType
<1>5. PostLater(k, aropen) =
        IF MayPost(made, c, to)
        THEN Outcome(Valid(Credited(made, c, to)), Credited(made, c, to), items,
                     arcreditapply, CreditRows(c, to))
        ELSE Outcome(TRUE, made, items, pending, EmptyBag)
  BY DEF PostLater
<1>6. Valid(Credited(made, c, to)) \in BOOLEAN
  BY ValidBoolean
<1>7. Valid(Credited(made, c, to)) => DocsOK(Credited(made, c, to))
  BY <1>2, CreditedOK
<1>8. RowsOK(CreditRows(c, to)) /\ RowsOK(EmptyBag)
  BY <1>1, CreditRowsOK, EmptyRowsOK
<1> HIDE DEF to, c, made, items, pending
<1>9. CASE MayPost(made, c, to)
  BY <1>3, <1>4, <1>5, <1>6, <1>7, <1>8, <1>9, OutcomeIsOK
<1>10. CASE ~MayPost(made, c, to)
  BY <1>2, <1>3, <1>4, <1>5, <1>8, <1>10, OutcomeIsOK
<1>11. QED
  BY <1>9, <1>10

\* The receipt's flags.
LEMMA FlagsOK ==
    ASSUME NEW receipt \in ReceiptType
    PROVE  /\ [receipt EXCEPT !.posted = TRUE] \in ReceiptType
           /\ [receipt EXCEPT !.posted = FALSE, !.void = TRUE] \in ReceiptType
BY DEF ReceiptType

LEMMA EndPostStep ==
    ASSUME IInv, NEW s \in Sessions, EndPost(s)
    PROVE  IInv'
<1> DEFINE k == call[s]
<1>1. /\ k.id \in Receipts /\ k.items \in [Docs -> ItemType]
      /\ k.paid \in [Docs -> Nat] /\ k.amount \in Nat \ {0}
  BY CallOK DEF EndPost
<1> HIDE DEF k
<1>2. OutcomeOK(Posted(k))
  BY <1>1, PostNowOK, PostLaterOK DEF Posted
<1>3. cashrcpt[k.id] \in ReceiptType
  BY <1>1 DEF IInv
<1>4. End(s, Posted(k), [cashrcpt[k.id] EXCEPT !.posted = TRUE], k.amount)
  BY Zenon DEF EndPost, k
<1>5. [cashrcpt[k.id] EXCEPT !.posted = TRUE] \in ReceiptType
  BY <1>3, FlagsOK
<1>6. call[s].id \in Receipts /\ k.amount \in Int
  BY <1>1 DEF k
<1>7. QED
  BY <1>2, <1>4, <1>5, <1>6, EndStep

-----------------------------------------------------------------------------
(* Reversing a receipt, and taking an application back.                    *)

LEMMA ItemsReversedOK ==
    ASSUME NEW ar, DocsOK(ar), NEW k, Valid(ItemsReversed(ar, k))
    PROVE  DocsOK(ItemsReversed(ar, k))
<1>1. ASSUME NEW d \in Docs PROVE DocOK(ItemsReversed(ar, k)[d])
  <2> DEFINE paid == k.paid[d] - Size(Applied(k)[d])
  <2>1. DocOK(ar[d])
    BY <1>1 DEF DocsOK
  <2>2. CASE Applied(k)[d] = 0
    BY <2>1, <2>2, <1>1 DEF ItemsReversed
  <2>3. CASE Applied(k)[d] # 0
    <3>1. ItemsReversed(ar, k)[d] = Paid(ar[d], paid, TRUE)
      BY <2>3, <1>1 DEF ItemsReversed
    <3>2. paid \in 0..ar[d].amount
      BY <3>1, <1>1 DEF Valid, Paid
    <3> HIDE DEF paid
    <3>3. QED
      BY <2>1, <3>1, <3>2, PaidOK
  <2>4. QED
    BY <2>2, <2>3
<1>2. ItemsReversed(ar, k) = [d \in Docs |-> ItemsReversed(ar, k)[d]]
  BY DEF ItemsReversed
<1>3. QED
  BY <1>1, <1>2 DEF DocsOK, DocOK

LEMMA AppliedOK ==
    ASSUME NEW k, k.items \in [Docs -> ItemType]
    PROVE  /\ Applied(k) \in [Docs -> Int]
           /\ [d \in Docs |-> -Applied(k)[d]] \in [Docs -> Int]
BY DEF Applied, ItemType

\* What was left over settled: a debit memo, and the credit memo applied to it.
LEMMA SettleRestOK ==
    ASSUME IInv, NEW k, k.id \in Receipts, k.items \in [Docs -> ItemType],
           NEW ar, Valid(ar) => DocsOK(ar), NEW rest \in Nat \ {0},
           NEW rows, RowsOK(rows)
    PROVE  OutcomeOK(SettleRest(k, ar, rest, rows))
<1> DEFINE d == NewDoc(ar)
           made == [ar EXCEPT ![d] = Doc("D", rest)]
           items == [item EXCEPT ![k.id][d] = Item(rest, TRUE)]
           credits == {c \in Docs : k.items[c].amount # 0 /\ ~k.items[c].applied}
           c == CHOOSE e \in credits : TRUE
           left == CreditLeft(made, arcreditapply, c)
           n == IF rest > left THEN left ELSE rest
           to == [arcreditapply[c] EXCEPT ![d] = n]
           paid == Credited(made, c, to)
           pending == [arcreditapply EXCEPT ![c] = to]
           none == [arcreditapply EXCEPT ![c] = [e \in Docs |-> 0]]
<1>1. Valid(ar) => DocsOK(made)
  BY NewDocOK
<1>2. items \in ItemsType
  BY RestItemOK
<1>3. arcreditapply \in PendingType /\ none \in PendingType
  <2>1. [e \in Docs |-> 0] \in [Docs -> Int]
    OBVIOUS
  <2>2. QED
    BY <2>1 DEF IInv, PendingType
<1>4. SettleRest(k, ar, rest, rows) =
        IF credits = {} THEN Outcome(Valid(ar), made, items, arcreditapply, rows)
        ELSE IF ~MayPost(made, c, to)
        THEN Outcome(Valid(ar) /\ left \in Nat, made, items, pending, rows)
        ELSE Outcome(Valid(ar) /\ left \in Nat /\ Valid(paid), paid, items, none,
                     rows (+) CreditRows(c, to))
  BY Zenon DEF SettleRest
<1>5. c \in Docs /\ left \in Nat => to \in [Docs -> Int]
  <2>1. left \in Nat => n \in Int
    OBVIOUS
  <2> HIDE DEF c, n
  <2>2. QED
    BY <2>1 DEF IInv, PendingType
<1>6. c \in Docs /\ left \in Nat => pending \in PendingType
  BY <1>5 DEF IInv, PendingType
<1>7. Valid(ar) \in BOOLEAN /\ Valid(paid) \in BOOLEAN
  BY ValidBoolean
<1>8. Valid(ar) /\ Valid(paid) => DocsOK(paid)
  BY <1>1, CreditedOK
<1>9. to \in [Docs -> Int] => RowsOK(rows (+) CreditRows(c, to))
  BY CreditRowsOK, MoreRowsOK
<1> HIDE DEF d, made, items, c, left, to, paid, pending, none
<1>10. CASE credits = {}
  BY <1>1, <1>2, <1>3, <1>4, <1>7, <1>10, OutcomeIsOK
<1>11. CASE credits # {}
  <2>1. c \in Docs
    BY <1>11 DEF c
  <2>2. CASE ~MayPost(made, c, to)
    BY <1>1, <1>2, <1>4, <1>6, <1>7, <1>11, <2>1, <2>2, OutcomeIsOK
  <2>3. CASE MayPost(made, c, to)
    BY <1>2, <1>3, <1>4, <1>5, <1>7, <1>8, <1>9, <1>11, <2>1, <2>3, OutcomeIsOK
  <2>4. QED
    BY <2>2, <2>3
<1>12. QED
  BY <1>10, <1>11

LEMMA ReversedOK ==
    ASSUME IInv, NEW k, k.id \in Receipts, k.items \in [Docs -> ItemType]
    PROVE  OutcomeOK(Reversed(k))
<1> DEFINE ar == ItemsReversed(aropen, k)
           rest == k.amount - Sum(Applied(k))
           rows == ReceiptRows(k, [d \in Docs |-> -Applied(k)[d]])
<1>1. Valid(ar) => DocsOK(ar)
  BY ItemsReversedOK DEF IInv
<1>2. RowsOK(rows)
  BY AppliedOK, ReceiptRowsOK
<1>3. Reversed(k) = IF Remains(rest) THEN SettleRest(k, ar, rest, rows)
                    ELSE Outcome(Valid(ar), ar, item, arcreditapply, rows)
  BY Zenon DEF Reversed
<1>4. Remains(rest) => rest \in Nat \ {0}
  BY DEF Remains
<1>5. Valid(ar) \in BOOLEAN
  BY ValidBoolean
<1> HIDE DEF ar, rest, rows
<1>6. CASE Remains(rest)
  BY <1>1, <1>2, <1>3, <1>4, <1>6, SettleRestOK
<1>7. CASE ~Remains(rest)
  BY <1>1, <1>2, <1>3, <1>5, <1>7, OutcomeIsOK DEF IInv
<1>8. QED
  BY <1>6, <1>7

LEMMA EndReverseStep ==
    ASSUME IInv, NEW s \in Sessions, EndReverse(s)
    PROVE  IInv'
<1> DEFINE k == call[s]
<1>1. k.id \in Receipts /\ k.items \in [Docs -> ItemType] /\ k.amount \in Nat \ {0}
  BY CallOK DEF EndReverse
<1> HIDE DEF k
<1>2. OutcomeOK(Reversed(k))
  BY <1>1, ReversedOK
<1>3. cashrcpt[k.id] \in ReceiptType
  BY <1>1 DEF IInv
<1>4. End(s, Reversed(k), [cashrcpt[k.id] EXCEPT !.posted = FALSE, !.void = TRUE], -k.amount)
  BY Zenon DEF EndReverse, k
<1>5. [cashrcpt[k.id] EXCEPT !.posted = FALSE, !.void = TRUE] \in ReceiptType
  BY <1>3, FlagsOK
<1>6. call[s].id \in Receipts /\ -k.amount \in Int
  BY <1>1 DEF k
<1>7. QED
  BY <1>2, <1>4, <1>5, <1>6, EndStep

LEMMA TakenBackOK ==
    ASSUME NEW ar, DocsOK(ar), NEW a, Valid(TakenBack(ar, a))
    PROVE  DocsOK(TakenBack(ar, a))
<1>1. ASSUME NEW d \in Docs PROVE DocOK(TakenBack(ar, a)[d])
  <2> DEFINE paid == ar[d].paid - a.applied
             open == paid # ar[d].amount
  <2>1. DocOK(ar[d])
    BY <1>1 DEF DocsOK
  <2>2. CASE d \notin {a.source, a.target}
    BY <2>1, <2>2, <1>1 DEF TakenBack
  <2>3. CASE d \in {a.source, a.target}
    <3>1. TakenBack(ar, a)[d] = Paid(ar[d], paid, open)
      BY <2>3, <1>1 DEF TakenBack
    <3>2. paid \in 0..ar[d].amount
      BY <3>1, <1>1 DEF Valid, Paid
    <3>3. open \in BOOLEAN /\ (paid < ar[d].amount => open)
      BY <2>1, <3>2 DEF DocOK, DocType
    <3> HIDE DEF paid, open
    <3>4. QED
      BY <2>1, <3>1, <3>2, <3>3, PaidOK
  <2>4. QED
    BY <2>2, <2>3
<1>2. TakenBack(ar, a) = [d \in Docs |-> TakenBack(ar, a)[d]]
  BY DEF TakenBack
<1>3. QED
  BY <1>1, <1>2 DEF DocsOK, DocOK

LEMMA TakeBackStep ==
    ASSUME IInv, NEW a \in BagToSet(arapply), ReverseARApplication(a)
    PROVE  IInv'
<1>1. a.applied \in Int
  BY DEF IInv, RowsOK
<1>2. DocsOK(TakenBack(aropen, a))
  BY TakenBackOK DEF IInv, ReverseARApplication
<1>3. DocsOK(aropen')
  <2>1. CASE a.source = 0
    <3>1. a.applied \in Nat \ {0}
      BY <1>1, <2>1 DEF ReverseARApplication
    <3>2. aropen' = [TakenBack(aropen, a) EXCEPT
                       ![NewDoc(aropen)] = Doc("C", a.applied)]
      BY <2>1 DEF ReverseARApplication
    <3>3. QED
      BY <1>2, <3>1, <3>2, NewDocOK
  <2>2. CASE a.source # 0
    BY <1>2, <2>2 DEF ReverseARApplication
  <2>3. QED
    BY <2>1, <2>2
<1> DEFINE less == SetToBag({a})
           marked == SetToBag({Application(a.source, a.target, a.applied, a.receipt, TRUE)})
           back == SetToBag({Application(a.source, a.target, -a.applied, 0, FALSE)})
<1>4. RowsOK(marked)
  BY <1>1 DEF RowsOK, BagToSet, SetToBag, Application
<1>5. RowsOK(back)
  BY <1>1 DEF RowsOK, BagToSet, SetToBag, Application
<1>6. RowsOK(arapply')
  <2>1. arapply' = ((arapply (-) less) (+) marked) (+) back
    BY Zenon DEF ReverseARApplication
  <2>2. RowsOK(arapply (-) less)
    BY FewerRowsOK DEF IInv
  <2> HIDE DEF less, marked, back
  <2>3. RowsOK((arapply (-) less) (+) marked)
    BY <1>4, <2>2, MoreRowsOK
  <2>4. QED
    BY <1>5, <2>1, <2>3, MoreRowsOK
<1>7. QED
  BY <1>3, <1>6 DEF IInv, ReverseARApplication

-----------------------------------------------------------------------------
(* Every step keeps the invariant.                                         *)

LEMMA NextIInv == IInv /\ [Next]_vars => IInv'
<1> SUFFICES ASSUME IInv, [Next]_vars PROVE IInv'
  OBVIOUS
<1> USE ReceivablesAssumption
<1>1. ASSUME NEW type \in {"I", "C"}, NEW n \in DocAmounts, Issue(type, n) PROVE IInv'
  BY <1>1, IssueStep
<1>2. ASSUME NEW r \in Receipts, NEW n \in ReceiptAmounts, EnterReceipt(r, n) PROVE IInv'
  BY <1>2, EnterStep
<1>3. ASSUME NEW r \in Receipts, ApplyCashReceiptToBalance(r) PROVE IInv'
  BY <1>3, SetItemsStep DEF ApplyCashReceiptToBalance
<1>4. ASSUME NEW r \in Receipts, NEW d \in Docs, ApplyCashReceiptLineBalance(r, d)
      PROVE  IInv'
  BY <1>4, SetItemsStep DEF ApplyCashReceiptLineBalance
<1>5. ASSUME NEW r \in Receipts, NEW d \in Docs, NEW n \in ItemAmounts, EnterItem(r, d, n)
      PROVE  IInv'
  BY <1>5, SetItemsStep DEF EnterItem
<1>6. ASSUME NEW r \in Receipts, DeleteCashrcpt(r) PROVE IInv'
  BY <1>6, DeleteStep
<1>7. ASSUME NEW c \in Docs, ApplyARCreditMemoToBalance(c) PROVE IInv'
  BY <1>7, CreditStep
<1>8. ASSUME NEW s \in Sessions, NEW c \in Docs, StartApplication(s, c) PROVE IInv'
  BY <1>8, StartApplicationStep
<1>9. ASSUME NEW s \in Sessions, NEW r \in Receipts, StartPost(s, r) \/ StartReverse(s, r)
      PROVE  IInv'
  BY <1>9, StartStep
<1>10. ASSUME NEW s \in Sessions, EndApplication(s) \/ EndPost(s) \/ EndReverse(s)
       PROVE  IInv'
  BY <1>10, EndApplicationStep, EndPostStep, EndReverseStep
<1>11. ASSUME NEW a \in BagToSet(arapply), ReverseARApplication(a) PROVE IInv'
  BY <1>11, TakeBackStep
<1>12. CASE UNCHANGED vars
  BY <1>12 DEF vars, IInv, DocsOK, DocOK, RowsOK
<1>13. QED
  BY <1>1, <1>2, <1>3, <1>4, <1>5, <1>6, <1>7, <1>8, <1>9, <1>10, <1>11, <1>12 DEF Next

\* The types hold, and no open item is ever paid more than it comes to, not even
\* by overlapping transactions: postcashreceipt.sql, reversecashreceipt.sql,
\* postarcreditmemoapplication.sql and reversearapplication.sql change aropen
\* under its trigger (aropen.sql).
THEOREM TypeOKHolds == Spec => []TypeOK
<1>1. Spec => []IInv
  BY InitIInv, NextIInv, PTL DEF Spec
<1>2. QED
  BY <1>1, IInvImplies, PTL

\* An open item is open exactly as long as something is owed on it, whatever
\* transactions overlap: the flag and the paid amount are written together, from
\* the same read.
THEOREM OpenIfOwedHolds == Spec => []OpenIfOwed
<1>1. Spec => []IInv
  BY InitIInv, NextIInv, PTL DEF Spec
<1>2. QED
  BY <1>1, IInvImplies, PTL

-----------------------------------------------------------------------------
(* Cash, when transactions do not overlap.                                 *)

\* One call at a time, and what it has checked about its receipt still holds.
Steady ==
    /\ \A s \in Sessions, t \in Sessions : call[s] # Idle /\ call[t] # Idle => s = t
    /\ \A s \in Sessions :
         call[s].op \in {"post", "reverse"} =>
           /\ cashrcpt[call[s].id].state = "entered"
           /\ cashrcpt[call[s].id].posted <=> call[s].op = "reverse"
           /\ call[s].amount = cashrcpt[call[s].id].amount
    /\ \A r \in Receipts : cashrcpt[r].posted => cashrcpt[r].state = "entered"

CashInv == CashOnce /\ Steady

LEMMA InitCashInv == Init => CashInv
BY DEF Init, CashInv, CashOnce, Steady, Receipt, Idle

\* Nothing is done to the receipts and their cash.
LEMMA AsideCash ==
    ASSUME CashInv, UNCHANGED <<cashrcpt, cash, call>>
    PROVE  CashInv'
BY DEF CashInv, CashOnce, Steady

\* A receipt not posted is entered, deleted or voided while nothing is under way.
LEMMA PendingCash ==
    ASSUME IInv, CashInv, NEW r \in Receipts, ~cashrcpt[r].posted,
           \A s \in Sessions : call[s] = Idle,
           NEW receipt \in ReceiptType, ~receipt.posted,
           cashrcpt' = [cashrcpt EXCEPT ![r] = receipt], UNCHANGED <<cash, call>>
    PROVE  CashInv'
<1>1. CashOnce'
  BY DEF IInv, CashInv, CashOnce
<1>2. Steady'
  BY DEF IInv, CashInv, Steady, Idle
<1>3. QED
  BY <1>1, <1>2 DEF CashInv

\* A call starts.
LEMMA StartCash ==
    ASSUME IInv, CashInv, NEW s \in Sessions, NEW k, k # Idle,
           \A t \in Sessions : call[t] = Idle,
           k.op \in {"post", "reverse"} =>
             /\ cashrcpt[k.id].state = "entered"
             /\ cashrcpt[k.id].posted <=> k.op = "reverse"
             /\ k.amount = cashrcpt[k.id].amount,
           call' = [call EXCEPT ![s] = k], UNCHANGED <<cashrcpt, cash>>
    PROVE  CashInv'
<1>1. \A t \in Sessions : call'[t] = IF t = s THEN k ELSE Idle
  BY DEF IInv
<1>2. CashOnce'
  BY DEF CashInv, CashOnce
<1>3. Steady'
  BY <1>1 DEF CashInv, Steady, Idle
<1>4. QED
  BY <1>2, <1>3 DEF CashInv

\* A call ends without effect on the receipts.
LEMMA IdleCash ==
    ASSUME IInv, CashInv, NEW s \in Sessions, call' = [call EXCEPT ![s] = Idle],
           UNCHANGED <<cashrcpt, cash>>
    PROVE  CashInv'
<1>1. \A t \in Sessions : call'[t] = IF t = s THEN Idle ELSE call[t]
  BY DEF IInv
<1>2. CashOnce'
  BY DEF CashInv, CashOnce
<1>3. Steady'
  BY <1>1 DEF CashInv, Steady, Idle
<1>4. QED
  BY <1>2, <1>3 DEF CashInv

\* A posting or a reversal ends.
LEMMA EndCash ==
    ASSUME IInv, CashInv, NEW s \in Sessions, call[s].op \in {"post", "reverse"},
           NEW out, NEW flags \in ReceiptType, NEW amount \in Int,
           End(s, out, flags, amount),
           flags.state = cashrcpt[call[s].id].state,
           flags.amount = cashrcpt[call[s].id].amount,
           flags.posted <=> call[s].op = "post",
           amount = IF call[s].op = "post" THEN call[s].amount ELSE -call[s].amount
    PROVE  CashInv'
<1> DEFINE r == call[s].id
<1>1. r \in Receipts /\ call[s].amount \in Nat /\ call[s] # Idle
  BY CallOK DEF Idle
<1>2. /\ cashrcpt[r].state = "entered" /\ call[s].amount = cashrcpt[r].amount
      /\ cashrcpt[r].posted <=> call[s].op = "reverse"
  BY DEF CashInv, Steady
<1>3. call' = [call EXCEPT ![s] = Idle]
  BY Zenon DEF End
<1>4. \A t \in Sessions : call'[t] = Idle
  BY <1>1, <1>3 DEF IInv, CashInv, Steady
<1>5. CASE UNCHANGED <<cashrcpt, cash>>
  BY <1>3, <1>5, IdleCash
<1>6. CASE /\ cashrcpt' = [cashrcpt EXCEPT ![r] = flags]
           /\ cash' = [cash EXCEPT ![r] = @ + amount]
  <2>1. cash[r] = IF call[s].op = "reverse" THEN call[s].amount ELSE 0
    BY <1>1, <1>2 DEF CashInv, CashOnce
  <2>2. cash'[r] = IF call[s].op = "post" THEN call[s].amount ELSE 0
    BY <1>1, <1>6, <2>1 DEF IInv
  <2>3. cashrcpt'[r] = flags /\ \A q \in Receipts \ {r} :
          cashrcpt'[q] = cashrcpt[q] /\ cash'[q] = cash[q]
    BY <1>1, <1>6 DEF IInv
  <2>4. CashOnce'
    BY <1>1, <1>2, <2>2, <2>3 DEF CashInv, CashOnce
  <2>5. Steady'
    BY <1>1, <1>2, <1>4, <2>3 DEF CashInv, Steady, Idle
  <2>6. QED
    BY <2>4, <2>5 DEF CashInv
<1>7. UNCHANGED <<cashrcpt, cash>> \/ /\ cashrcpt' = [cashrcpt EXCEPT ![r] = flags]
                                      /\ cash' = [cash EXCEPT ![r] = @ + amount]
  BY <1>2, Zenon DEF End
<1>8. QED
  BY <1>5, <1>6, <1>7

LEMMA EndPostCash ==
    ASSUME IInv, CashInv, NEW s \in Sessions, EndPost(s)
    PROVE  CashInv'
<1> DEFINE receipt == cashrcpt[call[s].id]
           flags == [receipt EXCEPT !.posted = TRUE]
<1>1. call[s].op = "post" /\ call[s].id \in Receipts /\ call[s].amount \in Nat
  BY CallOK DEF EndPost
<1>2. receipt \in ReceiptType
  BY <1>1 DEF IInv
<1> HIDE DEF receipt
<1>3. /\ flags \in ReceiptType /\ flags.posted
      /\ flags.state = receipt.state /\ flags.amount = receipt.amount
  BY <1>2 DEF ReceiptType
<1>4. End(s, Posted(call[s]), flags, call[s].amount)
  BY Zenon DEF EndPost, receipt
<1> HIDE DEF flags
<1>5. QED
  BY <1>1, <1>3, <1>4, EndCash DEF receipt

LEMMA EndReverseCash ==
    ASSUME IInv, CashInv, NEW s \in Sessions, EndReverse(s)
    PROVE  CashInv'
<1> DEFINE receipt == cashrcpt[call[s].id]
           flags == [receipt EXCEPT !.posted = FALSE, !.void = TRUE]
<1>1. call[s].op = "reverse" /\ call[s].id \in Receipts /\ call[s].amount \in Nat
  BY CallOK DEF EndReverse
<1>2. receipt \in ReceiptType
  BY <1>1 DEF IInv
<1> HIDE DEF receipt
<1>3. /\ flags \in ReceiptType /\ ~flags.posted
      /\ flags.state = receipt.state /\ flags.amount = receipt.amount
  BY <1>2 DEF ReceiptType
<1>4. End(s, Reversed(call[s]), flags, -call[s].amount)
  BY Zenon DEF EndReverse, receipt
<1> HIDE DEF flags
<1>5. QED
  BY <1>1, <1>3, <1>4, EndCash DEF receipt

\* Every step keeps it, if there is one call at a time.
LEMMA NextCash ==
    ASSUME ~Overlap, IInv, CashInv, [Next]_vars
    PROVE  CashInv'
<1> USE ReceivablesAssumption
<1>1. ASSUME NEW type \in {"I", "C"}, NEW n \in DocAmounts, Issue(type, n) PROVE CashInv'
  BY <1>1, AsideCash DEF Issue
<1>2. ASSUME NEW r \in Receipts, NEW n \in ReceiptAmounts, EnterReceipt(r, n) PROVE CashInv'
  <2> DEFINE receipt == Receipt("entered", n)
  <2>1. receipt \in ReceiptType /\ ~receipt.posted
    BY DEF ReceiptType, Receipt
  <2>2. ~cashrcpt[r].posted
    BY <1>2 DEF EnterReceipt, CashInv, Steady
  <2>3. QED
    BY <1>2, <2>1, <2>2, PendingCash DEF EnterReceipt, Alone
<1>3. ASSUME NEW r \in Receipts, NEW amounts, SetItems(r, amounts) PROVE CashInv'
  BY <1>3, AsideCash DEF SetItems
<1>4. ASSUME NEW r \in Receipts, DeleteCashrcpt(r) PROVE CashInv'
  <2>1. /\ [cashrcpt[r] EXCEPT !.void = TRUE] \in ReceiptType
        /\ ~[cashrcpt[r] EXCEPT !.void = TRUE].posted
    <3>1. cashrcpt[r] \in ReceiptType /\ ~cashrcpt[r].posted
      BY <1>4 DEF IInv, DeleteCashrcpt, Unposted
    <3> QED
      BY ONLY <3>1 DEF ReceiptType
  <2>2. /\ Receipt("deleted", 0) \in ReceiptType
        /\ ~Receipt("deleted", 0).posted
    BY DEF ReceiptType, Receipt
  <2>3. PICK receipt \in ReceiptType :
          ~receipt.posted /\ cashrcpt' = [cashrcpt EXCEPT ![r] = receipt]
    BY <1>4, <2>1, <2>2, Zenon DEF DeleteCashrcpt
  <2>4. ~cashrcpt[r].posted /\ UNCHANGED <<cash, call>> /\ \A s \in Sessions : call[s] = Idle
    BY <1>4 DEF DeleteCashrcpt, Alone
  <2>5. QED
    BY <2>3, <2>4, PendingCash
<1>5. ASSUME NEW c \in Docs, ApplyARCreditMemoToBalance(c) PROVE CashInv'
  BY <1>5, AsideCash DEF ApplyARCreditMemoToBalance
<1>6. ASSUME NEW s \in Sessions, NEW c \in Docs, StartApplication(s, c) PROVE CashInv'
  <2> DEFINE k == [op |-> "apply", id |-> c, rows |-> arcreditapply[c]]
  <2>1. k.op = "apply" /\ k # Idle
    BY DEF Idle
  <2>2. call' = [call EXCEPT ![s] = k] /\ UNCHANGED <<cashrcpt, cash>>
        /\ \A t \in Sessions : call[t] = Idle
    BY <1>6 DEF StartApplication, Alone
  <2> HIDE DEF k
  <2>3. QED
    BY <2>1, <2>2, StartCash
<1>7. ASSUME NEW s \in Sessions, NEW r \in Receipts, StartPost(s, r) PROVE CashInv'
  <2> DEFINE k == Reads("post", r)
  <2>1. k.op = "post" /\ k.id = r /\ k.amount = cashrcpt[r].amount /\ k # Idle
    BY DEF Reads, Idle
  <2>2. /\ call' = [call EXCEPT ![s] = k] /\ UNCHANGED <<cashrcpt, cash>>
        /\ \A t \in Sessions : call[t] = Idle
        /\ cashrcpt[r].state = "entered" /\ ~cashrcpt[r].posted
    BY <1>7 DEF StartPost, Alone
  <2> HIDE DEF k
  <2>3. QED
    BY <2>1, <2>2, StartCash
<1>8. ASSUME NEW s \in Sessions, NEW r \in Receipts, StartReverse(s, r) PROVE CashInv'
  <2> DEFINE k == Reads("reverse", r)
  <2>1. k.op = "reverse" /\ k.id = r /\ k.amount = cashrcpt[r].amount /\ k # Idle
    BY DEF Reads, Idle
  <2>2. /\ call' = [call EXCEPT ![s] = k] /\ UNCHANGED <<cashrcpt, cash>>
        /\ \A t \in Sessions : call[t] = Idle
        /\ cashrcpt[r].state = "entered" /\ cashrcpt[r].posted
    BY <1>8 DEF StartReverse, Alone
  <2> HIDE DEF k
  <2>3. QED
    BY <2>1, <2>2, StartCash
<1>9. ASSUME NEW s \in Sessions, EndApplication(s) PROVE CashInv'
  BY <1>9, IdleCash DEF EndApplication
<1>10. ASSUME NEW s \in Sessions, EndPost(s) \/ EndReverse(s) PROVE CashInv'
  BY <1>10, EndPostCash, EndReverseCash
<1>11. ASSUME NEW a \in BagToSet(arapply), ReverseARApplication(a) PROVE CashInv'
  BY <1>11, AsideCash DEF ReverseARApplication
<1>12. CASE UNCHANGED vars
  BY <1>12, AsideCash DEF vars
<1>13. ASSUME NEW r \in Receipts, \/ ApplyCashReceiptToBalance(r)
                                  \/ \E d \in Docs : ApplyCashReceiptLineBalance(r, d)
                                  \/ \E d \in Docs, n \in ItemAmounts : EnterItem(r, d, n)
       PROVE  CashInv'
  BY <1>3, <1>13 DEF ApplyCashReceiptToBalance, ApplyCashReceiptLineBalance, EnterItem
<1>14. QED
  BY <1>1, <1>2, <1>4, <1>5, <1>6, <1>7, <1>8, <1>9, <1>10, <1>11, <1>12, <1>13 DEF Next

\* The bank account has the cash of the posted receipts, once each, and of no
\* other receipt, if transactions do not overlap: postcashreceipt.sql and
\* reversecashreceipt.sql test and set cashrcpt_posted without a lock, which is
\* enough for that and for no more.
THEOREM CashOnceHolds ==
    ASSUME ~Overlap
    PROVE  Spec => []CashOnce
<1>1. Init => IInv /\ CashInv
  BY InitIInv, InitCashInv
<1>2. IInv /\ CashInv /\ [Next]_vars => (IInv /\ CashInv)'
  BY NextIInv, NextCash
<1>3. CashInv => CashOnce
  BY DEF CashInv
<1>4. QED
  BY <1>1, <1>2, <1>3, PTL DEF Spec

-----------------------------------------------------------------------------
(* The loops over the open items, as functions of what the earlier items    *)
(* have taken.                                                             *)

\* What a loop has taken before item d.
Before(take, d) == Sum([e \in {e \in Docs : e < d} |-> take[e]])

\* A finite set of numbers has a largest.
LEMMA LargestOf ==
  ASSUME NEW S, IsFiniteSet(S), S \subseteq Nat, S # {}
  PROVE  \E m \in S : \A n \in S : n <= m
<1> DEFINE Z == {U \in SUBSET S : U = {} \/ \E m \in U : \A n \in U : n <= m}
<1>1. {} \in Z
  OBVIOUS
<1>2. ASSUME NEW U \in SUBSET S, NEW x \in S, U \in Z, x \notin U
      PROVE  U \cup {x} \in Z
  <2>1. CASE U = {}
    BY <2>1
  <2>2. ASSUME NEW m \in U, \A n \in U : n <= m PROVE U \cup {x} \in Z
    <3>1. CASE x <= m
      BY <2>2, <3>1
    <3>2. CASE ~(x <= m)
      <4>1. x \in Nat /\ m \in Nat /\ \A n \in U : n \in Nat
        BY <1>2
      <4>2. \A n \in U \cup {x} : n <= x
        BY <2>2, <3>2, <4>1
      <4>3. QED
        BY <4>2
    <3>3. QED
      BY <3>1, <3>2
  <2>3. QED
    BY <1>2, <2>1, <2>2
<1> HIDE DEF Z
<1>3. S \in Z
  BY <1>1, <1>2, FiniteInduction
<1>4. QED
  BY <1>3 DEF Z

\* What it has taken depends on the earlier items only.
LEMMA BeforeEqual ==
  ASSUME NEW d, NEW f, NEW g, \A e \in Docs : e < d => f[e] = g[e]
  PROVE  Before(f, d) = Before(g, d)
<1>1. [e \in {e \in Docs : e < d} |-> f[e]] = [e \in {e \in Docs : e < d} |-> g[e]]
  OBVIOUS
<1>2. QED
  BY <1>1 DEF Before

\* Which is a number.
LEMMA BeforeInt ==
  ASSUME NEW d, NEW f, \A e \in Docs : e < d => f[e] \in Int
  PROVE  Before(f, d) \in Int
<1> DEFINE D == {e \in Docs : e < d}
           g == [e \in D |-> f[e]]
<1>1. IsFiniteSet(D)
  BY ReceivablesAssumption, FS_Subset
<1>2. DOMAIN g = D /\ \A e \in D : g[e] \in Int
  OBVIOUS
<1>3. Before(f, d) = SumFunctionOnSet(g, D)
  BY DEF Before, Sum, SumFunction
<1> HIDE DEF D, g
<1>4. QED
  BY <1>1, <1>2, <1>3, SumInt

\* It takes integers if each of its steps does.
LEMMA LoopTyped ==
  ASSUME NEW take, \A d \in Docs : Before(take, d) \in Int => take[d] \in Int
  PROVE  \A d \in Docs : take[d] \in Int /\ Before(take, d) \in Int
<1> DEFINE Bad == {d \in Docs : take[d] \notin Int}
<1>1. Bad = {}
  <2> SUFFICES ASSUME Bad # {} PROVE FALSE
    OBVIOUS
  <2>1. Bad \subseteq Nat
    BY ReceivablesAssumption
  <2>2. PICK d \in Bad : \A e \in Bad : d <= e
    <3> HIDE DEF Bad
    <3>1. QED
      BY <2>1, LeastNumber
  <2>3. \A e \in Docs : e < d => take[e] \in Int
    BY <2>1, <2>2, ReceivablesAssumption
  <2>4. QED
    BY <2>2, <2>3, BeforeInt
<1>2. QED
  BY <1>1, BeforeInt

\* A loop comes to an end, whatever it does to an item.
LEMMA LoopEnds ==
  ASSUME NEW step, \A d \in Docs, n \in Int : step[d][n] \in Int
  PROVE  \E take \in [Docs -> Int] : \A d \in Docs : take[d] = step[d][Before(take, d)]
<1> DEFINE Done(U) == \E take \in [Docs -> Int] : \A d \in U : take[d] = step[d][Before(take, d)]
           Bad == {U \in SUBSET Docs : /\ \A d \in U, e \in Docs : e < d => e \in U
                                       /\ ~Done(U)}
<1> SUFFICES ASSUME ~Done(Docs) PROVE FALSE
  OBVIOUS
<1>1. PICK U \in Bad : \A W \in Bad : W \subseteq U => W = U
  <2>1. Docs \in Bad /\ Bad \subseteq SUBSET Docs
    OBVIOUS
  <2> HIDE DEF Bad
  <2>2. Bad # {} /\ IsFiniteSet(Docs)
    BY <2>1, ReceivablesAssumption
  <2>3. QED
    BY <2>1, <2>2, LeastSubset
<1>2. U # {}
  <2>1. [d \in Docs |-> 0] \in [Docs -> Int]
    OBVIOUS
  <2>2. Done({})
    BY <2>1
  <2>3. QED
    BY <2>2
<1>3. PICK m \in U : \A n \in U : n <= m
  <2>1. IsFiniteSet(U) /\ U \subseteq Nat
    BY ReceivablesAssumption, FS_Subset
  <2>2. QED
    BY <1>2, <2>1, LargestOf
<1>4. U \subseteq Nat /\ m \in Nat /\ m \in Docs
  BY ReceivablesAssumption
<1>5. \A d \in U \ {m}, e \in Docs : e < d => e \in U \ {m}
  BY <1>3, <1>4
<1>6. Done(U \ {m})
  <2>1. U \ {m} \in SUBSET Docs /\ U \ {m} # U
    OBVIOUS
  <2>2. U \ {m} \notin Bad
    BY <1>1, <2>1
  <2> HIDE DEF Done
  <2>3. QED
    BY <1>5, <2>1, <2>2
<1> HIDE DEF Bad
<1>7. PICK take \in [Docs -> Int] : \A d \in U \ {m} : take[d] = step[d][Before(take, d)]
  BY <1>6
<1> DEFINE more == [take EXCEPT ![m] = step[m][Before(take, m)]]
<1>8. more \in [Docs -> Int] /\ more[m] = step[m][Before(take, m)]
      /\ \A e \in Docs \ {m} : more[e] = take[e]
  BY <1>4, BeforeInt
<1>9. ASSUME NEW d \in U PROVE Before(more, d) = Before(take, d)
  <2>1. \A e \in Docs : e < d => more[e] = take[e]
    BY <1>3, <1>4, <1>8, ReceivablesAssumption
  <2> HIDE DEF more
  <2>2. QED
    BY <2>1, BeforeEqual
<1>10. \A d \in U : more[d] = step[d][Before(more, d)]
  BY <1>1, <1>7, <1>8, <1>9 DEF Bad
<1>11. Done(U)
  BY <1>8, <1>10
<1>12. QED
  BY <1>1, <1>11 DEF Bad

-----------------------------------------------------------------------------
\* Integers.
LEMMA LeftInt ==
  ASSUME IInv, NEW r \in Receipts
  PROVE  /\ Unused(r) \in Int
         /\ \A d \in Docs : Left(r, d) \in Int
<1>1. item[r] \in [Docs -> ItemType]
  BY DEF IInv, ItemsType
<1>2. Unused(r) \in Int
  <2> DEFINE f == Amounts(item[r])
  <2>1. DOMAIN f = Docs /\ \A d \in Docs : f[d] \in Int
    BY <1>1 DEF Amounts, ItemType
  <2> HIDE DEF f
  <2>2. Sum(f) \in Int
    BY <2>1, SumInt, ReceivablesAssumption DEF Sum, SumFunction
  <2>3. cashrcpt[r].amount \in Int
    BY DEF IInv, ReceiptType
  <2>4. QED
    BY <2>2, <2>3 DEF Unused, f
<1>3. ASSUME NEW d \in Docs PROVE Left(r, d) \in Int
  <2> DEFINE Q == {q \in Receipts \ {r} : Unposted(q)}
             f == [q \in Q |-> item[q][d].amount]
  <2>1. IsFiniteSet(Q)
    <3>1. IsFiniteSet(Receipts) /\ Q \subseteq Receipts
      BY ReceivablesAssumption
    <3>2. QED
      BY <3>1, FS_Subset
  <2>2. DOMAIN f = Q /\ \A q \in Q : f[q] \in Int
    BY DEF IInv, ItemsType, ItemType
  <2>3. OthersTake(r, d) = Sum(f)
    BY DEF OthersTake
  <2> HIDE DEF f, Q
  <2>4. Sum(f) \in Int
    BY <2>1, <2>2, SumInt DEF Sum, SumFunction
  <2>5. Balance(aropen, d) \in Int
    BY DEF IInv, DocsOK, DocType, Balance
  <2>6. QED
    BY <2>3, <2>4, <2>5 DEF Left
<1>4. QED
  BY <1>2, <1>3

\* applycashreceipttobalance.sql adds to items that are owed, and never takes from them.
LEMMA TakenIs ==
  ASSUME IInv, NEW r \in Receipts
  PROVE  \A d \in Docs : Taken(r)[d] \in Nat /\ (d \notin Owing => Taken(r)[d] = 0)
<1> DEFINE body(take) == [d \in Docs |-> IF d \notin Owing THEN 0
                                         ELSE Take(r, d, Unused(r) - Before(take, d))]
           step == [d \in Docs |-> [n \in Int |->
                      IF d \notin Owing THEN 0 ELSE Take(r, d, Unused(r) - n)]]
<1>1. Taken(r) = CHOOSE take : take = body(take)
  BY DEF Taken, Before
<1>2. \A d \in Docs, n \in Int : Take(r, d, Unused(r) - n) \in Nat
  BY LeftInt DEF Take
<1>3. \A d \in Docs, n \in Int : step[d][n] \in Int
  BY <1>2
<1>4. PICK take \in [Docs -> Int] : \A d \in Docs : take[d] = step[d][Before(take, d)]
  <2> HIDE DEF step
  <2>1. QED
    BY <1>3, LoopEnds
<1>5. \A d \in Docs : take[d] = body(take)[d]
  BY <1>4, BeforeInt
<1>6. take = body(take)
  BY <1>5
<1>7. Taken(r) = body(Taken(r))
  BY <1>1, <1>6, Zenon
<1>8. \A d \in Docs : Before(Taken(r), d) \in Int
  <2>1. \A d \in Docs : Before(Taken(r), d) \in Int => Taken(r)[d] \in Int
    BY <1>2, <1>7
  <2>2. QED
    BY <2>1, LoopTyped
<1>9. \A d \in Docs : Taken(r)[d] = IF d \notin Owing THEN 0
                                    ELSE Take(r, d, Unused(r) - Before(Taken(r), d))
  BY <1>7
<1>10. QED
  BY <1>2, <1>8, <1>9

-----------------------------------------------------------------------------
(* What the applications of a bag come to on an item.                      *)

AppliedIn(rows, d) ==
    Sum([a \in {a \in BagToSet(rows) : d \in {a.source, a.target}} |-> a.applied * rows[a]])

\* A bag of finitely many applications of integer amounts.
IsRows(rows) ==
    /\ IsFiniteSet(DOMAIN rows)
    /\ rows \in [DOMAIN rows -> Nat \ {0}]
    /\ RowsOK(rows)

\* What an application counts for item d.
Counted(rows, d, a) ==
    IF a \in DOMAIN rows /\ d \in {a.source, a.target} THEN a.applied * rows[a] ELSE 0

\* Which is a number.
LEMMA CountedInt ==
  ASSUME NEW rows, IsRows(rows), NEW d, NEW a
  PROVE  Counted(rows, d, a) \in Int
<1>1. CASE a \in DOMAIN rows
  <2>1. a.applied \in Int /\ rows[a] \in Int
    BY <1>1 DEF IsRows, RowsOK, BagToSet
  <2>2. QED
    BY <2>1 DEF Counted
<1>2. QED
  BY <1>1 DEF Counted

\* Any set with all the applications will do to count them.
LEMMA AppliedOver ==
  ASSUME NEW rows, IsRows(rows), NEW d, NEW S, IsFiniteSet(S), DOMAIN rows \subseteq S,
         NEW g, \A a \in S : g[a] = Counted(rows, d, a)
  PROVE  AppliedIn(rows, d) = SumFunctionOnSet(g, S)
<1> DEFINE T == {a \in BagToSet(rows) : d \in {a.source, a.target}}
           f == [a \in T |-> a.applied * rows[a]]
<1>1. T \in SUBSET S /\ T \subseteq DOMAIN rows
  BY DEF BagToSet
<1>2. \A a \in T : f[a] = Counted(rows, d, a)
  BY <1>1 DEF Counted
<1>3. \A a \in T : f[a] \in Int /\ g[a] = f[a]
  BY <1>1, <1>2, CountedInt
<1>4. \A a \in S \ T : g[a] = 0
  BY DEF Counted, BagToSet
<1>5. AppliedIn(rows, d) = SumFunctionOnSet(f, T)
  BY DEF AppliedIn, Sum, SumFunction
<1> HIDE DEF T, f
<1>6. QED
  BY <1>1, <1>3, <1>4, <1>5, SumOfSome

\* Which is a number.
LEMMA AppliedInt ==
  ASSUME NEW rows, IsRows(rows), NEW d
  PROVE  AppliedIn(rows, d) \in Int
<1> DEFINE S == DOMAIN rows
           g == [a \in S |-> Counted(rows, d, a)]
<1>1. IsFiniteSet(S) /\ \A a \in S : g[a] = Counted(rows, d, a)
  BY DEF IsRows
<1>2. \A a \in S : g[a] \in Int
  BY CountedInt
<1> HIDE DEF g
<1>3. AppliedIn(rows, d) = SumFunctionOnSet(g, S)
  BY <1>1, AppliedOver
<1>4. QED
  BY <1>1, <1>2, <1>3, SumInt

\* Recording more adds what they come to.
LEMMA MoreIsRows ==
  ASSUME NEW rows, IsRows(rows), NEW more, IsRows(more)
  PROVE  /\ IsRows(rows (+) more)
         /\ DOMAIN (rows (+) more) = DOMAIN rows \cup DOMAIN more
         /\ \A a \in DOMAIN rows \cup DOMAIN more : (rows (+) more)[a] =
              (IF a \in DOMAIN rows THEN rows[a] ELSE 0)
                + (IF a \in DOMAIN more THEN more[a] ELSE 0)
<1>1. IsFiniteSet(DOMAIN rows \cup DOMAIN more)
  BY FS_Union DEF IsRows
<1>2. RowsOK(rows (+) more)
  BY MoreRowsOK DEF IsRows
<1>3. rows (+) more = [a \in DOMAIN rows \cup DOMAIN more |->
              (IF a \in DOMAIN rows THEN rows[a] ELSE 0)
                + (IF a \in DOMAIN more THEN more[a] ELSE 0)]
  BY DEF (+)
<1>4. \A a \in DOMAIN rows \cup DOMAIN more :
        (IF a \in DOMAIN rows THEN rows[a] ELSE 0)
                + (IF a \in DOMAIN more THEN more[a] ELSE 0) \in Nat \ {0}
  <2>1. (\A a \in DOMAIN rows : rows[a] \in Nat \ {0}) /\ \A a \in DOMAIN more : more[a] \in Nat \ {0}
    BY DEF IsRows
  <2>2. QED
    BY <2>1
<1>5. QED
  BY <1>1, <1>2, <1>3, <1>4 DEF IsRows

\* Recording more adds what more comes to.
LEMMA AppliedMore ==
  ASSUME NEW rows, IsRows(rows), NEW more, IsRows(more), NEW d
  PROVE  AppliedIn(rows (+) more, d) = AppliedIn(rows, d) + AppliedIn(more, d)
<1> DEFINE S == DOMAIN rows \cup DOMAIN more
           both == rows (+) more
           f == [a \in S |-> Counted(rows, d, a)]
           g == [a \in S |-> Counted(more, d, a)]
           h == [a \in S |-> Counted(both, d, a)]
<1>1. IsRows(both) /\ DOMAIN both = S
  BY MoreIsRows
<1>2. IsFiniteSet(S)
  BY <1>1 DEF IsRows
<1>3. ASSUME NEW a \in S PROVE Counted(both, d, a) = Counted(rows, d, a) + Counted(more, d, a)
  <2> DEFINE m == IF a \in DOMAIN rows THEN rows[a] ELSE 0
             n == IF a \in DOMAIN more THEN more[a] ELSE 0
  <2>1. both[a] = m + n
    BY MoreIsRows
  <2>2. m \in Int /\ n \in Int
    BY DEF IsRows
  <2>3. a.applied \in Int
    BY DEF IsRows, RowsOK, BagToSet
  <2>4. a.applied * (m + n) = a.applied * m + a.applied * n
    <3> HIDE DEF m, n
    <3>1. QED
      BY <2>2, <2>3
  <2>5. a.applied * 0 = 0
    BY <2>3
  <2>6. CASE d \in {a.source, a.target}
    <3>1. Counted(both, d, a) = a.applied * both[a]
      BY <1>1, <2>6 DEF Counted
    <3>2. Counted(rows, d, a) = a.applied * m /\ Counted(more, d, a) = a.applied * n
      BY <2>5, <2>6 DEF Counted
    <3> HIDE DEF both, m, n
    <3>3. QED
      BY <2>1, <2>4, <3>1, <3>2
  <2>7. CASE d \notin {a.source, a.target}
    BY <2>7 DEF Counted
  <2>8. QED
    BY <2>6, <2>7
<1>4. \A a \in S : f[a] \in Int /\ g[a] \in Int /\ h[a] = f[a] + g[a]
  BY <1>3, CountedInt
<1>5. /\ \A a \in S : f[a] = Counted(rows, d, a)
      /\ \A a \in S : g[a] = Counted(more, d, a)
      /\ \A a \in S : h[a] = Counted(both, d, a)
  OBVIOUS
<1>6. DOMAIN rows \subseteq S /\ DOMAIN more \subseteq S
  OBVIOUS
<1> HIDE DEF S, both, f, g, h
<1>7. AppliedIn(rows, d) = SumFunctionOnSet(f, S) /\ AppliedIn(more, d) = SumFunctionOnSet(g, S)
  BY <1>2, <1>5, <1>6, AppliedOver
<1>8. AppliedIn(both, d) = SumFunctionOnSet(h, S)
  BY <1>1, <1>2, <1>5, AppliedOver
<1>9. QED
  BY <1>2, <1>4, <1>7, <1>8, SumPlus DEF both

\* In which order they are recorded does not matter.
LEMMA MoreAssociative ==
  ASSUME NEW a, IsRows(a), NEW b, IsRows(b), NEW c, IsRows(c)
  PROVE  (a (+) b) (+) c = a (+) (b (+) c)
<1> DEFINE S == DOMAIN a \cup DOMAIN b \cup DOMAIN c
           l == (a (+) b) (+) c
           r == a (+) (b (+) c)
           at(x, e) == IF e \in DOMAIN x THEN x[e] ELSE 0
<1>1. IsRows(a (+) b) /\ IsRows(b (+) c)
  BY MoreIsRows
<1>2. /\ \A e \in DOMAIN a \cup DOMAIN b : (a (+) b)[e] = at(a, e) + at(b, e)
      /\ \A e \in DOMAIN b \cup DOMAIN c : (b (+) c)[e] = at(b, e) + at(c, e)
      /\ DOMAIN (a (+) b) = DOMAIN a \cup DOMAIN b /\ DOMAIN (b (+) c) = DOMAIN b \cup DOMAIN c
  BY MoreIsRows
<1>3. /\ DOMAIN l = S /\ \A e \in S : l[e] = at(a (+) b, e) + at(c, e)
      /\ DOMAIN r = S /\ \A e \in S : r[e] = at(a, e) + at(b (+) c, e)
  <2>1. /\ DOMAIN l = DOMAIN (a (+) b) \cup DOMAIN c
        /\ \A e \in DOMAIN (a (+) b) \cup DOMAIN c : l[e] = at(a (+) b, e) + at(c, e)
    BY <1>1, MoreIsRows
  <2>2. /\ DOMAIN r = DOMAIN a \cup DOMAIN (b (+) c)
        /\ \A e \in DOMAIN a \cup DOMAIN (b (+) c) : r[e] = at(a, e) + at(b (+) c, e)
    BY <1>1, MoreIsRows
  <2> HIDE DEF l, r, at
  <2>3. DOMAIN (a (+) b) \cup DOMAIN c = S /\ DOMAIN a \cup DOMAIN (b (+) c) = S
    BY <1>2
  <2>4. QED
    BY <2>1, <2>2, <2>3
<1>4. \A e \in S : at(a, e) \in Int /\ at(b, e) \in Int /\ at(c, e) \in Int
  BY DEF IsRows
<1>5. \A e \in S : at(a (+) b, e) = at(a, e) + at(b, e) /\ at(b (+) c, e) = at(b, e) + at(c, e)
  <2>1. ASSUME NEW e \in S PROVE at(a (+) b, e) = at(a, e) + at(b, e)
    BY <1>2
  <2>2. ASSUME NEW e \in S PROVE at(b (+) c, e) = at(b, e) + at(c, e)
    BY <1>2
  <2>3. QED
    BY <2>1, <2>2
<1>6. l = [e \in S |-> l[e]] /\ r = [e \in S |-> r[e]]
  BY <1>3 DEF (+)
<1> HIDE DEF l, r, at
<1>7. \A e \in S : l[e] = r[e]
  BY <1>3, <1>4, <1>5
<1>8. QED
  BY <1>6, <1>7 DEF l, r

\* An application of its own.
LEMMA OneRow ==
  ASSUME NEW a, a.applied \in Int
  PROVE  /\ IsRows(SetToBag({a})) /\ DOMAIN SetToBag({a}) = {a}
         /\ \A d : AppliedIn(SetToBag({a}), d) =
                     IF d \in {a.source, a.target} THEN a.applied ELSE 0
<1> DEFINE one == SetToBag({a})
<1>1. DOMAIN one = {a} /\ one[a] = 1 /\ one \in [{a} -> Nat \ {0}]
  BY DEF SetToBag
<1>2. IsFiniteSet({a})
  BY FS_Singleton
<1>3. IsRows(one)
  BY <1>1, <1>2 DEF IsRows, RowsOK, BagToSet
<1>4. ASSUME NEW d PROVE AppliedIn(one, d) = IF d \in {a.source, a.target} THEN a.applied ELSE 0
  <2> DEFINE g == [x \in {a} |-> Counted(one, d, x)]
  <2>1. \A x \in {a} : g[x] = Counted(one, d, x)
    OBVIOUS
  <2>2. g[a] = IF d \in {a.source, a.target} THEN a.applied ELSE 0
    BY <1>1 DEF Counted
  <2>3. \A x \in {a} : g[x] \in Int
    BY <2>2
  <2> HIDE DEF g, one
  <2>4. AppliedIn(one, d) = SumFunctionOnSet(g, {a})
    BY <1>1, <1>2, <1>3, <2>1, AppliedOver
  <2>5. SumFunctionOnSet(g, {a}) = g[a] + SumFunctionOnSet(g, {a} \ {a})
    BY <1>2, <2>3, SumTake
  <2>6. SumFunctionOnSet(g, {a} \ {a}) = 0
    <3>1. {a} \ {a} = {}
      OBVIOUS
    <3>2. QED
      BY <3>1, SumOfNone
  <2>7. QED
    BY <2>2, <2>3, <2>4, <2>5, <2>6
<1>5. QED
  BY <1>1, <1>3, <1>4

\* One application taken out of the bag.
LEMMA OneLess ==
  ASSUME NEW rows, IsRows(rows), NEW a \in DOMAIN rows
  PROVE  /\ IsRows(rows (-) SetToBag({a}))
         /\ DOMAIN (rows (-) SetToBag({a})) \subseteq DOMAIN rows
         /\ rows = (rows (-) SetToBag({a})) (+) SetToBag({a})
<1> DEFINE one == SetToBag({a})
           left == [e \in DOMAIN rows |-> IF e = a THEN rows[e] - 1 ELSE rows[e]]
           less == rows (-) one
           D == {e \in DOMAIN rows : left[e] > 0}
<1>1. DOMAIN one = {a} /\ one[a] = 1
  BY DEF SetToBag
<1>2. less = [e \in D |-> left[e]]
  BY <1>1 DEF (-)
<1>3. \A e \in DOMAIN rows : rows[e] \in Nat \ {0}
  BY DEF IsRows
<1>4. \A e \in DOMAIN rows : left[e] \in Nat
  BY <1>3
<1>5. IsRows(less)
  <2>1. RowsOK(less)
    BY FewerRowsOK DEF IsRows
  <2>2. IsFiniteSet(D)
    BY FS_Subset DEF IsRows
  <2>3. \A e \in D : left[e] \in Nat \ {0}
    BY <1>4
  <2> HIDE DEF left, D
  <2>4. DOMAIN less = D /\ less \in [D -> Nat \ {0}]
    BY <1>2, <2>3
  <2> HIDE DEF less
  <2>5. QED
    BY <2>1, <2>2, <2>4 DEF IsRows
<1>6. a.applied \in Int
  BY DEF IsRows, RowsOK, BagToSet
<1>7. IsRows(one)
  BY <1>6, OneRow
<1>8. DOMAIN less = D /\ D \cup {a} = DOMAIN rows
  <2>1. \A e \in DOMAIN rows \ {a} : e \in D
    BY <1>3
  <2>2. QED
    BY <1>2, <2>1
<1> HIDE DEF less, one
<1>9. /\ DOMAIN (less (+) one) = DOMAIN rows
      /\ \A e \in DOMAIN rows : (less (+) one)[e] = (IF e \in D THEN less[e] ELSE 0)
                                                      + (IF e \in {a} THEN one[e] ELSE 0)
  BY <1>1, <1>5, <1>7, <1>8, MoreIsRows
<1>10. ASSUME NEW e \in DOMAIN rows PROVE (less (+) one)[e] = rows[e]
  <2>1. rows[e] \in Nat \ {0}
    BY <1>3
  <2>2. CASE e = a
    <3>1. IF e \in D THEN less[e] = rows[e] - 1 ELSE rows[e] = 1
      BY <1>2, <2>1, <2>2
    <3>2. QED
      BY <1>1, <1>9, <2>1, <2>2, <3>1
  <2>3. CASE e # a
    <3>1. e \in D /\ less[e] = rows[e]
      BY <1>2, <2>1, <2>3
    <3>2. QED
      BY <1>9, <2>1, <2>3, <3>1
  <2>4. QED
    BY <2>2, <2>3
<1>11. /\ rows = [e \in DOMAIN rows |-> rows[e]]
       /\ less (+) one = [e \in DOMAIN (less (+) one) |-> (less (+) one)[e]]
  BY DEF IsRows, (+)
<1>12. rows = less (+) one
  BY <1>9, <1>10, <1>11
<1>13. QED
  BY <1>5, <1>8, <1>12 DEF less, one

\* What an application comes to on item d.
Worth(a, d) == IF d \in {a.source, a.target} THEN a.applied ELSE 0

\* Applications one of each, told apart by what they are made for.
LEMMA RowsEach ==
  ASSUME NEW D, IsFiniteSet(D), NEW h, \A e \in D : h[e].applied \in Int,
         \A e, x \in D : h[e] = h[x] => e = x,
         NEW S, \A e \in D : h[e] \in S, \A a \in S : \E e \in D : a = h[e], NEW d, NEW f,
         \A e \in D : f[e] = Worth(h[e], d)
  PROVE  /\ IsRows(SetToBag(S))
         /\ AppliedIn(SetToBag(S), d) = SumFunctionOnSet(f, D)
<1> DEFINE rows == SetToBag(S)
           g == [a \in S |-> Counted(rows, d, a)]
<1>1. IsFiniteSet(S)
  <2> DEFINE k == [e \in D |-> h[e]]
  <2>1. k \in Surjection(D, S)
    BY DEF Surjection
  <2> HIDE DEF k
  <2>2. QED
    BY <2>1, FS_Surjection
<1>2. DOMAIN rows = S /\ rows \in [S -> Nat \ {0}] /\ \A a \in S : rows[a] = 1
  BY DEF SetToBag
<1>3. \A a \in S : a.applied \in Int
  OBVIOUS
<1>4. IsRows(rows)
  BY <1>1, <1>2, <1>3 DEF IsRows, RowsOK, BagToSet
<1>5. \A a \in S : g[a] = Counted(rows, d, a)
  OBVIOUS
<1>6. \A e \in D : g[h[e]] = f[e] /\ f[e] \in Int
  <2>1. ASSUME NEW e \in D PROVE Counted(rows, d, h[e]) = f[e] /\ f[e] \in Int
    <3>1. h[e] \in S /\ h[e].applied \in Int /\ rows[h[e]] = 1
      BY <1>2
    <3>2. QED
      BY <1>2, <3>1 DEF Counted, Worth
  <2>2. QED
    BY <2>1
<1> HIDE DEF g, rows
<1>7. AppliedIn(rows, d) = SumFunctionOnSet(g, S)
  BY <1>1, <1>2, <1>4, <1>5, AppliedOver
<1>8. SumFunctionOnSet(f, D) = SumFunctionOnSet(g, {h[e] : e \in D})
  BY <1>6, SumRenamed
<1>9. S = {h[e] : e \in D}
  OBVIOUS
<1>10. QED
  BY <1>4, <1>7, <1>8, <1>9 DEF rows

\* A sum of which one number at most is not zero.
LEMMA SumOfOne ==
  ASSUME NEW D, IsFiniteSet(D), NEW d, NEW f, \A e \in D : f[e] \in Int,
         \A e \in D : e # d => f[e] = 0
  PROVE  SumFunctionOnSet(f, D) = IF d \in D THEN f[d] ELSE 0
<1>1. CASE d \in D
  <2>1. SumFunctionOnSet(f, D) = f[d] + SumFunctionOnSet(f, D \ {d})
    BY <1>1, SumTake
  <2>2. IsFiniteSet(D \ {d}) /\ \A e \in D \ {d} : f[e] = 0
    BY FS_RemoveElement
  <2>3. SumFunctionOnSet(f, D \ {d}) = 0
    BY <2>2, SumZero
  <2>4. f[d] \in Int
    BY <1>1
  <2>5. QED
    BY <1>1, <2>1, <2>3, <2>4
<1>2. CASE d \notin D
  <2>1. \A e \in D : f[e] = 0
    BY <1>2
  <2>2. QED
    BY <1>2, <2>1, SumZero
<1>3. QED
  BY <1>1, <1>2

\* The rows of a receipt come to what is applied to an item.
LEMMA ReceiptRowsApplied ==
  ASSUME NEW k, NEW applied \in [Docs -> Int], NEW d \in Docs
  PROVE  /\ IsRows(ReceiptRows(k, applied))
         /\ AppliedIn(ReceiptRows(k, applied), d) = applied[d]
<1> DEFINE D == {e \in Docs : applied[e] # 0}
           h == [e \in D |-> Application(0, e, applied[e], k.id, FALSE)]
           S == {h[e] : e \in D}
           f == [e \in D |-> IF e = d THEN applied[e] ELSE 0]
<1>1. IsFiniteSet(D)
  BY ReceivablesAssumption, FS_Subset
<1>2. \A e \in D : h[e].target = e /\ h[e].source = 0 /\ h[e].applied = applied[e]
  BY DEF Application
<1>3. \A e \in D : h[e].applied \in Int
  <2>1. \A e \in D : applied[e] \in Int
    OBVIOUS
  <2> HIDE DEF h
  <2>2. QED
    BY <1>2, <2>1
<1>4. \A e, x \in D : h[e] = h[x] => e = x
  <2> HIDE DEF h
  <2>1. QED
    BY <1>2
<1>5. \A e \in D : f[e] = Worth(h[e], d)
  <2>1. d # 0
    BY ReceivablesAssumption
  <2> HIDE DEF h
  <2>2. QED
    BY <1>2, <2>1 DEF Worth
<1>6. ReceiptRows(k, applied) = SetToBag(S)
  <2>1. {Application(0, e, applied[e], k.id, FALSE) : e \in D} = S
    OBVIOUS
  <2>2. QED
    BY <2>1 DEF ReceiptRows
<1>7. (\A e \in D : h[e] \in S) /\ \A a \in S : \E e \in D : a = h[e]
  OBVIOUS
<1>8. \A e \in D : f[e] \in Int /\ (e # d => f[e] = 0)
  OBVIOUS
<1>9. applied[d] = IF d \in D THEN f[d] ELSE 0
  OBVIOUS
<1> HIDE DEF D, h, f, S
<1>10. /\ IsRows(ReceiptRows(k, applied))
      /\ AppliedIn(ReceiptRows(k, applied), d) = SumFunctionOnSet(f, D)
  <2>1. IsRows(SetToBag(S)) /\ AppliedIn(SetToBag(S), d) = SumFunctionOnSet(f, D)
    BY <1>1, <1>3, <1>4, <1>5, <1>7, RowsEach, SMTT(60)
  <2>2. QED
    BY <1>6, <2>1
<1>11. QED
  BY <1>1, <1>8, <1>9, <1>10, SumOfOne

\* The rows of a credit memo come to what is applied to an item, and together to
\* what is taken of the memo.
LEMMA CreditRowsApplied ==
  ASSUME NEW c \in Docs, NEW to \in [Docs -> Int], to[c] = 0, NEW d \in Docs
  PROVE  /\ IsRows(CreditRows(c, to))
         /\ AppliedIn(CreditRows(c, to), d) = to[d] + (IF d = c THEN Sum(to) ELSE 0)
         /\ Sum(to) \in Int
<1> DEFINE D == {e \in Docs : to[e] # 0}
           h == [e \in D |-> Application(c, e, to[e], 0, FALSE)]
           S == {h[e] : e \in D}
           f == [e \in D |-> IF d \in {c, e} THEN to[e] ELSE 0]
<1>1. IsFiniteSet(D) /\ D \in SUBSET Docs /\ IsFiniteSet(Docs)
  BY ReceivablesAssumption, FS_Subset
<1>2. \A e \in D : h[e].target = e /\ h[e].source = c /\ h[e].applied = to[e]
  BY DEF Application
<1>3. \A e \in D : h[e].applied \in Int
  <2>1. \A e \in D : to[e] \in Int
    OBVIOUS
  <2> HIDE DEF h
  <2>2. QED
    BY <1>2, <2>1
<1>4. \A e, x \in D : h[e] = h[x] => e = x
  <2> HIDE DEF h
  <2>1. QED
    BY <1>2
<1>5. \A e \in D : f[e] = Worth(h[e], d)
  <2> HIDE DEF h
  <2>1. QED
    BY <1>2 DEF Worth
<1>6. CreditRows(c, to) = SetToBag(S)
  <2>1. {Application(c, e, to[e], 0, FALSE) : e \in D} = S
    OBVIOUS
  <2>2. QED
    BY <2>1 DEF CreditRows
<1>7. (\A e \in D : h[e] \in S) /\ \A a \in S : \E e \in D : a = h[e]
  OBVIOUS
<1>8. \A e \in D : f[e] \in Int
  OBVIOUS
<1>9. DOMAIN to = Docs /\ \A e \in Docs : to[e] \in Int
  OBVIOUS
<1>10. Sum(to) = SumFunctionOnSet(to, Docs) /\ Sum(to) \in Int
  BY <1>1, <1>9, SumInt DEF Sum, SumFunction
<1>11. CASE d = c
  <2>1. (\A e \in D : f[e] \in Int /\ to[e] = f[e]) /\ (\A e \in Docs \ D : to[e] = 0)
    BY <1>11
  <2> HIDE DEF D, h, f, S
  <2>2. /\ IsRows(CreditRows(c, to))
        /\ AppliedIn(CreditRows(c, to), d) = SumFunctionOnSet(f, D)
    BY <1>1, <1>3, <1>4, <1>5, <1>6, <1>7, RowsEach
  <2>3. SumFunctionOnSet(to, Docs) = SumFunctionOnSet(f, D)
    BY <1>1, <2>1, SumOfSome
  <2>4. QED
    BY <1>10, <1>11, <2>2, <2>3
<1>12. CASE d # c
  <2>1. \A e \in D : f[e] \in Int /\ (e # d => f[e] = 0)
    BY <1>12
  <2>2. to[d] = (IF d \in D THEN f[d] ELSE 0) /\ to[d] \in Int
    OBVIOUS
  <2> HIDE DEF D, h, f, S
  <2>3. /\ IsRows(CreditRows(c, to))
        /\ AppliedIn(CreditRows(c, to), d) = SumFunctionOnSet(f, D)
    BY <1>1, <1>3, <1>4, <1>5, <1>6, <1>7, RowsEach
  <2>4. SumFunctionOnSet(f, D) = to[d]
    BY <1>1, <2>1, <2>2, SumOfOne
  <2>5. QED
    BY <1>10, <1>12, <2>2, <2>3, <2>4
<1>13. QED
  BY <1>11, <1>12

-----------------------------------------------------------------------------
(* Open items paid by what the applications record of them.                *)

Billed(ar, d) == ar[d].type \in {"I", "D"}

\* Applications are to what is owed, and from credits and receipts.
RowsAt(ar, rows) ==
    \A a \in DOMAIN rows :
      /\ a.target \in Docs /\ Billed(ar, a.target)
      /\ a.source = 0 \/ (a.source \in Docs /\ ar[a.source].type = "C")

Tied(ar, rows) ==
    /\ IsRows(rows) /\ RowsAt(ar, rows)
    /\ \A d \in Docs : ar[d].paid = AppliedIn(rows, d)

\* Nothing comes to nothing.
LEMMA Untouched ==
  ASSUME NEW rows, NEW d, \A a \in DOMAIN rows : d \notin {a.source, a.target}
  PROVE  AppliedIn(rows, d) = 0
<1> DEFINE T == {a \in BagToSet(rows) : d \in {a.source, a.target}}
           f == [a \in T |-> a.applied * rows[a]]
<1>1. T = {}
  BY DEF BagToSet
<1>2. AppliedIn(rows, d) = SumFunctionOnSet(f, T)
  BY DEF AppliedIn, Sum, SumFunction
<1> HIDE DEF f
<1>3. QED
  BY <1>1, <1>2, SumOfNone

\* Nothing is paid when nothing is recorded.
LEMMA TiedNone == ASSUME NEW ar, \A d \in Docs : ar[d].paid = 0 PROVE Tied(ar, EmptyBag)
<1>1. DOMAIN EmptyBag = {} /\ IsRows(EmptyBag)
  <2>1. DOMAIN EmptyBag = {} /\ EmptyBag \in [{} -> Nat \ {0}]
    BY DEF EmptyBag, SetToBag
  <2>2. QED
    BY <2>1, FS_EmptySet, EmptyRowsOK DEF IsRows
<1>2. \A d \in Docs : AppliedIn(EmptyBag, d) = 0
  BY <1>1, Untouched
<1>3. QED
  BY <1>1, <1>2 DEF Tied, RowsAt

\* More of both.
LEMMA TiedMore ==
  ASSUME NEW ar, NEW rows, Tied(ar, rows), NEW paid, NEW more, IsRows(more), RowsAt(ar, more),
         \A d \in Docs : /\ paid[d].type = ar[d].type
                         /\ paid[d].paid = ar[d].paid + AppliedIn(more, d)
  PROVE  Tied(paid, rows (+) more)
<1>1. IsRows(rows (+) more) /\ DOMAIN (rows (+) more) = DOMAIN rows \cup DOMAIN more
  BY MoreIsRows DEF Tied
<1>2. RowsAt(paid, rows (+) more)
  BY <1>1 DEF Tied, RowsAt, Billed
<1>3. \A d \in Docs : AppliedIn(rows (+) more, d) = AppliedIn(rows, d) + AppliedIn(more, d)
  BY AppliedMore DEF Tied
<1>4. QED
  BY <1>1, <1>2, <1>3 DEF Tied

\* A document issued under a free id.
LEMMA TiedNew ==
  ASSUME NEW ar, DocsOK(ar), NEW rows, Tied(ar, rows), NEW c \in Docs, ar[c].type = "none",
         NEW type, NEW amount
  PROVE  Tied([ar EXCEPT ![c] = Doc(type, amount)], rows)
<1> DEFINE made == [ar EXCEPT ![c] = Doc(type, amount)]
<1>1. \A a \in DOMAIN rows : c \notin {a.source, a.target}
  BY ReceivablesAssumption DEF Tied, RowsAt, Billed
<1>2. AppliedIn(rows, c) = 0
  BY <1>1, Untouched
<1>3. made[c].paid = 0 /\ \A d \in Docs \ {c} : made[d] = ar[d]
  BY DEF DocsOK, Doc
<1> HIDE DEF made
<1>4. RowsAt(made, rows)
  BY <1>1, <1>3 DEF Tied, RowsAt, Billed
<1>5. \A d \in Docs : made[d].paid = AppliedIn(rows, d)
  BY <1>2, <1>3 DEF Tied
<1>6. QED
  BY <1>4, <1>5 DEF Tied, made

\* A credit memo applied.
LEMMA TiedCredited ==
  ASSUME NEW ar, DocsOK(ar), NEW rows, Tied(ar, rows), NEW c \in Docs, ar[c].type = "C",
         NEW to \in [Docs -> Int], \A d \in Docs : to[d] # 0 => Billed(ar, d)
  PROVE  Tied(Credited(ar, c, to), rows (+) CreditRows(c, to))
<1> DEFINE more == CreditRows(c, to)
           paid == Credited(ar, c, to)
<1>1. to[c] = 0
  BY DEF Billed
<1>2. /\ IsRows(more)
      /\ \A d \in Docs : AppliedIn(more, d) = to[d] + (IF d = c THEN Sum(to) ELSE 0)
      /\ Sum(to) \in Int
  BY <1>1, CreditRowsApplied
<1>3. RowsAt(ar, more)
  BY DEF RowsAt, CreditRows, SetToBag, Application
<1>4. ASSUME NEW d \in Docs
      PROVE  paid[d].type = ar[d].type /\ paid[d].paid = ar[d].paid + AppliedIn(more, d)
  <2>1. ar[d].paid \in Int /\ to[d] \in Int
    BY DEF DocsOK, DocType
  <2>2. CASE to[d] # 0 \/ d = c
    BY <1>2, <2>1, <2>2 DEF Credited, Paid
  <2>3. CASE to[d] = 0 /\ d # c
    <3>1. paid[d] = ar[d]
      BY <2>3 DEF Credited
    <3>2. AppliedIn(more, d) = 0
      BY <1>2, <2>3
    <3>3. QED
      BY <2>1, <3>1, <3>2
  <2>4. QED
    BY <2>2, <2>3
<1> HIDE DEF more, paid
<1>5. QED
  BY <1>2, <1>3, <1>4, TiedMore DEF more, paid

\* A receipt applied, or taken back.
LEMMA TiedReceipt ==
  ASSUME NEW ar, DocsOK(ar), NEW rows, Tied(ar, rows), NEW k, NEW applied \in [Docs -> Int],
         \A d \in Docs : applied[d] # 0 => Billed(ar, d),
         NEW paid, \A d \in Docs : /\ paid[d].type = ar[d].type
                                   /\ paid[d].paid = ar[d].paid + applied[d]
  PROVE  Tied(paid, rows (+) ReceiptRows(k, applied))
<1> DEFINE more == ReceiptRows(k, applied)
<1>1. IsFiniteSet({e \in Docs : applied[e] # 0})
  BY ReceivablesAssumption, FS_Subset
<1>2. \A d \in Docs : IsRows(more) /\ AppliedIn(more, d) = applied[d]
  BY ReceiptRowsApplied
<1>3. RowsAt(ar, more)
  BY DEF RowsAt, ReceiptRows, SetToBag, Application
<1>4. IsRows(more)
  <2>1. CASE Docs = {}
    <3>1. DOMAIN more = {} /\ more \in [{} -> Nat \ {0}]
      BY <2>1 DEF ReceiptRows, SetToBag
    <3>2. QED
      BY <3>1, FS_EmptySet DEF IsRows, RowsOK, BagToSet
  <2>2. CASE Docs # {}
    BY <1>2, <2>2
  <2>3. QED
    BY <2>1, <2>2
<1> HIDE DEF more
<1>5. QED
  BY <1>2, <1>3, <1>4, TiedMore DEF more

\* An application taken back: marked, and recorded with the amount negative.
Back(rows, a) ==
    (rows (-) SetToBag({a}))
      (+) SetToBag({Application(a.source, a.target, a.applied, a.receipt, TRUE)})
      (+) SetToBag({Application(a.source, a.target, -a.applied, 0, FALSE)})

\* An application taken back is recorded as it is written.
LEMMA TiedTakenBack ==
  ASSUME NEW ar, DocsOK(ar), NEW rows, Tied(ar, rows), NEW a \in DOMAIN rows
  PROVE  Tied(TakenBack(ar, a), Back(rows, a))
<1> DEFINE one == SetToBag({a})
           less == rows (-) one
           mark == Application(a.source, a.target, a.applied, a.receipt, TRUE)
           back == Application(a.source, a.target, -a.applied, 0, FALSE)
           marked == less (+) SetToBag({mark})
           paid == TakenBack(ar, a)
<1>1. a.applied \in Int
  BY DEF Tied, IsRows, RowsOK, BagToSet
<1>2. /\ mark.applied = a.applied /\ mark.source = a.source /\ mark.target = a.target
      /\ back.applied = -a.applied /\ back.source = a.source /\ back.target = a.target
  BY DEF Application
<1>3. IsRows(less) /\ DOMAIN less \subseteq DOMAIN rows /\ rows = less (+) one
  BY OneLess DEF Tied
<1> HIDE DEF one, less, mark, back
<1>4. /\ IsRows(one) /\ IsRows(SetToBag({mark})) /\ IsRows(SetToBag({back}))
      /\ DOMAIN SetToBag({mark}) = {mark} /\ DOMAIN SetToBag({back}) = {back}
      /\ \A d : AppliedIn(one, d) = AppliedIn(SetToBag({mark}), d)
      /\ \A d : AppliedIn(SetToBag({back}), d) = IF d \in {a.source, a.target} THEN -a.applied ELSE 0
  <2>1. mark.applied \in Int /\ back.applied \in Int
    BY <1>1, <1>2
  <2>2. QED
    BY <1>1, <1>2, <2>1, OneRow DEF one
<1>5. IsRows(marked) /\ DOMAIN marked = DOMAIN less \cup {mark}
  BY <1>3, <1>4, MoreIsRows
<1>6. \A d \in Docs : AppliedIn(marked, d) = AppliedIn(rows, d)
  <2>1. \A d \in Docs : AppliedIn(marked, d) = AppliedIn(less, d) + AppliedIn(SetToBag({mark}), d)
    BY <1>3, <1>4, AppliedMore
  <2>2. \A d \in Docs : AppliedIn(less (+) one, d) = AppliedIn(less, d) + AppliedIn(one, d)
    BY <1>3, <1>4, AppliedMore
  <2>3. QED
    BY <1>3, <1>4, <2>1, <2>2
<1>7. Tied(ar, marked)
  <2>1. RowsAt(ar, marked)
    BY <1>2, <1>3, <1>5 DEF Tied, RowsAt
  <2>2. QED
    BY <1>5, <1>6, <2>1 DEF Tied
<1>8. RowsAt(ar, SetToBag({back}))
  BY <1>2, <1>4 DEF Tied, RowsAt
<1>9. ASSUME NEW d \in Docs
      PROVE  paid[d].type = ar[d].type /\ paid[d].paid = ar[d].paid + AppliedIn(SetToBag({back}), d)
  <2>1. ar[d].paid \in Int
    BY DEF DocsOK, DocType
  <2>2. CASE d \in {a.source, a.target}
    BY <1>1, <1>4, <2>1, <2>2 DEF TakenBack, Paid
  <2>3. CASE d \notin {a.source, a.target}
    <3>1. paid[d] = ar[d]
      BY <2>3 DEF TakenBack
    <3>2. AppliedIn(SetToBag({back}), d) = 0
      BY <1>4, <2>3
    <3>3. QED
      BY <2>1, <3>1, <3>2
  <2>4. QED
    BY <2>2, <2>3
<1> HIDE DEF marked, paid
<1>10. Tied(paid, marked (+) SetToBag({back}))
  BY <1>4, <1>7, <1>8, <1>9, TiedMore
<1>11. QED
  BY <1>10 DEF Back, paid, marked, less, one, mark, back

-----------------------------------------------------------------------------
(* The balance of the open items together.                                 *)

Signed(ar, d) == IF ar[d].type = "C" THEN -Balance(ar, d) ELSE Balance(ar, d)
Net(ar) == Sum([d \in Docs |-> Signed(ar, d)])

LEMMA DocsFinite == IsFiniteSet(Docs)
BY ReceivablesAssumption

\* The sum of a function on the documents.
LEMMA SumOverDocs ==
  ASSUME NEW f, f \in [Docs -> Int]
  PROVE  Sum(f) = SumFunctionOnSet(f, Docs) /\ Sum(f) \in Int
<1>1. DOMAIN f = Docs /\ \A d \in Docs : f[d] \in Int
  OBVIOUS
<1>2. QED
  BY <1>1, SumInt, DocsFinite DEF Sum, SumFunction

\* Amounts that are typed.
Typed(ar) == \A d \in Docs : ar[d].amount \in Int /\ ar[d].paid \in Int

\* The documents have such amounts.
LEMMA DocsTyped == ASSUME NEW ar, DocsOK(ar) PROVE Typed(ar)
BY DEF DocsOK, DocType, Typed

\* The balance is a sum over the documents.
LEMMA NetIs ==
  ASSUME NEW ar, Typed(ar)
  PROVE  /\ [d \in Docs |-> Signed(ar, d)] \in [Docs -> Int]
         /\ Net(ar) = SumFunctionOnSet([d \in Docs |-> Signed(ar, d)], Docs)
         /\ Net(ar) \in Int
<1> DEFINE f == [d \in Docs |-> Signed(ar, d)]
<1>1. f \in [Docs -> Int]
  BY DEF Signed, Balance, Typed
<1>2. Net(ar) = Sum(f)
  BY DEF Net
<1>3. QED
  BY <1>1, <1>2, SumOverDocs

\* A document issued moves it by its amount, a credit memo the other way.
LEMMA NetNew ==
  ASSUME NEW ar, DocsOK(ar), NEW c \in Docs, ar[c].type = "none", ar[c].amount = 0,
         NEW type \in {"I", "D", "C"}, NEW amount \in Int
  PROVE  Net([ar EXCEPT ![c] = Doc(type, amount)])
           = Net(ar) + (IF type = "C" THEN -amount ELSE amount)
<1> DEFINE made == [ar EXCEPT ![c] = Doc(type, amount)]
           f == [d \in Docs |-> Signed(ar, d)]
           g == [d \in Docs |-> Signed(made, d)]
<1>1. made[c] = Doc(type, amount) /\ \A d \in Docs \ {c} : made[d] = ar[d]
  BY DEF DocsOK
<1>2. Typed(ar) /\ ar[c].paid = 0
  BY DocsTyped DEF DocsOK, DocOK, DocType
<1>3. made[c].paid = 0 /\ made[c].amount = amount /\ made[c].type = type
  BY <1>1 DEF Doc
<1>4. Typed(made)
  BY <1>1, <1>2, <1>3 DEF Typed
<1>5. f[c] = 0 /\ g[c] = IF type = "C" THEN -amount ELSE amount
  BY <1>2, <1>3 DEF Signed, Balance
<1>6. \A d \in Docs \ {c} : g[d] = f[d]
  BY <1>1 DEF Signed, Balance
<1>7. /\ f \in [Docs -> Int] /\ Net(ar) = SumFunctionOnSet(f, Docs)
      /\ g \in [Docs -> Int] /\ Net(made) = SumFunctionOnSet(g, Docs)
      /\ Net(ar) \in Int
  BY <1>2, <1>4, NetIs
<1> HIDE DEF made, f, g
<1>8. \A d \in Docs : f[d] \in Int /\ g[d] \in Int
  BY <1>7
<1>9. SumFunctionOnSet(g, Docs) = SumFunctionOnSet(f, Docs) + g[c] - f[c]
  BY <1>6, <1>8, SumChanged, DocsFinite
<1>10. QED
  BY <1>5, <1>7, <1>9 DEF made

\* Payments of what is owed move it by what they come to.
LEMMA NetPaid ==
  ASSUME NEW ar, Typed(ar), NEW applied \in [Docs -> Int],
         \A d \in Docs : applied[d] # 0 => Billed(ar, d),
         NEW paid, \A d \in Docs : /\ paid[d].type = ar[d].type /\ paid[d].amount = ar[d].amount
                                   /\ paid[d].paid = ar[d].paid + applied[d]
  PROVE  Net(ar) = Net(paid) + Sum(applied)
<1> DEFINE f == [d \in Docs |-> Signed(ar, d)]
           g == [d \in Docs |-> Signed(paid, d)]
<1>1. Typed(paid)
  BY DEF Typed
<1>2. ASSUME NEW d \in Docs PROVE Signed(ar, d) = Signed(paid, d) + applied[d]
  <2>1. ar[d].amount \in Int /\ ar[d].paid \in Int /\ applied[d] \in Int
    BY DEF Typed
  <2>2. CASE applied[d] = 0
    BY <2>1, <2>2 DEF Signed, Balance
  <2>3. CASE applied[d] # 0
    <3>1. ar[d].type # "C"
      BY <2>3 DEF Billed
    <3>2. QED
      BY <2>1, <3>1 DEF Signed, Balance
  <2>4. QED
    BY <2>2, <2>3
<1>3. /\ f \in [Docs -> Int] /\ Net(ar) = SumFunctionOnSet(f, Docs)
      /\ g \in [Docs -> Int] /\ Net(paid) = SumFunctionOnSet(g, Docs)
  BY <1>1, NetIs
<1>4. \A d \in Docs : f[d] = g[d] + applied[d]
  BY <1>2
<1> HIDE DEF f, g
<1>5. \A d \in Docs : g[d] \in Int /\ applied[d] \in Int /\ f[d] = g[d] + applied[d]
  BY <1>3, <1>4
<1>6. SumFunctionOnSet(f, Docs) = SumFunctionOnSet(g, Docs) + SumFunctionOnSet(applied, Docs)
  BY <1>5, SumPlus, DocsFinite
<1>7. QED
  BY <1>3, <1>6, SumOverDocs

\* One number at one document.
At(d, n) == [e \in Docs |-> IF e = d THEN n ELSE 0]

\* The amount itself is what a single amount comes to.
LEMMA SumAt ==
  ASSUME NEW d \in Docs, NEW n \in Int
  PROVE  At(d, n) \in [Docs -> Int] /\ SumFunctionOnSet(At(d, n), Docs) = n
<1>1. /\ At(d, n) \in [Docs -> Int] /\ At(d, n)[d] = n
      /\ \A e \in Docs : At(d, n)[e] \in Int /\ (e # d => At(d, n)[e] = 0)
  BY DEF At
<1>2. SumFunctionOnSet(At(d, n), Docs) = IF d \in Docs THEN At(d, n)[d] ELSE 0
  BY <1>1, SumOfOne, DocsFinite
<1>3. QED
  BY <1>1, <1>2

\* Applying a credit memo to what is owed does not move it.
LEMMA NetCredited ==
  ASSUME NEW ar, DocsOK(ar), NEW c \in Docs, ar[c].type = "C",
         NEW to \in [Docs -> Int], \A d \in Docs : to[d] # 0 => Billed(ar, d)
  PROVE  Net(Credited(ar, c, to)) = Net(ar)
<1> DEFINE paid == Credited(ar, c, to)
           f == [d \in Docs |-> Signed(ar, d)]
           g == [d \in Docs |-> Signed(paid, d)]
           h == [d \in Docs |-> g[d] + to[d]]
           e == At(c, Sum(to))
<1>1. to[c] = 0
  BY DEF Billed
<1>2. Sum(to) \in Int /\ Sum(to) = SumFunctionOnSet(to, Docs)
  BY SumOverDocs
<1>3. ASSUME NEW d \in Docs
      PROVE  /\ paid[d].type = ar[d].type /\ paid[d].amount = ar[d].amount
             /\ paid[d].paid = ar[d].paid + to[d] + e[d]
  <2>1. ar[d].paid \in Int /\ to[d] \in Int
    BY DEF DocsOK, DocType
  <2>2. CASE to[d] # 0 \/ d = c
    BY <1>2, <2>1, <2>2 DEF Credited, Paid, At
  <2>3. CASE to[d] = 0 /\ d # c
    <3>1. paid[d] = ar[d]
      BY <2>3 DEF Credited
    <3>2. e[d] = 0
      BY <2>3 DEF At
    <3>3. QED
      BY <2>1, <2>3, <3>1, <3>2
  <2>4. QED
    BY <2>2, <2>3
<1>4. e \in [Docs -> Int] /\ SumFunctionOnSet(e, Docs) = Sum(to)
  BY <1>2, SumAt
<1>5. Typed(ar)
  BY DocsTyped
<1>6. \A d \in Docs : e[d] \in Int /\ (d # c => e[d] = 0)
  BY <1>2 DEF At
<1> HIDE DEF paid, e
<1>7. Typed(paid)
  BY <1>3, <1>5, <1>6 DEF Typed
<1>8. ASSUME NEW d \in Docs PROVE Signed(paid, d) + to[d] = Signed(ar, d) + e[d]
  <2>1. ar[d].amount \in Int /\ ar[d].paid \in Int /\ to[d] \in Int /\ e[d] \in Int
    BY <1>5, <1>6 DEF Typed
  <2>2. CASE d = c
    BY <1>1, <1>3, <2>1, <2>2 DEF Signed, Balance
  <2>3. CASE d # c
    <3>1. e[d] = 0
      BY <1>6, <2>3
    <3>2. to[d] # 0 => ar[d].type # "C"
      BY DEF Billed
    <3>3. QED
      BY <1>3, <2>1, <3>1, <3>2 DEF Signed, Balance
  <2>4. QED
    BY <2>2, <2>3
<1>9. /\ f \in [Docs -> Int] /\ Net(ar) = SumFunctionOnSet(f, Docs) /\ Net(ar) \in Int
      /\ g \in [Docs -> Int] /\ Net(paid) = SumFunctionOnSet(g, Docs) /\ Net(paid) \in Int
  BY <1>5, <1>7, NetIs
<1>10. \A d \in Docs : h[d] = g[d] + to[d] /\ h[d] = f[d] + e[d]
  BY <1>8
<1> HIDE DEF f, g, h
<1>11. \A d \in Docs : g[d] \in Int /\ to[d] \in Int /\ h[d] \in Int /\ h[d] = g[d] + to[d]
  BY <1>9, <1>10
<1>12. \A d \in Docs : f[d] \in Int /\ e[d] \in Int /\ h[d] \in Int /\ h[d] = f[d] + e[d]
  BY <1>6, <1>9, <1>10, <1>11
<1>13. SumFunctionOnSet(h, Docs) = SumFunctionOnSet(g, Docs) + SumFunctionOnSet(to, Docs)
  BY <1>11, SumPlus, DocsFinite
<1>14. SumFunctionOnSet(h, Docs) = SumFunctionOnSet(f, Docs) + SumFunctionOnSet(e, Docs)
  BY <1>12, SumPlus, DocsFinite
<1>15. Net(paid) + Sum(to) = Net(ar) + Sum(to)
  BY <1>2, <1>4, <1>9, <1>13, <1>14
<1>16. QED
  BY <1>2, <1>9, <1>15 DEF paid

\* An application of a receipt taken back moves it, one of a credit memo does not.
LEMMA NetTakenBack ==
  ASSUME NEW ar, DocsOK(ar), NEW rows, Tied(ar, rows), NEW a \in DOMAIN rows
  PROVE  Net(TakenBack(ar, a)) = Net(ar) + (IF a.source = 0 THEN a.applied ELSE 0)
<1> DEFINE paid == TakenBack(ar, a)
           n == a.applied
           m == IF a.source = 0 THEN 0 ELSE -a.applied
           from == IF a.source = 0 THEN a.target ELSE a.source
           f == [d \in Docs |-> Signed(ar, d)]
           g == [d \in Docs |-> Signed(paid, d)]
           i == At(a.target, n)
           j == At(from, m)
           h == [d \in Docs |-> f[d] + i[d]]
<1>1. n \in Int /\ m \in Int
  BY DEF Tied, IsRows, RowsOK, BagToSet
<1>2. /\ a.target \in Docs /\ Billed(ar, a.target) /\ from \in Docs
      /\ a.source = 0 \/ ar[a.source].type = "C"
      /\ a.source = 0 => a.source \notin Docs
  BY ReceivablesAssumption DEF Tied, RowsAt
<1>3. Typed(ar)
  BY DocsTyped
<1>4. ASSUME NEW d \in Docs
      PROVE  /\ paid[d].type = ar[d].type /\ paid[d].amount = ar[d].amount
             /\ paid[d].paid = IF d \in {a.source, a.target} THEN ar[d].paid - n ELSE ar[d].paid
  <2>1. CASE d \in {a.source, a.target}
    BY <2>1 DEF TakenBack, Paid
  <2>2. CASE d \notin {a.source, a.target}
    BY <2>2 DEF TakenBack
  <2>3. QED
    BY <2>1, <2>2
<1>5. Typed(paid)
  BY <1>1, <1>3, <1>4 DEF Typed
<1>6. ASSUME NEW d \in Docs
      PROVE  Signed(paid, d) = Signed(ar, d) + i[d] + j[d] /\ i[d] \in Int /\ j[d] \in Int
  <2>1. ar[d].amount \in Int /\ ar[d].paid \in Int
    BY <1>3 DEF Typed
  <2>2. CASE d = a.target
    <3>1. ar[d].type # "C" /\ i[d] = n /\ j[d] = 0
      BY <1>2, <2>2 DEF Billed, At
    <3>2. paid[d].paid = ar[d].paid - n
      BY <1>4, <2>2
    <3> HIDE DEF paid, i, j, n
    <3>3. QED
      BY <1>1, <1>4, <2>1, <3>1, <3>2 DEF Signed, Balance
  <2>3. CASE d = a.source
    <3>1. a.source # 0 /\ ar[d].type = "C" /\ d # a.target
      BY <1>2, <2>3 DEF Billed
    <3>2. i[d] = 0 /\ j[d] = -n
      BY <2>3, <3>1 DEF At
    <3>3. paid[d].paid = ar[d].paid - n
      BY <1>4, <2>3
    <3> HIDE DEF paid, i, j, n
    <3>4. QED
      BY <1>1, <1>4, <2>1, <3>1, <3>2, <3>3 DEF Signed, Balance
  <2>4. CASE d \notin {a.source, a.target}
    <3>1. i[d] = 0 /\ j[d] = 0
      BY <2>4 DEF At
    <3>2. paid[d].paid = ar[d].paid
      BY <1>4, <2>4
    <3> HIDE DEF paid, i, j
    <3>3. QED
      BY <1>4, <2>1, <3>1, <3>2 DEF Signed, Balance
  <2>5. QED
    BY <2>2, <2>3, <2>4
<1>7. /\ f \in [Docs -> Int] /\ Net(ar) = SumFunctionOnSet(f, Docs) /\ Net(ar) \in Int
      /\ g \in [Docs -> Int] /\ Net(paid) = SumFunctionOnSet(g, Docs)
  BY <1>3, <1>5, NetIs
<1>8. SumFunctionOnSet(i, Docs) = n /\ SumFunctionOnSet(j, Docs) = m
  BY <1>1, <1>2, SumAt
<1>9. /\ \A d \in Docs : f[d] \in Int /\ i[d] \in Int /\ h[d] \in Int /\ h[d] = f[d] + i[d]
      /\ \A d \in Docs : h[d] \in Int /\ j[d] \in Int /\ g[d] \in Int /\ g[d] = h[d] + j[d]
  <2>1. \A d \in Docs : f[d] \in Int /\ h[d] = f[d] + i[d] /\ f[d] = Signed(ar, d) /\ g[d] = Signed(paid, d)
    BY <1>7
  <2> HIDE DEF f, g, h, i, j, paid
  <2>2. QED
    BY <1>6, <2>1
<1>10. n + m = IF a.source = 0 THEN a.applied ELSE 0
  BY <1>1
<1> HIDE DEF f, g, h, i, j, n, m, paid
<1>11. SumFunctionOnSet(h, Docs) = SumFunctionOnSet(f, Docs) + SumFunctionOnSet(i, Docs)
  BY <1>9, SumPlus, DocsFinite
<1>12. SumFunctionOnSet(g, Docs) = SumFunctionOnSet(h, Docs) + SumFunctionOnSet(j, Docs)
  BY <1>9, SumPlus, DocsFinite
<1>13. QED
  BY <1>1, <1>7, <1>8, <1>10, <1>11, <1>12 DEF paid

-----------------------------------------------------------------------------
(* The books: what the items, the credits and the applications say of the   *)
(* open items.                                                             *)

\* An id not used has nothing to it.
NoneAt(ar) == \A d \in Docs : ar[d].type = "none" => ar[d].amount = 0

\* A receipt is applied to what is owed; what was left over of it is a credit.
ItemAt(ar, i, d) ==
    /\ i.amount \in Nat
    /\ i.amount # 0 => IF i.applied THEN Billed(ar, d) ELSE ar[d].type = "C"
ItemsAt(ar, items) == \A r \in Receipts, d \in Docs : ItemAt(ar, items[r][d], d)

\* A credit memo is to be applied to what is owed.
PendingAt(ar, pending) ==
    \A c \in Docs, d \in Docs : pending[c][d] # 0 => ar[c].type = "C" /\ Billed(ar, d)

Books(ar, items, pending, rows) ==
    NoneAt(ar) /\ ItemsAt(ar, items) /\ PendingAt(ar, pending) /\ Tied(ar, rows)

\* Documents stay what they are.
Grown(ar, more) == \A d \in Docs : ar[d].type # "none" => more[d].type = ar[d].type

\* So what is applied to them still is.
LEMMA GrownAt ==
  ASSUME NEW ar, NEW more, Grown(ar, more)
  PROVE  /\ \A items : ItemsAt(ar, items) => ItemsAt(more, items)
         /\ \A pending : PendingAt(ar, pending) => PendingAt(more, pending)
BY DEF Grown, ItemsAt, ItemAt, PendingAt, Billed

\* The next free id.
LEMMA NewDocIs ==
  ASSUME NEW ar, FreeDocs(ar) # {}
  PROVE  NewDoc(ar) \in Docs /\ ar[NewDoc(ar)].type = "none"
<1>1. FreeDocs(ar) \subseteq Nat
  BY ReceivablesAssumption DEF FreeDocs
<1>2. \E n \in FreeDocs(ar) : \A m \in FreeDocs(ar) : n <= m
  BY <1>1, LeastNumber
<1>3. NewDoc(ar) \in FreeDocs(ar)
  BY <1>2 DEF NewDoc, Least
<1>4. QED
  BY <1>3 DEF FreeDocs

\* A document made under it.
LEMMA MadeIs ==
  ASSUME NEW ar, DocsOK(ar), NoneAt(ar), NEW c \in Docs, ar[c].type = "none",
         NEW type \in {"I", "D", "C"}, NEW n \in Nat \ {0}
  PROVE  LET made == [ar EXCEPT ![c] = Doc(type, n)]
         IN  /\ DocsOK(made) /\ NoneAt(made) /\ Grown(ar, made)
             /\ made[c].type = type /\ made[c].paid = 0 /\ made[c].amount = n
             /\ \A d \in Docs \ {c} : made[d] = ar[d]
             /\ Net(made) = Net(ar) + (IF type = "C" THEN -n ELSE n)
<1> DEFINE made == [ar EXCEPT ![c] = Doc(type, n)]
<1>1. made[c] = Doc(type, n) /\ \A d \in Docs \ {c} : made[d] = ar[d]
  BY DEF DocsOK
<1>2. made[c].type = type /\ made[c].paid = 0 /\ made[c].amount = n
  BY <1>1 DEF Doc
<1>3. DocsOK(made)
  BY NewDocOK
<1>4. Net(made) = Net(ar) + (IF type = "C" THEN -n ELSE n)
  BY NetNew DEF NoneAt
<1> HIDE DEF made
<1>5. NoneAt(made) /\ Grown(ar, made)
  BY <1>1, <1>2 DEF NoneAt, Grown
<1>6. QED
  BY <1>1, <1>2, <1>3, <1>4, <1>5 DEF made

\* An item written for what is left over.
LEMMA MoreItemsAt ==
  ASSUME NEW ar, NEW more, Grown(ar, more), NEW items \in ItemsType, ItemsAt(ar, items),
         NEW r \in Receipts, NEW d \in Docs, NEW n \in Nat, NEW applied \in BOOLEAN,
         IF applied THEN Billed(more, d) ELSE more[d].type = "C"
  PROVE  ItemsAt(more, [items EXCEPT ![r][d] = Item(n, applied)])
<1> DEFINE new == [items EXCEPT ![r][d] = Item(n, applied)]
<1>1. new[r][d] = Item(n, applied)
  BY DEF ItemsType
<1>2. \A q \in Receipts, e \in Docs : q # r \/ e # d => new[q][e] = items[q][e]
  BY DEF ItemsType
<1>3. ItemAt(more, Item(n, applied), d)
  BY DEF ItemAt, Item
<1>4. ItemsAt(more, items)
  BY GrownAt
<1> HIDE DEF new
<1>5. ItemsAt(more, new)
  BY <1>1, <1>2, <1>3, <1>4 DEF ItemsAt
<1>6. QED
  BY <1>5 DEF new

\* The items of the other receipts stay.
LEMMA OtherItems ==
  ASSUME IInv, NEW r, NEW d, NEW i
  PROVE  \A q \in Receipts : q # r => [item EXCEPT ![r][d] = i][q] = item[q]
BY DEF IInv, ItemsType

\* What a credit memo is to be applied to, set or cleared.
LEMMA MorePendingAt ==
  ASSUME NEW ar, NEW pending \in PendingType, PendingAt(ar, pending),
         NEW c \in Docs, NEW to, \A d \in Docs : to[d] # 0 => ar[c].type = "C" /\ Billed(ar, d)
  PROVE  PendingAt(ar, [pending EXCEPT ![c] = to])
BY DEF PendingAt, PendingType

\* A credit memo keeps the books when it is applied to what is owed.
LEMMA CreditedIs ==
  ASSUME NEW ar, DocsOK(ar), NoneAt(ar), NEW c \in Docs, ar[c].type = "C",
         NEW to \in [Docs -> Int], \A d \in Docs : to[d] # 0 => Billed(ar, d)
  PROVE  /\ Grown(ar, Credited(ar, c, to)) /\ NoneAt(Credited(ar, c, to))
         /\ Net(Credited(ar, c, to)) = Net(ar)
<1> DEFINE paid == Credited(ar, c, to)
<1>1. \A d \in Docs : paid[d].type = ar[d].type /\ paid[d].amount = ar[d].amount
  BY DEF Credited, Paid
<1>2. Net(paid) = Net(ar)
  BY NetCredited
<1> HIDE DEF paid
<1>3. QED
  BY <1>1, <1>2 DEF Grown, NoneAt, paid

-----------------------------------------------------------------------------
(* The outcomes of posting and reversing keep the books, and move the        *)
(* balance by the receipt's amount.                                        *)

KeptBy(out, r, change) ==
    out.ok => /\ \A q \in Receipts : q # r => out.item[q] = item[q]
              /\ Books(out.aropen, out.item, out.arcreditapply, arapply (+) out.rows)
              /\ Net(out.aropen) = Net(aropen) + change

\* An outcome keeps the books if its parts do.
LEMMA OutcomeKept ==
    ASSUME NEW ok \in BOOLEAN, NEW ar, NEW items, NEW pending, NEW rows, NEW r, NEW change,
           \A q \in Receipts : q # r => items[q] = item[q],
           ok => Books(ar, items, pending, arapply (+) rows),
           ok => Net(ar) = Net(aropen) + change
    PROVE  KeptBy(Outcome(ok, ar, items, pending, rows), r, change)
<1> DEFINE out == Outcome(ok, ar, items, pending, rows)
<1>1. /\ out.ok = ok /\ out.aropen = ar /\ out.item = items
      /\ out.arcreditapply = pending /\ out.rows = rows
  BY DEF Outcome
<1> HIDE DEF out
<1>2. QED
  BY <1>1, Zenon DEF KeptBy, out

\* Recording nothing changes nothing.
LEMMA NoMoreRows ==
  ASSUME NEW rows, IsRows(rows)
  PROVE  rows (+) EmptyBag = rows
<1>1. \A a \in DOMAIN rows : rows[a] + 0 = rows[a]
  BY DEF IsRows
<1>2. rows = [a \in DOMAIN rows |-> rows[a]]
  BY DEF IsRows
<1>3. rows (+) EmptyBag = [a \in DOMAIN rows |-> rows[a] + 0]
  BY DEF (+), EmptyBag, SetToBag
<1>4. QED
  BY <1>1, <1>2, <1>3

\* An item of an unposted receipt is applied to what is owed.
ReadyAt ==
    \A r \in Receipts, d \in Docs : item[r][d].amount # 0 =>
      cashrcpt[r].state # "none" /\ (Unposted(r) => item[r][d].applied)

\* What the items post.
LEMMA ItemsPostedIs ==
  ASSUME NEW ar, DocsOK(ar), NEW k, k.items \in [Docs -> ItemType],
         \A d \in Docs : k.items[d].amount \in Nat /\ k.paid[d] = ar[d].paid
  PROVE  \A d \in Docs : /\ ItemsPosted(ar, k)[d].type = ar[d].type
                         /\ ItemsPosted(ar, k)[d].amount = ar[d].amount
                         /\ ItemsPosted(ar, k)[d].paid = ar[d].paid + Amounts(k.items)[d]
<1> SUFFICES ASSUME NEW d \in Docs
             PROVE  /\ ItemsPosted(ar, k)[d].type = ar[d].type
                    /\ ItemsPosted(ar, k)[d].amount = ar[d].amount
                    /\ ItemsPosted(ar, k)[d].paid = ar[d].paid + Amounts(k.items)[d]
  OBVIOUS
<1> DEFINE n == k.items[d].amount
<1>1. ar[d].paid \in Nat /\ Size(n) = n /\ n \in Nat /\ Amounts(k.items)[d] = n
  BY DEF DocsOK, DocType, Size, Amounts
<1>2. CASE n = 0
  <2>1. ItemsPosted(ar, k)[d] = ar[d]
    BY <1>1, <1>2 DEF ItemsPosted
  <2>2. QED
    BY <1>1, <1>2, <2>1
<1>3. CASE n # 0
  <2>1. ItemsPosted(ar, k)[d] = Paid(ar[d], k.paid[d] + n, ar[d].amount - k.paid[d] > n)
    BY <1>1, <1>3 DEF ItemsPosted
  <2> HIDE DEF n
  <2>2. QED
    BY <1>1, <2>1 DEF Paid
<1>4. QED
  BY <1>2, <1>3

\* A receipt posted.
LEMMA PostNowKept ==
    ASSUME IInv, Books(aropen, item, arcreditapply, arapply), ReadyAt, FreeDocs(aropen) # {},
           NEW k, k.id \in Receipts, k.items = item[k.id], Unposted(k.id),
           k.amount \in Nat, k.paid \in [Docs -> Nat], Sum(Amounts(k.items)) <= k.amount,
           \A d \in Docs : k.paid[d] = aropen[d].paid
    PROVE  KeptBy(PostNow(k, ItemsPosted(aropen, k)), k.id, -k.amount)
<1> DEFINE ar == ItemsPosted(aropen, k)
           to == Amounts(k.items)
           rest == k.amount - Sum(to)
           c == NewDoc(ar)
           made == [ar EXCEPT ![c] = Doc("C", rest)]
           items == [item EXCEPT ![k.id][c] = Item(rest, FALSE)]
           rows == ReceiptRows(k, to)
<1>1. k.items \in [Docs -> ItemType] /\ DocsOK(aropen) /\ item \in ItemsType
  BY DEF IInv, ItemsType
<1>2. \A d \in Docs : k.items[d].amount \in Nat
  BY DEF Books, ItemsAt, ItemAt
<1>3. to \in [Docs -> Int] /\ Sum(to) \in Int
  BY <1>1, AmountsOK, SumOverDocs
<1>4. \A d \in Docs : to[d] # 0 => Billed(aropen, d)
  BY DEF Amounts, Books, ItemsAt, ItemAt, ReadyAt
<1>5. \A d \in Docs : /\ ar[d].type = aropen[d].type /\ ar[d].amount = aropen[d].amount
                      /\ ar[d].paid = aropen[d].paid + to[d]
  BY <1>1, <1>2, ItemsPostedIs
<1>6. PostNow(k, ar) = IF Remains(rest)
        THEN Outcome(Valid(ar), made, items, arcreditapply, rows)
        ELSE Outcome(Valid(ar), ar, item, arcreditapply, rows)
  BY DEF PostNow
<1>7. Valid(ar) \in BOOLEAN
  BY ValidBoolean
<1>8. Remains(rest) <=> rest \in Nat \ {0}
  BY DEF Remains
<1>9. Valid(ar) => DocsOK(ar)
  BY <1>1, ItemsPostedOK
<1> HIDE DEF ar, to, rest
<1>10. Tied(ar, arapply (+) rows)
  BY <1>1, <1>3, <1>4, <1>5, TiedReceipt DEF Books
<1>11. Net(aropen) = Net(ar) + Sum(to) /\ Net(ar) \in Int /\ Net(aropen) \in Int
  <2>1. Typed(aropen)
    BY <1>1, DocsTyped
  <2>2. Net(aropen) = Net(ar) + Sum(to)
    BY <1>3, <1>4, <1>5, <2>1, NetPaid
  <2>3. Typed(ar)
    BY <1>3, <1>5, <2>1 DEF Typed
  <2>4. QED
    BY <2>2, <2>1, <2>3, NetIs
<1>12. NoneAt(ar) /\ Grown(aropen, ar)
  BY <1>5 DEF Books, NoneAt, Grown
<1>13. ItemsAt(ar, item) /\ PendingAt(ar, arcreditapply)
  BY <1>12, GrownAt DEF Books
<1> DEFINE new == arapply (+) rows
<1> HIDE DEF rows
<1>14. CASE Remains(rest)
  <2>1. c \in Docs /\ ar[c].type = "none"
    <3>1. FreeDocs(ar) # {}
      BY <1>5 DEF FreeDocs
    <3>2. QED
      BY <3>1, NewDocIs
  <2>2. rest \in Nat \ {0}
    BY <1>8, <1>14
  <2> HIDE DEF c
  <2>3. Valid(ar) => /\ NoneAt(made) /\ Grown(ar, made) /\ made[c].type = "C"
                     /\ Net(made) = Net(ar) - rest
    BY <1>9, <1>11, <1>12, <2>1, <2>2, MadeIs
  <2>4. Valid(ar) => Tied(made, new)
    BY <1>9, <1>10, <2>1, TiedNew
  <2>5. Valid(ar) => ItemsAt(made, items)
    BY <1>1, <1>13, <2>1, <2>2, <2>3, MoreItemsAt
  <2>6. Valid(ar) => PendingAt(made, arcreditapply)
    BY <1>13, <2>3, GrownAt
  <2>7. Valid(ar) => Books(made, items, arcreditapply, new)
    BY <2>3, <2>4, <2>5, <2>6 DEF Books
  <2>8. Valid(ar) => Net(made) = Net(aropen) + (-k.amount)
    BY <1>3, <1>11, <2>3 DEF rest
  <2>9. \A q \in Receipts : q # k.id => items[q] = item[q]
    BY OtherItems
  <2> HIDE DEF made, items
  <2>10. KeptBy(Outcome(Valid(ar), made, items, arcreditapply, rows), k.id, -k.amount)
    BY <1>7, <2>7, <2>8, <2>9, OutcomeKept
  <2>11. QED
    BY <1>6, <1>14, <2>10 DEF ar
<1>15. CASE ~Remains(rest)
  <2>1. rest = 0
    BY <1>3, <1>8, <1>15 DEF rest, to
  <2>2. Net(ar) = Net(aropen) + (-k.amount)
    BY <1>3, <1>11, <2>1 DEF rest
  <2>3. Books(ar, item, arcreditapply, new)
    BY <1>10, <1>12, <1>13 DEF Books
  <2>4. KeptBy(Outcome(Valid(ar), ar, item, arcreditapply, rows), k.id, -k.amount)
    BY <1>7, <2>2, <2>3, OutcomeKept
  <2>5. QED
    BY <1>6, <1>15, <2>4 DEF ar
<1>16. QED
  BY <1>14, <1>15

\* A receipt posted as a credit memo.
LEMMA PostLaterKept ==
    ASSUME IInv, Books(aropen, item, arcreditapply, arapply), ReadyAt, FreeDocs(aropen) # {},
           NEW k, k.id \in Receipts, k.items = item[k.id], Unposted(k.id),
           k.amount \in Nat \ {0}
    PROVE  KeptBy(PostLater(k, aropen), k.id, -k.amount)
<1> DEFINE amount == k.amount
           to == [d \in Docs |-> IF k.items[d].amount > 0 THEN k.items[d].amount ELSE 0]
           c == NewDoc(aropen)
           made == [aropen EXCEPT ![c] = Doc("C", amount)]
           rest == amount - Sum(to)
           items == IF Remains(rest) THEN [item EXCEPT ![k.id][c] = Item(rest, FALSE)] ELSE item
           pending == [arcreditapply EXCEPT ![c] = to]
           paid == Credited(made, c, to)
           new == arapply (+) CreditRows(c, to)
<1>1. k.items \in [Docs -> ItemType] /\ DocsOK(aropen) /\ item \in ItemsType
      /\ arcreditapply \in PendingType
  BY DEF IInv, ItemsType
<1>2. to \in [Docs -> Int]
  BY <1>1 DEF ItemType
<1>3. \A d \in Docs : to[d] # 0 => Billed(aropen, d)
  BY DEF Books, ItemsAt, ItemAt, ReadyAt
<1>4. c \in Docs /\ aropen[c].type = "none"
  BY NewDocIs
<1>5. PostLater(k, aropen) =
        IF MayPost(made, c, to)
        THEN Outcome(Valid(paid), paid, items, arcreditapply, CreditRows(c, to))
        ELSE Outcome(TRUE, made, items, pending, EmptyBag)
  BY DEF PostLater
<1>6. Valid(paid) \in BOOLEAN
  BY ValidBoolean
<1> HIDE DEF to, c
<1>7. /\ DocsOK(made) /\ NoneAt(made) /\ Grown(aropen, made) /\ made[c].type = "C"
      /\ Net(made) = Net(aropen) - amount
  <2>1. Net(aropen) \in Int
    BY <1>1, DocsTyped, NetIs
  <2>2. NoneAt(aropen) /\ amount \in Nat \ {0} /\ "C" \in {"I", "D", "C"} /\ DocsOK(aropen)
    BY <1>1 DEF Books
  <2> HIDE DEF amount, rest, items, pending, paid, new
  <2>3. /\ DocsOK(made) /\ NoneAt(made) /\ Grown(aropen, made) /\ made[c].type = "C"
        /\ Net(made) = Net(aropen) + (-amount)
    BY <1>4, <2>2, MadeIs
  <2>4. QED
    BY <2>1, <2>2, <2>3
<1>8. Tied(made, arapply)
  BY <1>1, <1>4, TiedNew DEF Books
<1>9. ItemsAt(made, items)
  <2>1. CASE Remains(rest)
    <3>1. rest \in Nat /\ ItemsAt(aropen, item)
      BY <2>1 DEF Remains, Books
    <3>2. items = [item EXCEPT ![k.id][c] = Item(rest, FALSE)]
      BY <2>1
    <3> HIDE DEF made, rest, items
    <3>3. ItemsAt(made, [item EXCEPT ![k.id][c] = Item(rest, FALSE)])
      BY <1>1, <1>4, <1>7, <3>1, MoreItemsAt
    <3>4. QED
      BY <3>2, <3>3
  <2>2. CASE ~Remains(rest)
    BY <1>7, <2>2, GrownAt DEF Books
  <2>3. QED
    BY <2>1, <2>2
<1>10. \A q \in Receipts : q # k.id => items[q] = item[q]
  BY OtherItems
<1> HIDE DEF made, rest, items
<1>11. PendingAt(made, arcreditapply)
  BY <1>7, GrownAt DEF Books
<1>12. \A d \in Docs : to[d] # 0 => made[c].type = "C" /\ Billed(made, d)
  BY <1>3, <1>7 DEF Billed, Grown
<1>13. PendingAt(made, pending)
  BY <1>1, <1>4, <1>11, <1>12, MorePendingAt
<1> HIDE DEF pending
<1>14. CASE MayPost(made, c, to)
  <2>1. Grown(made, paid) /\ NoneAt(paid) /\ Net(paid) = Net(made)
    BY <1>2, <1>4, <1>7, <1>12, CreditedIs
  <2>2. Tied(paid, new)
    BY <1>2, <1>4, <1>7, <1>8, <1>12, TiedCredited
  <2> HIDE DEF paid
  <2>3. Books(paid, items, arcreditapply, new)
    BY <1>9, <1>11, <2>1, <2>2, GrownAt DEF Books
  <2>4. Net(paid) = Net(aropen) + (-k.amount)
    <3>1. Net(aropen) \in Int
      BY <1>1, DocsTyped, NetIs
    <3>2. QED
      BY <1>7, <2>1, <3>1
  <2>5. KeptBy(Outcome(Valid(paid), paid, items, arcreditapply, CreditRows(c, to)), k.id, -k.amount)
    BY <1>6, <1>10, <2>3, <2>4, OutcomeKept
  <2>6. QED
    BY <1>5, <1>14, <2>5
<1>15. CASE ~MayPost(made, c, to)
  <2>1. arapply (+) EmptyBag = arapply
    BY NoMoreRows DEF Books, Tied
  <2>2. Books(made, items, pending, arapply (+) EmptyBag)
    BY <1>7, <1>8, <1>9, <1>13, <2>1 DEF Books
  <2>3. Net(made) = Net(aropen) + (-k.amount)
    <3>1. Net(aropen) \in Int
      BY <1>1, DocsTyped, NetIs
    <3>2. QED
      BY <1>7, <3>1
  <2>4. KeptBy(Outcome(TRUE, made, items, pending, EmptyBag), k.id, -k.amount)
    BY <1>10, <2>2, <2>3, OutcomeKept
  <2>5. QED
    BY <1>5, <1>15, <2>4
<1>16. QED
  BY <1>14, <1>15

\* What the reversed items take back.
LEMMA ItemsReversedIs ==
  ASSUME NEW ar, DocsOK(ar), NEW k, \A d \in Docs : k.items[d].amount \in Nat,
         \A d \in Docs : k.paid[d] = ar[d].paid
  PROVE  \A d \in Docs : /\ ItemsReversed(ar, k)[d].type = ar[d].type
                         /\ ItemsReversed(ar, k)[d].amount = ar[d].amount
                         /\ ItemsReversed(ar, k)[d].paid = ar[d].paid + (-Applied(k)[d])
<1> SUFFICES ASSUME NEW d \in Docs
             PROVE  /\ ItemsReversed(ar, k)[d].type = ar[d].type
                    /\ ItemsReversed(ar, k)[d].amount = ar[d].amount
                    /\ ItemsReversed(ar, k)[d].paid = ar[d].paid + (-Applied(k)[d])
  OBVIOUS
<1> DEFINE n == Applied(k)[d]
<1>1. n \in Nat
  BY DEF Applied
<1>2. ar[d].paid \in Nat /\ Size(n) = n
  BY <1>1 DEF DocsOK, DocType, Size
<1>3. ItemsReversed(ar, k)[d] = IF n = 0 THEN ar[d] ELSE Paid(ar[d], k.paid[d] - Size(n), TRUE)
  BY DEF ItemsReversed
<1> HIDE DEF n
<1>4. CASE n = 0
  <2>1. ItemsReversed(ar, k)[d] = ar[d]
    BY <1>3, <1>4
  <2>2. QED
    BY <1>2, <1>4, <2>1 DEF n
<1>5. CASE n # 0
  <2>1. ItemsReversed(ar, k)[d] = Paid(ar[d], ar[d].paid - n, TRUE)
    BY <1>2, <1>3, <1>5
  <2>2. ar[d].paid - n = ar[d].paid + (-n)
    BY <1>1, <1>2
  <2>3. QED
    BY <2>1, <2>2 DEF Paid, n
<1>6. QED
  BY <1>4, <1>5

\* What was left over of a receipt settled.
LEMMA SettleRestKept ==
    ASSUME IInv, Books(aropen, item, arcreditapply, arapply),
           NEW k, k.id \in Receipts, k.items = item[k.id],
           NEW ar, Valid(ar) => DocsOK(ar), NoneAt(ar), FreeDocs(ar) # {}, Net(ar) \in Int,
           \A d \in Docs : ar[d].type = aropen[d].type,
           NEW rows, IsRows(rows), Tied(ar, arapply (+) rows),
           NEW rest \in Nat \ {0}, NEW change, Net(ar) + rest = Net(aropen) + change
    PROVE  KeptBy(SettleRest(k, ar, rest, rows), k.id, change)
<1> DEFINE d == NewDoc(ar)
           made == [ar EXCEPT ![d] = Doc("D", rest)]
           items == [item EXCEPT ![k.id][d] = Item(rest, TRUE)]
           credits == {c \in Docs : k.items[c].amount # 0 /\ ~k.items[c].applied}
           c == CHOOSE e \in credits : TRUE
           left == CreditLeft(made, arcreditapply, c)
           n == IF rest > left THEN left ELSE rest
           to == [arcreditapply[c] EXCEPT ![d] = n]
           paid == Credited(made, c, to)
           pending == [arcreditapply EXCEPT ![c] = to]
           none == [arcreditapply EXCEPT ![c] = [e \in Docs |-> 0]]
           more == CreditRows(c, to)
           new == arapply (+) rows
<1>1. SettleRest(k, ar, rest, rows) =
        IF credits = {} THEN Outcome(Valid(ar), made, items, arcreditapply, rows)
        ELSE IF ~MayPost(made, c, to)
        THEN Outcome(Valid(ar) /\ left \in Nat, made, items, pending, rows)
        ELSE Outcome(Valid(ar) /\ left \in Nat /\ Valid(paid), paid, items, none,
                     rows (+) more)
  BY Zenon DEF SettleRest
<1>2. item \in ItemsType /\ arcreditapply \in PendingType
  BY DEF IInv
<1>3. d \in Docs /\ ar[d].type = "none"
  BY NewDocIs
<1>4. Valid(ar) \in BOOLEAN /\ Valid(paid) \in BOOLEAN
  BY ValidBoolean
<1>5. Grown(aropen, ar)
  BY DEF Grown
<1> HIDE DEF d
<1>6. ASSUME Valid(ar)
      PROVE  /\ DocsOK(made) /\ NoneAt(made) /\ Grown(ar, made) /\ made[d].type = "D"
             /\ Net(made) = Net(ar) + rest
  BY <1>3, <1>6, MadeIs
<1>7. ASSUME Valid(ar) PROVE Tied(made, new)
  BY <1>3, <1>7, TiedNew
<1>8. ASSUME Valid(ar)
      PROVE  /\ Grown(aropen, made) /\ ItemsAt(made, items) /\ PendingAt(made, arcreditapply)
             /\ Net(made) = Net(aropen) + change
  <2>1. Grown(aropen, made)
    BY <1>5, <1>6, <1>8 DEF Grown
  <2>2. Billed(made, d)
    BY <1>6, <1>8 DEF Billed
  <2>3. ItemsAt(aropen, item) /\ PendingAt(aropen, arcreditapply)
    BY DEF Books
  <2> HIDE DEF made
  <2>4. ItemsAt(made, items)
    BY <1>2, <1>3, <2>1, <2>2, <2>3, MoreItemsAt
  <2>5. PendingAt(made, arcreditapply)
    BY <2>1, <2>3, GrownAt
  <2>6. QED
    BY <1>6, <1>8, <2>1, <2>4, <2>5
<1>9. ASSUME credits # {} PROVE c \in Docs /\ c # d /\ aropen[c].type = "C"
  <2>1. c \in credits
    BY <1>9
  <2> HIDE DEF c
  <2>2. aropen[c].type = "C"
    BY <2>1 DEF Books, ItemsAt, ItemAt
  <2>3. QED
    BY <1>3, <2>1, <2>2
<1>10. ASSUME credits # {}, Valid(ar), left \in Nat
       PROVE  /\ made[c].type = "C" /\ to \in [Docs -> Int]
              /\ \A e \in Docs : to[e] # 0 => Billed(made, e)
  <2>1. made[c].type = "C"
    BY <1>8, <1>9, <1>10 DEF Grown
  <2>2. n \in Int
    BY <1>10
  <2>3. arcreditapply[c] \in [Docs -> Int]
    BY <1>2, <1>9, <1>10 DEF PendingType
  <2> HIDE DEF c, n, made
  <2>4. to \in [Docs -> Int]
    BY <1>3, <2>2, <2>3
  <2>5. \A e \in Docs : e # d => to[e] = arcreditapply[c][e]
    BY <2>3
  <2>6. ASSUME NEW e \in Docs, to[e] # 0 PROVE Billed(made, e)
    <3>1. CASE e = d
      BY <1>6, <1>10, <3>1 DEF Billed
    <3>2. CASE e # d
      BY <1>8, <1>9, <1>10, <2>5, <2>6, <3>2 DEF PendingAt
    <3>3. QED
      BY <3>1, <3>2
  <2>7. QED
    BY <2>1, <2>4, <2>6
<1>11. \A q \in Receipts : q # k.id => items[q] = item[q]
  BY OtherItems
<1> HIDE DEF made, items, c, left, to, paid, n
<1>12. CASE credits = {}
  <2>1. Valid(ar) => Books(made, items, arcreditapply, new)
    BY <1>6, <1>7, <1>8 DEF Books
  <2>2. Valid(ar) => Net(made) = Net(aropen) + change
    BY <1>8
  <2>3. KeptBy(Outcome(Valid(ar), made, items, arcreditapply, rows), k.id, change)
    BY <1>4, <1>11, <2>1, <2>2, OutcomeKept
  <2>4. QED
    BY <1>1, <1>12, <2>3
<1>13. CASE credits # {} /\ ~MayPost(made, c, to)
  <2> DEFINE ok == Valid(ar) /\ left \in Nat
  <2>1. ASSUME ok PROVE PendingAt(made, pending)
    <3>1. \A e \in Docs : to[e] # 0 => made[c].type = "C" /\ Billed(made, e)
      BY <1>10, <1>13, <2>1
    <3>2. QED
      BY <1>2, <1>8, <1>9, <1>13, <2>1, <3>1, MorePendingAt
  <2> HIDE DEF pending
  <2>2. ok => Books(made, items, pending, new)
    BY <1>6, <1>7, <1>8, <2>1 DEF Books
  <2>3. ok => Net(made) = Net(aropen) + change
    BY <1>8
  <2>4. ok \in BOOLEAN
    BY <1>4
  <2> HIDE DEF ok
  <2>5. KeptBy(Outcome(ok, made, items, pending, rows), k.id, change)
    BY <1>11, <2>2, <2>3, <2>4, OutcomeKept
  <2>6. QED
    BY <1>1, <1>13, <2>5 DEF ok
<1>14. CASE credits # {} /\ MayPost(made, c, to)
  <2> DEFINE ok == Valid(ar) /\ left \in Nat /\ Valid(paid)
  <2>1. ASSUME ok PROVE Books(paid, items, none, arapply (+) (rows (+) more))
    <3>1. /\ DocsOK(made) /\ NoneAt(made) /\ Tied(made, new) /\ c \in Docs
          /\ made[c].type = "C" /\ to \in [Docs -> Int]
          /\ \A e \in Docs : to[e] # 0 => Billed(made, e)
      BY <1>6, <1>7, <1>9, <1>10, <1>14, <2>1
    <3>2. Grown(made, paid) /\ NoneAt(paid)
      BY <3>1, CreditedIs DEF paid
    <3>3. Tied(paid, new (+) more)
      BY <3>1, TiedCredited DEF paid
    <3>4. to[c] = 0
      BY <3>1 DEF Billed
    <3>5. IsRows(more)
      BY <3>1, <3>4, CreditRowsApplied
    <3>6. new (+) more = arapply (+) (rows (+) more)
      BY <3>5, MoreAssociative DEF Books, Tied
    <3>7. ItemsAt(paid, items) /\ PendingAt(paid, arcreditapply)
      BY <1>8, <2>1, <3>2, GrownAt
    <3>8. PendingAt(paid, none)
      <4> DEFINE zero == [e \in Docs |-> 0]
      <4>1. \A e \in Docs : zero[e] # 0 => paid[c].type = "C" /\ Billed(paid, e)
        OBVIOUS
      <4> HIDE DEF zero
      <4>2. PendingAt(paid, [arcreditapply EXCEPT ![c] = zero])
        BY <1>2, <3>1, <3>7, <4>1, MorePendingAt
      <4>3. QED
        BY <4>2 DEF zero
    <3> HIDE DEF none, more, new
    <3>9. QED
      BY <3>2, <3>3, <3>6, <3>7, <3>8 DEF Books
  <2>2. ASSUME ok PROVE Net(paid) = Net(aropen) + change
    <3>1. /\ DocsOK(made) /\ NoneAt(made) /\ c \in Docs
          /\ made[c].type = "C" /\ to \in [Docs -> Int]
          /\ \A e \in Docs : to[e] # 0 => Billed(made, e)
      BY <1>6, <1>9, <1>10, <1>14, <2>2
    <3>2. Net(paid) = Net(made)
      BY <3>1, CreditedIs DEF paid
    <3>3. QED
      BY <1>8, <2>2, <3>2
  <2>3. ok \in BOOLEAN
    BY <1>4
  <2> HIDE DEF ok, none, more
  <2>4. KeptBy(Outcome(ok, paid, items, none, rows (+) more), k.id, change)
    BY <1>11, <2>1, <2>2, <2>3, OutcomeKept
  <2>5. QED
    BY <1>1, <1>14, <2>4 DEF ok
<1>15. QED
  BY <1>12, <1>13, <1>14

\* A receipt reversed.
LEMMA ReversedKept ==
    ASSUME IInv, Books(aropen, item, arcreditapply, arapply), FreeDocs(aropen) # {},
           NEW k, k.id \in Receipts, k.items = item[k.id], k.amount \in Nat,
           Sum(Applied(k)) <= k.amount, \A d \in Docs : k.paid[d] = aropen[d].paid
    PROVE  KeptBy(Reversed(k), k.id, k.amount)
<1> DEFINE ar == ItemsReversed(aropen, k)
           rest == k.amount - Sum(Applied(k))
           back == [d \in Docs |-> -Applied(k)[d]]
           rows == ReceiptRows(k, back)
<1>1. k.items \in [Docs -> ItemType] /\ DocsOK(aropen)
  BY DEF IInv, ItemsType
<1>2. \A d \in Docs : k.items[d].amount \in Nat
  BY DEF Books, ItemsAt, ItemAt
<1>3. Applied(k) \in [Docs -> Int] /\ back \in [Docs -> Int]
  BY <1>1, AppliedOK
<1>4. \A d \in Docs : Applied(k)[d] # 0 => Billed(aropen, d)
  BY DEF Applied, Books, ItemsAt, ItemAt
<1>5. \A d \in Docs : back[d] = -Applied(k)[d] /\ (back[d] # 0 => Billed(aropen, d))
  BY <1>3, <1>4
<1>6. \A d \in Docs : /\ ar[d].type = aropen[d].type /\ ar[d].amount = aropen[d].amount
                      /\ ar[d].paid = aropen[d].paid + (-Applied(k)[d])
  BY <1>1, <1>2, ItemsReversedIs
<1>7. Valid(ar) => DocsOK(ar)
  BY <1>1, ItemsReversedOK
<1>8. Reversed(k) = IF Remains(rest) THEN SettleRest(k, ar, rest, rows)
                    ELSE Outcome(Valid(ar), ar, item, arcreditapply, rows)
  BY Zenon DEF Reversed
<1>9. Valid(ar) \in BOOLEAN /\ (Remains(rest) <=> rest \in Nat \ {0})
  BY ValidBoolean DEF Remains
<1>10. Sum(Applied(k)) \in Int
  BY <1>3, SumOverDocs
<1> HIDE DEF ar, back
<1>11. \A d \in Docs : ar[d].type = aropen[d].type /\ ar[d].paid = aropen[d].paid + back[d]
  BY <1>5, <1>6
<1>12. Tied(ar, arapply (+) rows)
  BY <1>1, <1>3, <1>5, <1>11, TiedReceipt DEF Books
<1>13. Typed(aropen) /\ Typed(ar)
  <2>1. Typed(aropen)
    BY <1>1, DocsTyped
  <2>2. QED
    BY <1>3, <1>6, <2>1 DEF Typed
<1>14. Net(ar) \in Int /\ Net(aropen) \in Int
  BY <1>13, NetIs
<1>15. Net(ar) = Net(aropen) + Sum(Applied(k))
  <2>1. \A d \in Docs : aropen[d].type = ar[d].type /\ aropen[d].amount = ar[d].amount
                        /\ aropen[d].paid = ar[d].paid + Applied(k)[d]
    <3>1. ASSUME NEW d \in Docs PROVE aropen[d].paid = ar[d].paid + Applied(k)[d]
      <4>1. aropen[d].paid \in Int /\ Applied(k)[d] \in Int
        BY <1>3, <1>13 DEF Typed
      <4>2. QED
        BY <1>6, <4>1
    <3>2. QED
      BY <1>6, <3>1
  <2>2. \A d \in Docs : Applied(k)[d] # 0 => Billed(ar, d)
    BY <1>4, <1>6 DEF Billed
  <2>3. QED
    BY <1>3, <1>13, <2>1, <2>2, NetPaid
<1>16. NoneAt(ar) /\ Grown(aropen, ar) /\ FreeDocs(ar) # {}
  BY <1>6 DEF Books, NoneAt, Grown, FreeDocs
<1>17. IsRows(rows)
  <2>1. PICK d \in Docs : TRUE
    BY DEF FreeDocs
  <2>2. QED
    BY <1>3, ReceiptRowsApplied
<1> HIDE DEF rows
<1>18. CASE Remains(rest)
  <2>1. rest \in Nat \ {0} /\ Net(ar) + rest = Net(aropen) + k.amount
    BY <1>9, <1>10, <1>14, <1>15, <1>18
  <2> HIDE DEF rest
  <2>2. KeptBy(SettleRest(k, ar, rest, rows), k.id, k.amount)
    BY <1>6, <1>7, <1>12, <1>14, <1>16, <1>17, <2>1, SettleRestKept
  <2>3. QED
    BY <1>8, <1>18, <2>2
<1>19. CASE ~Remains(rest)
  <2>1. rest = 0
    BY <1>9, <1>10, <1>19
  <2>2. Net(ar) = Net(aropen) + k.amount
    BY <1>10, <1>14, <1>15, <2>1
  <2>3. Books(ar, item, arcreditapply, arapply (+) rows)
    BY <1>12, <1>16, GrownAt DEF Books
  <2>4. KeptBy(Outcome(Valid(ar), ar, item, arcreditapply, rows), k.id, k.amount)
    BY <1>9, <2>2, <2>3, OutcomeKept
  <2>5. QED
    BY <1>8, <1>19, <2>4
<1>20. QED
  BY <1>18, <1>19

-----------------------------------------------------------------------------
(* Every step keeps the books, when transactions do not overlap and items   *)
(* are not applied beyond their balance.                                   *)

\* What a call has read is still so.
CallAt ==
    \A s \in Sessions :
      /\ call[s].op = "apply" =>
           /\ call[s].id \in Docs /\ aropen[call[s].id].type = "C"
           /\ call[s].rows = arcreditapply[call[s].id]
      /\ call[s].op \in {"post", "reverse"} =>
           /\ call[s].items = item[call[s].id]
           /\ \A d \in Docs : call[s].paid[d] = aropen[d].paid
      /\ call[s].op = "post" =>
           Unposted(call[s].id) /\ Sum(Amounts(call[s].items)) <= call[s].amount
      /\ call[s].op = "reverse" => Sum(Applied(call[s])) <= call[s].amount

BooksInv == Books(aropen, item, arcreditapply, arapply) /\ ReadyAt /\ CallAt

\* The books are kept at first.
LEMMA InitBooks == Init => BooksInv
<1> SUFFICES ASSUME Init PROVE BooksInv
  OBVIOUS
<1>1. Tied(aropen, arapply)
  BY TiedNone DEF Init, NoDoc
<1>2. NoneAt(aropen) /\ ItemsAt(aropen, item) /\ PendingAt(aropen, arcreditapply)
  BY DEF Init, NoDoc, NoItem, NoneAt, ItemsAt, ItemAt, PendingAt
<1>3. ReadyAt /\ CallAt
  BY DEF Init, NoItem, ReadyAt, CallAt, Idle
<1>4. QED
  BY <1>1, <1>2, <1>3 DEF BooksInv, Books

\* With nothing under way there is nothing to be so.
LEMMA IdleCalls ==
  ASSUME \A s \in Sessions : call'[s] = Idle
  PROVE  CallAt'
BY DEF CallAt, Idle

\* Nothing under way, nothing starts.
LEMMA AloneCalls ==
  ASSUME ~Overlap, Alone, UNCHANGED call
  PROVE  CallAt'
BY IdleCalls DEF Alone

\* A document issued.
LEMMA IssueBooks ==
  ASSUME ~Overlap, IInv, BooksInv, NEW type \in {"I", "D", "C"}, NEW n \in Nat \ {0}, Issue(type, n)
  PROVE  BooksInv' /\ Net(aropen)' = Net(aropen) + (IF type = "C" THEN -n ELSE n)
<1> DEFINE c == NewDoc(aropen)
           made == [aropen EXCEPT ![c] = Doc(type, n)]
<1>1. c \in Docs /\ aropen[c].type = "none"
  BY NewDocIs DEF Issue
<1>2. DocsOK(aropen) /\ NoneAt(aropen)
  BY DEF IInv, BooksInv, Books
<1>3. aropen' = made
  BY DEF Issue
<1> HIDE DEF c
<1>4. NoneAt(made) /\ Grown(aropen, made) /\ Net(made) = Net(aropen) + (IF type = "C" THEN -n ELSE n)
  BY <1>1, <1>2, MadeIs
<1>5. Tied(made, arapply)
  BY <1>1, <1>2, TiedNew DEF BooksInv, Books
<1> HIDE DEF made
<1>6. ItemsAt(made, item) /\ PendingAt(made, arcreditapply)
  BY <1>4, GrownAt DEF BooksInv, Books
<1>7. UNCHANGED <<item, arcreditapply, arapply, cashrcpt, call>> /\ Alone
  BY DEF Issue
<1>8. Books(made, item, arcreditapply, arapply)
  BY <1>4, <1>5, <1>6 DEF Books
<1>9. Books(aropen, item, arcreditapply, arapply)' /\ Net(aropen)' = Net(made)
  BY <1>3, <1>7, <1>8, Zenon
<1>10. ReadyAt'
  BY <1>7 DEF BooksInv, ReadyAt, Unposted
<1>11. QED
  BY <1>4, <1>7, <1>9, <1>10, AloneCalls DEF BooksInv

\* A receipt entered.
LEMMA EnterBooks ==
  ASSUME ~Overlap, IInv, BooksInv, NEW r \in Receipts, NEW n \in Nat, EnterReceipt(r, n)
  PROVE  BooksInv' /\ UNCHANGED aropen
<1>1. UNCHANGED <<aropen, item, arcreditapply, arapply, call>> /\ Alone
  BY DEF EnterReceipt
<1>2. \A q \in Receipts : q # r => cashrcpt'[q] = cashrcpt[q]
  BY DEF EnterReceipt, IInv
<1>3. \A d \in Docs : item[r][d].amount = 0
  BY DEF EnterReceipt, BooksInv, ReadyAt
<1>4. ReadyAt'
  BY <1>1, <1>2, <1>3 DEF BooksInv, ReadyAt, Unposted
<1>5. Books(aropen, item, arcreditapply, arapply)'
  BY <1>1, Zenon DEF BooksInv
<1>6. QED
  BY <1>1, <1>4, <1>5, AloneCalls DEF BooksInv

\* Applications of a receipt entered, to what is owed.
LEMMA SetItemsBooks ==
  ASSUME ~Overlap, IInv, BooksInv, Alone, NEW r \in Receipts, NEW amounts, SetItems(r, amounts),
         \A d \in Docs : amounts[d] \in Nat,
         \A d \in Docs : amounts[d] # item[r][d].amount => amounts[d] = 0 \/ Billed(aropen, d)
  PROVE  BooksInv' /\ UNCHANGED aropen
<1>1. UNCHANGED <<aropen, cashrcpt, arcreditapply, arapply, call>>
  BY DEF SetItems
<1>2. \A q \in Receipts : q # r => item'[q] = item[q]
  BY DEF SetItems, IInv, ItemsType
<1>3. \A d \in Docs : item'[r][d] = IF amounts[d] = item[r][d].amount THEN item[r][d]
                                    ELSE Item(amounts[d], TRUE)
  BY DEF SetItems, IInv, ItemsType
<1>4. \A d \in Docs : Item(amounts[d], TRUE).amount = amounts[d] /\ Item(amounts[d], TRUE).applied
  BY DEF Item
<1>5. ItemsAt(aropen, item) /\ Unposted(r)
  BY DEF BooksInv, Books, SetItems
<1>6. ASSUME NEW d \in Docs PROVE ItemAt(aropen, item'[r][d], d)
  <2>1. CASE amounts[d] = item[r][d].amount
    <3>1. item'[r][d] = item[r][d]
      BY <1>3, <2>1
    <3>2. ItemAt(aropen, item[r][d], d)
      BY ONLY <1>5, r \in Receipts, d \in Docs DEF ItemsAt
    <3> QED
      BY ONLY <3>1, <3>2
  <2>2. CASE amounts[d] # item[r][d].amount
    <3> DEFINE i == Item(amounts[d], TRUE)
    <3>1. item'[r][d] = i
      BY <1>3, <2>2
    <3>2. i.amount = amounts[d] /\ i.applied
      BY <1>4
    <3>3. amounts[d] \in Nat /\ (amounts[d] = 0 \/ Billed(aropen, d))
      BY <2>2
    <3> HIDE DEF i
    <3> QED
      BY ONLY <3>1, <3>2, <3>3 DEF ItemAt
  <2> QED
    BY <2>1, <2>2
<1>7. ItemsAt(aropen, item')
  BY <1>2, <1>5, <1>6 DEF ItemsAt
<1>8. ReadyAt'
  <2>1. \A q \in Receipts, d \in Docs : Unposted(q)' <=> Unposted(q)
    BY <1>1 DEF Unposted
  <2>2. cashrcpt[r].state # "none"
    BY <1>5 DEF Unposted
  <2>3. \A d \in Docs : item'[r][d].amount # 0 => item'[r][d].applied
    BY <1>3, <1>4, <1>5 DEF BooksInv, ReadyAt
  <2>4. QED
    BY <1>1, <1>2, <2>1, <2>2, <2>3 DEF BooksInv, ReadyAt
<1>9. Books(aropen, item', arcreditapply, arapply)
  BY <1>7 DEF BooksInv, Books
<1>10. Books(aropen, item, arcreditapply, arapply)'
  BY <1>1, <1>9, Zenon
<1>11. QED
  BY <1>1, <1>8, <1>10, AloneCalls DEF BooksInv

\* What is owed has been billed.
LEMMA OwingBilled == \A d \in Owing : d \in Docs /\ Billed(aropen, d)
BY DEF Owing, Billed

\* A receipt applied to the balance, to one item, and an application entered.
LEMMA ToBalanceBooks ==
  ASSUME ~Overlap, IInv, BooksInv, NEW r \in Receipts, ApplyCashReceiptToBalance(r)
  PROVE  BooksInv' /\ UNCHANGED aropen
<1> DEFINE amounts == [d \in Docs |-> item[r][d].amount + Taken(r)[d]]
<1>1. SetItems(r, amounts) /\ Alone
  BY DEF ApplyCashReceiptToBalance
<1>2. \A d \in Docs : item[r][d].amount \in Nat
  BY DEF BooksInv, Books, ItemsAt, ItemAt
<1>3. \A d \in Docs : amounts[d] \in Nat /\ (amounts[d] # item[r][d].amount => d \in Owing)
  BY <1>2, TakenIs
<1> HIDE DEF amounts
<1>4. \A d \in Docs : amounts[d] # item[r][d].amount => amounts[d] = 0 \/ Billed(aropen, d)
  BY <1>3, OwingBilled
<1>5. \A d \in Docs : amounts[d] \in Nat
  BY <1>3
<1>6. QED
  BY <1>1, <1>4, <1>5, SetItemsBooks

\* The amount of one item changed.
LEMMA OneItemBooks ==
  ASSUME ~Overlap, IInv, BooksInv, Alone, NEW r \in Receipts, NEW d \in Docs, Billed(aropen, d),
         NEW n \in Nat, SetItems(r, [Amounts(item[r]) EXCEPT ![d] = n])
  PROVE  BooksInv' /\ UNCHANGED aropen
<1> DEFINE amounts == [Amounts(item[r]) EXCEPT ![d] = n]
<1>1. \A e \in Docs : amounts[e] = IF e = d THEN n ELSE item[r][e].amount
  BY DEF Amounts
<1>2. \A e \in Docs : item[r][e].amount \in Nat
  BY DEF BooksInv, Books, ItemsAt, ItemAt
<1>3. SetItems(r, amounts)
  OBVIOUS
<1> HIDE DEF amounts
<1>4. \A e \in Docs : amounts[e] \in Nat
  BY <1>1, <1>2
<1>5. \A e \in Docs : amounts[e] # item[r][e].amount => amounts[e] = 0 \/ Billed(aropen, e)
  BY <1>1
<1>6. QED
  BY <1>3, <1>4, <1>5, SetItemsBooks

LEMMA LineBooks ==
  ASSUME ~Overlap, ~Overdrawn, IInv, BooksInv, NEW r \in Receipts, NEW d \in Docs,
         ApplyCashReceiptLineBalance(r, d)
  PROVE  BooksInv' /\ UNCHANGED aropen
<1> DEFINE others == [Amounts(item[r]) EXCEPT ![d] = 0]
           left == cashrcpt[r].amount - Sum(others)
<1>1. left \in Int
  <2>1. item[r] \in [Docs -> ItemType] /\ cashrcpt[r].amount \in Int
    BY DEF IInv, ItemsType, ReceiptType
  <2>2. others \in [Docs -> Int]
    BY <2>1, AmountsOK
  <2> HIDE DEF others
  <2>3. Sum(others) \in Int
    BY <2>2, SumOverDocs
  <2>4. QED
    BY <2>1, <2>3
<1>2. Left(r, d) \in Nat
  <2>1. Left(r, d) \in Int /\ Left(r, d) >= 0
    BY LeftInt DEF ApplyCashReceiptLineBalance
  <2>2. QED
    BY <2>1
<1>3. LineAmount(r, d) = IF left <= 0 THEN 0 ELSE IF Left(r, d) <= left THEN Left(r, d) ELSE left
  BY DEF LineAmount
<1> HIDE DEF left
<1>4. LineAmount(r, d) \in Nat
  BY <1>1, <1>2, <1>3
<1>5. Alone /\ Billed(aropen, d) /\ SetItems(r, [Amounts(item[r]) EXCEPT ![d] = LineAmount(r, d)])
  BY DEF ApplyCashReceiptLineBalance, Billed
<1>6. QED
  BY <1>4, <1>5, OneItemBooks

LEMMA EnterItemBooks ==
  ASSUME ~Overlap, IInv, BooksInv, NEW r \in Receipts, NEW d \in Docs, NEW n \in ItemAmounts,
         EnterItem(r, d, n)
  PROVE  BooksInv' /\ UNCHANGED aropen
<1>1. n \in Nat
  BY ReceivablesAssumption
<1>2. Alone /\ Billed(aropen, d) /\ SetItems(r, [Amounts(item[r]) EXCEPT ![d] = n])
  BY DEF EnterItem, Billed
<1>3. QED
  BY <1>1, <1>2, OneItemBooks

\* A receipt deleted or voided.
LEMMA DeleteBooks ==
  ASSUME ~Overlap, IInv, BooksInv, NEW r \in Receipts, DeleteCashrcpt(r)
  PROVE  BooksInv' /\ UNCHANGED aropen
<1>1. UNCHANGED <<aropen, arcreditapply, arapply, call>> /\ Alone /\ cashrcpt[r] \in ReceiptType
  BY DEF DeleteCashrcpt, IInv
<1>2. /\ Receipt("deleted", 0).state = "deleted"
      /\ [cashrcpt[r] EXCEPT !.void = TRUE].void /\ [cashrcpt[r] EXCEPT !.void = TRUE].state = cashrcpt[r].state
  BY <1>1 DEF Receipt, ReceiptType
<1>3. PICK receipt : /\ cashrcpt' = [cashrcpt EXCEPT ![r] = receipt]
                     /\ receipt.state # "none" /\ (receipt.state # "entered" \/ receipt.void)
  <2>1. cashrcpt[r].state = "entered"
    BY DEF DeleteCashrcpt
  <2>2. \/ cashrcpt' = [cashrcpt EXCEPT ![r] = [cashrcpt[r] EXCEPT !.void = TRUE]]
        \/ cashrcpt' = [cashrcpt EXCEPT ![r] = Receipt("deleted", 0)]
    BY DEF DeleteCashrcpt
  <2>3. QED
    BY <1>2, <2>1, <2>2
<1>4. \A q \in Receipts, d \in Docs : item'[q][d] = item[q][d] \/ item'[q][d] = NoItem
  <2>1. item' = item \/ item' = [item EXCEPT ![r] = [d \in Docs |-> NoItem]]
    BY DEF DeleteCashrcpt
  <2>2. QED
    BY <2>1 DEF IInv, ItemsType
<1>5. NoItem.amount = 0
  BY DEF NoItem
<1>6. ItemsAt(aropen, item')
  BY <1>4, <1>5 DEF BooksInv, Books, ItemsAt, ItemAt
<1>7. ReadyAt'
  <2>1. ~Unposted(r)' /\ cashrcpt'[r].state # "none"
    BY <1>3 DEF Unposted, IInv
  <2>2. \A q \in Receipts : q # r => cashrcpt'[q] = cashrcpt[q]
    BY <1>3 DEF IInv
  <2>3. QED
    BY <1>4, <1>5, <2>1, <2>2 DEF BooksInv, ReadyAt, Unposted
<1>8. Books(aropen, item', arcreditapply, arapply)
  BY <1>6 DEF BooksInv, Books
<1>9. Books(aropen, item, arcreditapply, arapply)'
  BY <1>1, <1>8, Zenon
<1>10. QED
  BY <1>1, <1>7, <1>9, AloneCalls DEF BooksInv

\* What is pending on an item is a number.
LEMMA PendingInt ==
  ASSUME IInv, NEW d \in Docs
  PROVE  Pending(d) \in Int
<1> DEFINE R == {r \in Receipts : Unposted(r)}
           f == [r \in R |-> item[r][d].amount]
           g == [c \in Docs |-> arcreditapply[c][d]]
<1>1. IsFiniteSet(R)
  <2>1. IsFiniteSet(Receipts) /\ R \subseteq Receipts
    BY ReceivablesAssumption
  <2>2. QED
    BY <2>1, FS_Subset
<1>2. DOMAIN f = R /\ \A r \in R : f[r] \in Int
  BY DEF IInv, ItemsType, ItemType
<1>3. g \in [Docs -> Int]
  BY DEF IInv, PendingType
<1>4. Pending(d) = Sum(f) + Sum(g)
  BY DEF Pending
<1> HIDE DEF R, f, g
<1>5. Sum(f) \in Int
  BY <1>1, <1>2, SumInt DEF Sum, SumFunction
<1>6. Sum(g) \in Int
  BY <1>3, SumOverDocs
<1>7. QED
  BY <1>4, <1>5, <1>6

\* applyarcreditmemotobalance.sql adds to what is owed only.
LEMMA AddedIs ==
  ASSUME IInv, NEW c \in Docs
  PROVE  \A d \in Docs : d \notin Owing => Added(c)[d] = 0
<1> DEFINE left == CreditLeft(aropen, arcreditapply, c)
           add(d, rest) == IF d \notin Owing \/ (rest = 0 /\ d # Least(Owing)) THEN 0
                           ELSE Offset(arcreditapply[c][d], Balance(aropen, d) - Pending(d), rest)
           body(take) == [d \in Docs |-> add(d, left - Before(take, d))]
           step == [d \in Docs |-> [n \in Int |-> add(d, left - n)]]
<1>1. Added(c) = CHOOSE take : take = body(take)
  BY DEF Added, Before
<1>2. left \in Int /\ \A d \in Docs : arcreditapply[c][d] \in Int /\ Balance(aropen, d) \in Int
  <2>1. arcreditapply[c] \in [Docs -> Int] /\ \A d \in Docs : arcreditapply[c][d] \in Int
    BY DEF IInv, PendingType
  <2>2. \A d \in Docs : Balance(aropen, d) \in Int
    BY DEF IInv, DocsOK, DocType, Balance
  <2>3. Sum(arcreditapply[c]) \in Int
    BY <2>1, SumOverDocs
  <2>4. QED
    BY <2>1, <2>2, <2>3 DEF CreditLeft
<1>3. \A d \in Docs, n \in Int : add(d, left - n) \in Int
  <2>1. \A has \in Int, need \in Int, rest \in Int : Offset(has, need, rest) \in Int
    BY DEF Offset
  <2>2. \A d \in Docs : Balance(aropen, d) - Pending(d) \in Int
    BY <1>2, PendingInt
  <2>3. \A n \in Int : left - n \in Int
    BY <1>2
  <2> HIDE DEF left
  <2>4. QED
    BY <1>2, <2>1, <2>2, <2>3
<1> HIDE DEF add, left
<1>4. \A d \in Docs, n \in Int : step[d][n] \in Int
  BY <1>3
<1>5. PICK take \in [Docs -> Int] : \A d \in Docs : take[d] = step[d][Before(take, d)]
  <2> HIDE DEF step
  <2>1. QED
    BY <1>4, LoopEnds
<1>6. \A d \in Docs : take[d] = body(take)[d]
  BY <1>5, BeforeInt
<1>7. take = body(take)
  BY <1>6
<1>8. Added(c) = body(Added(c))
  BY <1>1, <1>7, Zenon
<1>9. \A d \in Docs : Added(c)[d] = add(d, left - Before(Added(c), d))
  BY <1>8
<1>10. QED
  BY <1>9 DEF add

\* What a credit memo is to be applied to.
LEMMA CreditBooks ==
  ASSUME ~Overlap, IInv, BooksInv, NEW c \in Docs, ApplyARCreditMemoToBalance(c)
  PROVE  BooksInv' /\ UNCHANGED aropen
<1> DEFINE to == [d \in Docs |-> arcreditapply[c][d] + Added(c)[d]]
<1>1. /\ UNCHANGED <<aropen, cashrcpt, item, arapply, call>> /\ Alone
      /\ arcreditapply' = [arcreditapply EXCEPT ![c] = to] /\ aropen[c].type = "C"
  BY DEF ApplyARCreditMemoToBalance
<1>2. PendingAt(aropen, arcreditapply) /\ arcreditapply \in PendingType
  BY DEF BooksInv, Books, IInv
<1>3. \A d \in Docs : arcreditapply[c][d] \in Int
  BY <1>2 DEF PendingType
<1>4. \A d \in Docs : to[d] # 0 => aropen[c].type = "C" /\ Billed(aropen, d)
  <2>1. \A d \in Docs : d \notin Owing => to[d] = arcreditapply[c][d]
    BY <1>3, AddedIs
  <2> HIDE DEF to
  <2>2. QED
    BY <1>1, <1>2, <2>1, OwingBilled DEF PendingAt
<1> HIDE DEF to
<1>5. PendingAt(aropen, arcreditapply')
  BY <1>1, <1>2, <1>4, MorePendingAt
<1>6. Books(aropen, item, arcreditapply', arapply)
  BY <1>5 DEF BooksInv, Books
<1>7. Books(aropen, item, arcreditapply, arapply)'
  BY <1>1, <1>6, Zenon
<1>8. ReadyAt'
  BY <1>1 DEF BooksInv, ReadyAt, Unposted
<1>9. QED
  BY <1>1, <1>7, <1>8, AloneCalls DEF BooksInv

-----------------------------------------------------------------------------
\* A call starts with what it reads.
LEMMA StartApplicationBooks ==
  ASSUME ~Overlap, IInv, BooksInv, NEW s \in Sessions, NEW c \in Docs, StartApplication(s, c)
  PROVE  BooksInv' /\ UNCHANGED aropen
<1>1. UNCHANGED <<aropen, cashrcpt, item, arcreditapply, arapply>> /\ Alone
  BY DEF StartApplication
<1>2. \A t \in Sessions : call[t] = Idle
  BY <1>1 DEF Alone
<1>3. ReadyAt'
  BY <1>1 DEF BooksInv, ReadyAt, Unposted
<1>4. Books(aropen, item, arcreditapply, arapply)'
  BY <1>1, Zenon DEF BooksInv
<1>5. QED
  <2> DEFINE k == [op |-> "apply", id |-> c, rows |-> arcreditapply[c]]
  <2>1. k.op = "apply" /\ k.id = c /\ k.rows = arcreditapply[c]
    OBVIOUS
  <2>2. call' = [call EXCEPT ![s] = k] /\ aropen[c].type = "C"
    BY DEF StartApplication
  <2> HIDE DEF k
  <2>3. \A t \in Sessions : call'[t] = IF t = s THEN k ELSE Idle
    BY <1>2, <2>2 DEF IInv
  <2>4. CallAt'
    BY <1>1, <2>1, <2>2, <2>3 DEF CallAt, Idle
  <2>5. QED
    BY <1>1, <1>3, <1>4, <2>4 DEF BooksInv

\* A posting or a reversal starts with what it reads.
LEMMA StartBooks ==
  ASSUME ~Overlap, IInv, BooksInv, NEW s \in Sessions, NEW r \in Receipts,
         StartPost(s, r) \/ StartReverse(s, r)
  PROVE  BooksInv' /\ UNCHANGED aropen
<1>1. UNCHANGED <<aropen, cashrcpt, item, arcreditapply, arapply>> /\ Alone
  BY DEF StartPost, StartReverse
<1>2. \A t \in Sessions : call[t] = Idle
  BY <1>1 DEF Alone
<1>3. ReadyAt'
  BY <1>1 DEF BooksInv, ReadyAt, Unposted
<1>4. Books(aropen, item, arcreditapply, arapply)'
  BY <1>1, Zenon DEF BooksInv
<1>5. CASE StartPost(s, r)
  <2> DEFINE k == Reads("post", r)
  <2>1. k.op = "post" /\ k.id = r /\ k.items = item[r] /\ k.amount = cashrcpt[r].amount
        /\ \A d \in Docs : k.paid[d] = aropen[d].paid
    BY DEF Reads
  <2>2. /\ call' = [call EXCEPT ![s] = k] /\ Unposted(r)
        /\ Sum(Amounts(item[r])) <= cashrcpt[r].amount
    BY <1>5 DEF StartPost, Unposted
  <2> HIDE DEF k
  <2>3. \A t \in Sessions : call'[t] = IF t = s THEN k ELSE Idle
    BY <1>2, <2>2 DEF IInv
  <2>4. Sum(Amounts(k.items)) <= k.amount
    BY <2>1, <2>2
  <2>5. CallAt'
    <3>1. Unposted(r)'
      BY <1>1, <2>2 DEF Unposted
    <3>2. ASSUME NEW t \in Sessions, t # s PROVE call'[t].op = "none"
      BY <2>3, <3>2 DEF Idle
    <3>3. call'[s] = k
      BY <2>3
    <3>4. Sum(Amounts(call'[s].items)) <= call'[s].amount
      BY <2>4, <3>3
    <3>5. QED
      BY <1>1, <2>1, <3>1, <3>2, <3>3, <3>4 DEF CallAt
  <2>6. QED
    BY <1>1, <1>3, <1>4, <2>5 DEF BooksInv
<1>6. CASE StartReverse(s, r)
  <2> DEFINE k == Reads("reverse", r)
  <2>1. k.op = "reverse" /\ k.id = r /\ k.items = item[r] /\ k.amount = cashrcpt[r].amount
        /\ \A d \in Docs : k.paid[d] = aropen[d].paid
    BY DEF Reads
  <2>2. /\ call' = [call EXCEPT ![s] = k]
        /\ Sum([d \in Docs |-> IF item[r][d].applied THEN item[r][d].amount ELSE 0])
             <= cashrcpt[r].amount
    BY <1>6 DEF StartReverse
  <2> HIDE DEF k
  <2>3. \A t \in Sessions : call'[t] = IF t = s THEN k ELSE Idle
    BY <1>2, <2>2 DEF IInv
  <2>4. Sum(Applied(k)) <= k.amount
    BY <2>1, <2>2 DEF Applied
  <2>5. CallAt'
    <3>1. ASSUME NEW t \in Sessions, t # s PROVE call'[t].op = "none"
      BY <2>3, <3>1 DEF Idle
    <3>2. call'[s] = k
      BY <2>3
    <3>3. Sum(Applied(call'[s])) <= call'[s].amount
      BY <2>4, <3>2
    <3>4. Applied(call[s])' = Applied(call'[s])
      BY DEF Applied
    <3>5. QED
      BY <1>1, <2>1, <3>1, <3>2, <3>3, <3>4 DEF CallAt
  <2>6. QED
    BY <1>1, <1>3, <1>4, <2>5 DEF BooksInv
<1>7. QED
  BY <1>5, <1>6

\* A call ends and nothing is under way.
LEMMA EndedCalls ==
  ASSUME IInv, CashInv, NEW s \in Sessions, call[s] # Idle, call' = [call EXCEPT ![s] = Idle]
  PROVE  CallAt'
<1>1. \A t \in Sessions : call'[t] = Idle
  BY DEF IInv, CashInv, Steady
<1>2. QED
  BY <1>1, IdleCalls

\* A credit memo applied.
LEMMA ApplicationBooks ==
  ASSUME IInv, CashInv, BooksInv, NEW s \in Sessions, EndApplication(s)
  PROVE  BooksInv' /\ Net(aropen)' = Net(aropen)
<1> DEFINE c == call[s].id
           to == call[s].rows
           ar == Credited(aropen, c, to)
           none == [d \in Docs |-> IF to[d] # 0 THEN 0 ELSE arcreditapply[c][d]]
<1>1. /\ c \in Docs /\ aropen[c].type = "C" /\ to = arcreditapply[c]
      /\ to \in [Docs -> Int] /\ call[s] # Idle /\ UNCHANGED <<item, cashrcpt>>
      /\ call' = [call EXCEPT ![s] = Idle]
  BY CallOK DEF EndApplication, BooksInv, CallAt, Idle
<1>2. CallAt'
  BY <1>1, EndedCalls
<1>3. ReadyAt'
  BY <1>1 DEF BooksInv, ReadyAt, Unposted
<1>4. CASE Valid(ar)
  <2>1. /\ aropen' = ar /\ arapply' = arapply (+) CreditRows(c, to)
        /\ arcreditapply' = [arcreditapply EXCEPT ![c] = none]
    BY <1>1, <1>4 DEF EndApplication, IInv, PendingType
  <2>2. /\ DocsOK(aropen) /\ NoneAt(aropen) /\ Tied(aropen, arapply) /\ PendingAt(aropen, arcreditapply)
        /\ ItemsAt(aropen, item) /\ arcreditapply \in PendingType
    BY DEF IInv, BooksInv, Books
  <2>3. \A d \in Docs : to[d] # 0 => Billed(aropen, d)
    BY <1>1, <2>2 DEF PendingAt
  <2>4. \A d \in Docs : none[d] # 0 => ar[c].type = "C" /\ Billed(ar, d)
    <3>1. \A d \in Docs : none[d] = 0
      BY <1>1
    <3>2. QED
      BY <3>1
  <2> HIDE DEF c, to, none
  <2>5. Grown(aropen, ar) /\ NoneAt(ar) /\ Net(ar) = Net(aropen)
    BY <1>1, <2>2, <2>3, CreditedIs
  <2>6. Tied(ar, arapply (+) CreditRows(c, to))
    BY <1>1, <2>2, <2>3, TiedCredited
  <2> HIDE DEF ar
  <2>7. ItemsAt(ar, item) /\ PendingAt(ar, arcreditapply)
    BY <2>2, <2>5, GrownAt
  <2>8. PendingAt(ar, [arcreditapply EXCEPT ![c] = none])
    BY <1>1, <2>2, <2>4, <2>7, MorePendingAt
  <2>9. Books(ar, item, arcreditapply', arapply')
    BY <2>1, <2>5, <2>6, <2>7, <2>8 DEF Books
  <2>10. Books(aropen, item, arcreditapply, arapply)' /\ Net(aropen)' = Net(ar)
    BY <1>1, <2>1, <2>9, Zenon
  <2>11. QED
    BY <1>2, <1>3, <2>5, <2>10 DEF BooksInv
<1>5. CASE ~Valid(ar)
  <2>1. UNCHANGED <<aropen, arcreditapply, arapply>>
    BY <1>5 DEF EndApplication
  <2>2. Books(aropen, item, arcreditapply, arapply)' /\ Net(aropen)' = Net(aropen)
    BY <1>1, <2>1, Zenon DEF BooksInv
  <2>3. QED
    BY <1>2, <1>3, <2>2 DEF BooksInv
<1>6. QED
  BY <1>4, <1>5

\* A receipt's flags and its cash are written.
Booked(r, flags, amount) ==
    /\ cashrcpt' = [cashrcpt EXCEPT ![r] = flags]
    /\ cash' = [cash EXCEPT ![r] = @ + amount]

\* A posting or a reversal ends: it has taken place, or nothing has happened.
LEMMA EndBooks ==
  ASSUME IInv, CashInv, BooksInv, NEW s \in Sessions, call[s].op \in {"post", "reverse"},
         NEW out, NEW flags \in ReceiptType, flags.posted \/ flags.void, NEW amount \in Int,
         flags.state = "entered", KeptBy(out, call[s].id, -amount), End(s, out, flags, amount)
  PROVE  /\ BooksInv'
         /\ \/ Net(aropen)' = Net(aropen) + (-amount) /\ Booked(call[s].id, flags, amount)
            \/ UNCHANGED <<aropen, cashrcpt, cash>>
<1> DEFINE r == call[s].id
<1>1. r \in Receipts /\ cashrcpt[r].state = "entered" /\ call[s] # Idle
  BY CallOK DEF CashInv, Steady, Idle
<1>2. call' = [call EXCEPT ![s] = Idle]
  BY Zenon DEF End
<1>3. CallAt'
  BY <1>1, <1>2, EndedCalls
<1>4. CASE out.ok
  <2>1. /\ aropen' = out.aropen /\ item' = out.item /\ arcreditapply' = out.arcreditapply
        /\ arapply' = arapply (+) out.rows
        /\ cashrcpt' = [cashrcpt EXCEPT ![r] = flags]
        /\ cash' = [cash EXCEPT ![r] = @ + amount]
    BY <1>1, <1>4, Zenon DEF End
  <2>2. /\ Books(out.aropen, out.item, out.arcreditapply, arapply (+) out.rows)
        /\ Net(out.aropen) = Net(aropen) + (-amount)
        /\ \A q \in Receipts : q # r => out.item[q] = item[q]
    BY <1>4, Zenon DEF KeptBy
  <2>3. Books(aropen, item, arcreditapply, arapply)' /\ Net(aropen)' = Net(aropen) + (-amount)
    BY <2>1, <2>2, Zenon
  <2>4. ReadyAt'
    <3>1. \A q \in Receipts : q # r => item'[q] = item[q] /\ cashrcpt'[q] = cashrcpt[q]
      BY <1>1, <2>1, <2>2 DEF IInv
    <3>2. cashrcpt'[r] = flags
      BY <1>1, <2>1 DEF IInv
    <3>3. cashrcpt'[r].state # "none" /\ (cashrcpt'[r].posted \/ cashrcpt'[r].void)
      BY <3>2
    <3> HIDE DEF r
    <3>4. \A q \in Receipts : q # r => (Unposted(q)' <=> Unposted(q))
      BY <3>1 DEF Unposted
    <3>5. ASSUME NEW q \in Receipts PROVE q = r => ~Unposted(q)'
      BY <3>3 DEF Unposted
    <3>6. QED
      BY <3>1, <3>3, <3>4, <3>5 DEF BooksInv, ReadyAt
  <2>5. QED
    BY <1>3, <2>1, <2>3, <2>4 DEF BooksInv, Booked
<1>5. CASE ~out.ok
  <2>1. UNCHANGED <<aropen, cashrcpt, item, arcreditapply, arapply, cash>>
    BY <1>5, Zenon DEF End
  <2>2. Books(aropen, item, arcreditapply, arapply)'
    BY <2>1, Zenon DEF BooksInv
  <2>3. ReadyAt'
    BY <2>1 DEF BooksInv, ReadyAt, Unposted
  <2>4. QED
    BY <1>3, <2>1, <2>2, <2>3 DEF BooksInv
<1>6. QED
  BY <1>4, <1>5

\* A posting ends: the balance has gone down by the receipt, which has its flag and
\* its cash, or nothing has happened.
LEMMA EndPostBooks ==
  ASSUME ~Overlap, IInv, CashInv, BooksInv, NEW s \in Sessions, EndPost(s)
  PROVE  LET k == call[s]
         IN  /\ BooksInv'
             /\ \/ /\ Net(aropen)' = Net(aropen) + (-k.amount)
                   /\ Booked(k.id, [cashrcpt[k.id] EXCEPT !.posted = TRUE], k.amount)
                \/ UNCHANGED <<aropen, cashrcpt, cash>>
<1> DEFINE k == call[s]
           flags == [cashrcpt[k.id] EXCEPT !.posted = TRUE]
<1>1. /\ k.op = "post" /\ k.id \in Receipts /\ k.items \in [Docs -> ItemType]
      /\ k.paid \in [Docs -> Nat] /\ k.amount \in Nat \ {0}
  BY CallOK DEF EndPost
<1>2. /\ k.items = item[k.id] /\ \A d \in Docs : k.paid[d] = aropen[d].paid
      /\ Unposted(k.id) /\ Sum(Amounts(k.items)) <= k.amount
  BY <1>1 DEF BooksInv, CallAt
<1>3. Books(aropen, item, arcreditapply, arapply) /\ ReadyAt
  BY DEF BooksInv
<1>4. End(s, Posted(k), flags, k.amount)
  BY Zenon DEF EndPost
<1>5. FreeDocs(aropen) # {}
  BY <1>4, Zenon DEF End
<1>6. cashrcpt[k.id] \in ReceiptType /\ cashrcpt[k.id].state = "entered"
  BY <1>1, <1>2 DEF IInv, Unposted
<1>7. flags \in ReceiptType /\ flags.posted /\ flags.state = "entered"
  BY <1>6 DEF ReceiptType
<1> HIDE DEF k, flags
<1>8. KeptBy(Posted(k), k.id, -k.amount)
  BY <1>1, <1>2, <1>3, <1>5, PostNowKept, PostLaterKept DEF Posted
<1>9. call[s].op \in {"post", "reverse"} /\ KeptBy(Posted(k), call[s].id, -k.amount) /\ k.amount \in Int
  BY <1>1, <1>8 DEF k
<1>10. /\ BooksInv'
       /\ \/ Net(aropen)' = Net(aropen) + (-k.amount) /\ Booked(call[s].id, flags, k.amount)
          \/ UNCHANGED <<aropen, cashrcpt, cash>>
  BY <1>4, <1>7, <1>9, EndBooks
<1>11. QED
  BY <1>10, Zenon DEF k, flags

\* A reversal ends: the balance has gone up again, or nothing has happened.
LEMMA EndReverseBooks ==
  ASSUME ~Overlap, IInv, CashInv, BooksInv, NEW s \in Sessions, EndReverse(s)
  PROVE  LET k == call[s]
         IN  /\ BooksInv'
             /\ \/ /\ Net(aropen)' = Net(aropen) + k.amount
                   /\ Booked(k.id, [cashrcpt[k.id] EXCEPT !.posted = FALSE, !.void = TRUE], -k.amount)
                \/ UNCHANGED <<aropen, cashrcpt, cash>>
<1> DEFINE k == call[s]
           flags == [cashrcpt[k.id] EXCEPT !.posted = FALSE, !.void = TRUE]
<1>1. k.op = "reverse" /\ k.id \in Receipts /\ k.amount \in Nat \ {0}
  BY CallOK DEF EndReverse
<1>2. /\ k.items = item[k.id] /\ \A d \in Docs : k.paid[d] = aropen[d].paid
      /\ Sum(Applied(k)) <= k.amount
  BY <1>1 DEF BooksInv, CallAt
<1>3. Books(aropen, item, arcreditapply, arapply) /\ cashrcpt[k.id].state = "entered"
  BY <1>1 DEF BooksInv, CashInv, Steady
<1>4. End(s, Reversed(k), flags, -k.amount)
  BY Zenon DEF EndReverse
<1>5. FreeDocs(aropen) # {}
  BY <1>4, Zenon DEF End
<1>6. cashrcpt[k.id] \in ReceiptType
  BY <1>1 DEF IInv
<1>7. flags \in ReceiptType /\ flags.void /\ flags.state = "entered"
  BY <1>3, <1>6 DEF ReceiptType
<1> HIDE DEF k, flags
<1>8. KeptBy(Reversed(k), k.id, k.amount)
  BY <1>1, <1>2, <1>3, <1>5, ReversedKept
<1>9. /\ call[s].op \in {"post", "reverse"} /\ KeptBy(Reversed(k), call[s].id, -(-k.amount))
      /\ -k.amount \in Int /\ -(-k.amount) = k.amount
  <2>1. -k.amount \in Int /\ -(-k.amount) = k.amount
    BY <1>1
  <2>2. QED
    BY <1>1, <1>8, <2>1 DEF k
<1>10. /\ BooksInv'
       /\ \/ Net(aropen)' = Net(aropen) + (-(-k.amount)) /\ Booked(call[s].id, flags, -k.amount)
          \/ UNCHANGED <<aropen, cashrcpt, cash>>
  BY <1>4, <1>7, <1>9, EndBooks
<1>11. QED
  BY <1>9, <1>10, Zenon DEF k, flags

\* An application taken back.
LEMMA TakeBackBooks ==
  ASSUME ~Overlap, IInv, BooksInv, NEW a \in BagToSet(arapply), ReverseARApplication(a)
  PROVE  BooksInv' /\ Net(aropen)' = Net(aropen)
<1> DEFINE ar == TakenBack(aropen, a)
           c == NewDoc(aropen)
           made == [ar EXCEPT ![c] = Doc("C", a.applied)]
           rows == Back(arapply, a)
<1>1. /\ DocsOK(aropen) /\ NoneAt(aropen) /\ Tied(aropen, arapply) /\ ItemsAt(aropen, item)
      /\ PendingAt(aropen, arcreditapply) /\ a \in DOMAIN arapply
  BY DEF IInv, BooksInv, Books, BagToSet
<1>2. UNCHANGED <<cashrcpt, item, arcreditapply, call>> /\ Alone
  BY DEF ReverseARApplication
<1>3. arapply' = rows
  BY DEF ReverseARApplication, Back
<1>4. DocsOK(ar)
  BY <1>1, TakenBackOK DEF ReverseARApplication
<1>5. Tied(ar, rows) /\ Net(ar) = Net(aropen) + (IF a.source = 0 THEN a.applied ELSE 0)
  BY <1>1, TiedTakenBack, NetTakenBack
<1>6. \A d \in Docs : ar[d].type = aropen[d].type /\ ar[d].amount = aropen[d].amount
  BY DEF TakenBack, Paid
<1>7. Net(aropen) \in Int
  BY <1>1, DocsTyped, NetIs
<1>8. a.applied \in Int
  BY <1>1 DEF Tied, IsRows, RowsOK, BagToSet
<1>9. a.source = 0 => FreeDocs(aropen) # {} /\ a.applied > 0 /\ aropen' = made
  BY DEF ReverseARApplication
<1>10. a.source # 0 => aropen' = ar
  BY DEF ReverseARApplication
<1> HIDE DEF ar, rows, c
<1>11. NoneAt(ar) /\ Grown(aropen, ar)
  BY <1>1, <1>6 DEF NoneAt, Grown
<1>12. ItemsAt(ar, item) /\ PendingAt(ar, arcreditapply)
  BY <1>1, <1>11, GrownAt
<1>13. Books(aropen', item, arcreditapply, rows) /\ Net(aropen') = Net(aropen)
  <2>1. CASE a.source = 0
    <3>1. c \in Docs /\ aropen[c].type = "none" /\ a.applied \in Nat \ {0}
      BY <1>8, <1>9, <2>1, NewDocIs DEF c
    <3>2. ar[c].type = "none"
      BY <1>6, <3>1
    <3>3. NoneAt(made) /\ Grown(ar, made) /\ Net(made) = Net(ar) + (-a.applied)
      BY <1>4, <1>11, <3>1, <3>2, MadeIs
    <3>4. Tied(made, rows)
      BY <1>4, <1>5, <3>1, <3>2, TiedNew
    <3> HIDE DEF made
    <3>5. ItemsAt(made, item) /\ PendingAt(made, arcreditapply)
      BY <1>12, <3>3, GrownAt
    <3>6. Net(made) = Net(aropen)
      BY <1>5, <1>7, <1>8, <2>1, <3>3
    <3>7. QED
      BY <1>9, <2>1, <3>3, <3>4, <3>5, <3>6 DEF Books
  <2>2. CASE a.source # 0
    BY <1>5, <1>7, <1>10, <1>11, <1>12, <2>2 DEF Books
  <2>3. QED
    BY <2>1, <2>2
<1>14. Books(aropen, item, arcreditapply, arapply)' /\ Net(aropen)' = Net(aropen)
  BY <1>2, <1>3, <1>13, Zenon
<1>15. ReadyAt'
  BY <1>2 DEF BooksInv, ReadyAt, Unposted
<1>16. QED
  BY <1>2, <1>14, <1>15, AloneCalls DEF BooksInv

\* Nothing happens.
LEMMA StillBooks ==
  ASSUME BooksInv, UNCHANGED vars
  PROVE  BooksInv'
<1>1. UNCHANGED <<aropen, cashrcpt, item, arcreditapply, arapply, call>>
  BY DEF vars
<1>2. Books(aropen, item, arcreditapply, arapply)'
  BY <1>1, Zenon DEF BooksInv
<1>3. ReadyAt'
  BY <1>1 DEF BooksInv, ReadyAt, Unposted
<1>4. CallAt'
  <2>1. CallAt
    BY DEF BooksInv
  <2>2. aropen' = aropen /\ item' = item /\ arcreditapply' = arcreditapply /\ call' = call
        /\ cashrcpt' = cashrcpt
    BY <1>1
  <2>3. QED
    BY <2>1, <2>2, Zenon DEF CallAt, Unposted, Applied
<1>5. QED
  BY <1>2, <1>3, <1>4 DEF BooksInv

\* Every step keeps them.
LEMMA NextBooks ==
    ASSUME ~Overlap, ~Overdrawn, IInv, CashInv, BooksInv, [Next]_vars
    PROVE  BooksInv'
<1> USE ReceivablesAssumption
<1>1. ASSUME NEW type \in {"I", "C"}, NEW n \in DocAmounts, Issue(type, n) PROVE BooksInv'
  BY <1>1, IssueBooks
<1>2. ASSUME NEW r \in Receipts, NEW n \in ReceiptAmounts, EnterReceipt(r, n) PROVE BooksInv'
  BY <1>2, EnterBooks
<1>3. ASSUME NEW r \in Receipts, ApplyCashReceiptToBalance(r) PROVE BooksInv'
  BY <1>3, ToBalanceBooks
<1>4. ASSUME NEW r \in Receipts, NEW d \in Docs, ApplyCashReceiptLineBalance(r, d)
      PROVE  BooksInv'
  BY <1>4, LineBooks
<1>5. ASSUME NEW r \in Receipts, NEW d \in Docs, NEW n \in ItemAmounts, EnterItem(r, d, n)
      PROVE  BooksInv'
  BY <1>5, EnterItemBooks
<1>6. ASSUME NEW r \in Receipts, DeleteCashrcpt(r) PROVE BooksInv'
  BY <1>6, DeleteBooks
<1>7. ASSUME NEW c \in Docs, ApplyARCreditMemoToBalance(c) PROVE BooksInv'
  BY <1>7, CreditBooks
<1>8. ASSUME NEW s \in Sessions, NEW c \in Docs, StartApplication(s, c) PROVE BooksInv'
  BY <1>8, StartApplicationBooks
<1>9. ASSUME NEW s \in Sessions, NEW r \in Receipts, StartPost(s, r) \/ StartReverse(s, r)
      PROVE  BooksInv'
  BY <1>9, StartBooks
<1>10. ASSUME NEW s \in Sessions, EndApplication(s) \/ EndPost(s) \/ EndReverse(s)
       PROVE  BooksInv'
  BY <1>10, ApplicationBooks, EndPostBooks, EndReverseBooks
<1>11. ASSUME NEW a \in BagToSet(arapply), ReverseARApplication(a) PROVE BooksInv'
  BY <1>11, TakeBackBooks
<1>12. CASE UNCHANGED vars
  BY <1>12, StillBooks
<1>13. QED
  BY <1>1, <1>2, <1>3, <1>4, <1>5, <1>6, <1>7, <1>8, <1>9, <1>10, <1>11, <1>12 DEF Next

\* An open item is paid by exactly what arapply records of it, if transactions do
\* not overlap and receipts are not applied beyond an item's balance, whatever is
\* posted (postcashreceipt.sql), applied (postarcreditmemoapplication.sql), taken
\* back (reversearapplication.sql) and reversed (reversecashreceipt.sql).
THEOREM PaidIsAppliedHolds ==
    ASSUME ~Overlap, ~Overdrawn
    PROVE  Spec => []PaidIsApplied
<1>1. Init => IInv /\ CashInv /\ BooksInv
  BY InitIInv, InitCashInv, InitBooks
<1>2. IInv /\ CashInv /\ BooksInv /\ [Next]_vars => (IInv /\ CashInv /\ BooksInv)'
  BY NextIInv, NextCash, NextBooks
<1>3. BooksInv => PaidIsApplied
  BY DEF BooksInv, Books, Tied, AppliedIn, PaidIsApplied, AppliedTo
<1>4. QED
  BY <1>1, <1>2, <1>3, PTL DEF Spec

-----------------------------------------------------------------------------
(* The receivables as one account.                                         *)

\* A receipt has the amount it was entered with.
ReceiptAt(receipt) ==
    /\ receipt.state = "entered" => receipt.amount \in ReceiptAmounts
    /\ receipt.state = "none" => ~receipt.void
ReceiptsAt == \A r \in Receipts : ReceiptAt(cashrcpt[r])

\* No receipt is there at first.
LEMMA InitReceipts == Init => ReceiptsAt
BY DEF Init, ReceiptsAt, ReceiptAt, Receipt

\* Every step keeps it.
LEMMA NextReceipts ==
    ASSUME IInv, CashInv, ReceiptsAt, [Next]_vars
    PROVE  ReceiptsAt'
<1>1. ASSUME NEW r, NEW receipt, ReceiptAt(receipt), cashrcpt' = [cashrcpt EXCEPT ![r] = receipt]
      PROVE  ReceiptsAt'
  <2>1. \A q \in Receipts : cashrcpt'[q] = IF q = r THEN receipt ELSE cashrcpt[q]
    BY <1>1 DEF IInv
  <2>2. QED
    BY <1>1, <2>1 DEF ReceiptsAt
<1>2. CASE UNCHANGED cashrcpt
  BY <1>2 DEF ReceiptsAt
<1>3. ASSUME NEW r \in Receipts, NEW n \in ReceiptAmounts, EnterReceipt(r, n) PROVE ReceiptsAt'
  <2>1. ReceiptAt(Receipt("entered", n))
    BY DEF ReceiptAt, Receipt
  <2>2. QED
    BY <1>1, <1>3, <2>1 DEF EnterReceipt
<1>4. ASSUME NEW r \in Receipts, DeleteCashrcpt(r) PROVE ReceiptsAt'
  <2>1. ReceiptAt(Receipt("deleted", 0))
    BY DEF ReceiptAt, Receipt
  <2>2. ReceiptAt([cashrcpt[r] EXCEPT !.void = TRUE])
    <3>1. cashrcpt[r] \in ReceiptType /\ ReceiptAt(cashrcpt[r]) /\ cashrcpt[r].state = "entered"
      BY <1>4 DEF IInv, ReceiptsAt, DeleteCashrcpt
    <3>2. QED
      BY <3>1 DEF ReceiptAt, ReceiptType
  <2>3. \/ cashrcpt' = [cashrcpt EXCEPT ![r] = Receipt("deleted", 0)]
        \/ cashrcpt' = [cashrcpt EXCEPT ![r] = [cashrcpt[r] EXCEPT !.void = TRUE]]
    BY <1>4, Zenon DEF DeleteCashrcpt
  <2>4. QED
    BY <1>1, <2>1, <2>2, <2>3
<1>5. ASSUME NEW s \in Sessions, NEW out, NEW flags, NEW amount, ReceiptAt(flags),
             End(s, out, flags, amount)
      PROVE  ReceiptsAt'
  <2>1. UNCHANGED cashrcpt \/ cashrcpt' = [cashrcpt EXCEPT ![call[s].id] = flags]
    BY <1>5, Zenon DEF End
  <2>2. QED
    BY <1>1, <1>2, <1>5, <2>1
<1>6. ASSUME NEW s \in Sessions, EndPost(s) PROVE ReceiptsAt'
  <2> DEFINE r == call[s].id
             flags == [cashrcpt[r] EXCEPT !.posted = TRUE]
  <2>1. r \in Receipts
    BY <1>6, CallOK DEF EndPost
  <2>2. cashrcpt[r] \in ReceiptType /\ ReceiptAt(cashrcpt[r])
    BY <2>1 DEF IInv, ReceiptsAt
  <2>3. ReceiptAt(flags)
    BY <2>2 DEF ReceiptAt, ReceiptType
  <2>4. End(s, Posted(call[s]), flags, call[s].amount)
    BY <1>6, Zenon DEF EndPost
  <2> HIDE DEF flags, r
  <2>5. QED
    BY <1>5, <2>3, <2>4
<1>7. ASSUME NEW s \in Sessions, EndReverse(s) PROVE ReceiptsAt'
  <2> DEFINE r == call[s].id
             flags == [cashrcpt[r] EXCEPT !.posted = FALSE, !.void = TRUE]
  <2>1. r \in Receipts
    BY <1>7, CallOK DEF EndReverse
  <2>2. cashrcpt[r] \in ReceiptType /\ ReceiptAt(cashrcpt[r])
    BY <2>1 DEF IInv, ReceiptsAt
  <2>3. cashrcpt[r].state = "entered"
    BY <1>7 DEF EndReverse, CashInv, Steady
  <2>4. ReceiptAt(flags)
    BY <2>2, <2>3 DEF ReceiptAt, ReceiptType
  <2>5. End(s, Reversed(call[s]), flags, -call[s].amount)
    BY <1>7, Zenon DEF EndReverse
  <2> HIDE DEF flags, r
  <2>6. QED
    BY <1>5, <2>4, <2>5
<1>8. QED
  BY <1>2, <1>3, <1>4, <1>6, <1>7
  DEF Next, vars, Issue, ApplyCashReceiptToBalance, ApplyCashReceiptLineBalance, EnterItem, SetItems,
      ApplyARCreditMemoToBalance, StartApplication, StartPost, StartReverse, EndApplication,
      ReverseARApplication

\* What has become of the receipts.
Standing(receipt) ==
    IF receipt.posted THEN "in"
    ELSE IF receipt.void \/ receipt.state = "deleted" THEN "closed"
    ELSE "pending"
Status == [r \in Receipts |-> Standing(cashrcpt[r])]

Steps == [Account!Next]_(Account!accountVars)

\* The account's steps, and none.
LEMMA AsBill ==
    ASSUME NEW n \in DocAmounts \cup {-m : m \in DocAmounts},
           Net(aropen)' = Net(aropen) + n, issued'.net = issued.net + n,
           UNCHANGED <<cashrcpt, cash>>
    PROVE  Steps
BY DEF Steps, Account!Next, Account!Bill, Net, Signed

LEMMA AsReceipt ==
    ASSUME NEW r \in Receipts, NEW n \in ReceiptAmounts,
           Status[r] = "pending", Status' = [Status EXCEPT ![r] = "in"],
           cash' = [cash EXCEPT ![r] = n], Net(aropen)' = Net(aropen) - n, UNCHANGED issued
    PROVE  Steps
BY DEF Steps, Account!Next, Account!Receive, Net, Signed, Status, Standing

LEMMA AsReturn ==
    ASSUME NEW r \in Receipts,
           Status[r] = "in", Status' = [Status EXCEPT ![r] = "closed"],
           cash' = [cash EXCEPT ![r] = 0], Net(aropen)' = Net(aropen) + cash[r], UNCHANGED issued
    PROVE  Steps
BY DEF Steps, Account!Next, Account!Return, Net, Signed, Status, Standing

LEMMA AsDrop ==
    ASSUME NEW r \in Receipts,
           Status[r] = "pending", Status' = [Status EXCEPT ![r] = "closed"],
           UNCHANGED <<aropen, cash, issued>>
    PROVE  Steps
<1>1. Net(aropen)' = Net(aropen)
  BY DEF Net, Signed
<1>2. QED
  BY <1>1 DEF Steps, Account!Next, Account!Drop, Net, Signed, Status, Standing

LEMMA AsNone ==
    ASSUME Net(aropen)' = Net(aropen), Status' = Status, UNCHANGED <<cash, issued>>
    PROVE  Steps
BY DEF Steps, Account!accountVars, Net, Signed, Status, Standing

\* A receipt written becomes what it stands for.
LEMMA StatusChanged ==
    ASSUME IInv, NEW r \in Receipts, NEW receipt, cashrcpt' = [cashrcpt EXCEPT ![r] = receipt]
    PROVE  Status' = [Status EXCEPT ![r] = Standing(receipt)]
<1>1. \A q \in Receipts : cashrcpt'[q] = IF q = r THEN receipt ELSE cashrcpt[q]
  BY DEF IInv
<1>2. Status' = [q \in Receipts |-> IF q = r THEN Standing(receipt) ELSE Standing(cashrcpt[q])]
  BY <1>1 DEF Status
<1>3. QED
  BY <1>2 DEF Status

\* One that already stands for it stays.
LEMMA StatusSame ==
    ASSUME NEW r \in Receipts, NEW s, Status' = [Status EXCEPT ![r] = s], Status[r] = s
    PROVE  Status' = Status
BY DEF Status

\* A posting or a reversal ends as a receipt or a return, or as nothing.
LEMMA EndPostSteps ==
    ASSUME ~Overlap, IInv, CashInv, BooksInv, ReceiptsAt, NEW s \in Sessions, EndPost(s)
    PROVE  Steps
<1> DEFINE r == call[s].id
           n == call[s].amount
           flags == [cashrcpt[r] EXCEPT !.posted = TRUE]
<1>1. call[s].op = "post" /\ r \in Receipts /\ UNCHANGED issued
  BY CallOK, Zenon DEF EndPost, End
<1>2. Unposted(r) /\ n = cashrcpt[r].amount
  BY <1>1 DEF BooksInv, CallAt, CashInv, Steady
<1>3. cashrcpt[r] \in ReceiptType /\ n \in ReceiptAmounts /\ n \in Nat /\ cash[r] = 0 /\ cash \in [Receipts -> Int]
  BY <1>1, <1>2, ReceivablesAssumption DEF IInv, ReceiptsAt, ReceiptAt, CashInv, CashOnce, Unposted, ReceiptType
<1>4. Net(aropen) \in Int
  BY DocsTyped, NetIs DEF IInv
<1>5. \/ Net(aropen)' = Net(aropen) + (-n) /\ Booked(r, flags, n)
      \/ UNCHANGED <<aropen, cashrcpt, cash>>
  BY EndPostBooks
<1>6. Standing(flags) = "in" /\ Standing(cashrcpt[r]) = "pending"
  BY <1>2, <1>3 DEF Standing, ReceiptType, Unposted
<1> HIDE DEF r, n, flags
<1>7. CASE Net(aropen)' = Net(aropen) + (-n) /\ Booked(r, flags, n)
  <2>1. cashrcpt' = [cashrcpt EXCEPT ![r] = flags] /\ cash' = [cash EXCEPT ![r] = n]
    BY <1>1, <1>3, <1>7 DEF Booked
  <2>2. Status' = [Status EXCEPT ![r] = "in"]
    BY <1>1, <1>6, <2>1, StatusChanged
  <2>3. Status[r] = "pending"
    BY <1>1, <1>6 DEF Status
  <2>4. Net(aropen)' = Net(aropen) - n
    BY <1>3, <1>4, <1>7
  <2>5. QED
    BY <1>1, <1>3, <2>1, <2>2, <2>3, <2>4, AsReceipt
<1>8. CASE UNCHANGED <<aropen, cashrcpt, cash>>
  BY <1>1, <1>8, AsNone DEF Status, Net, Signed
<1>9. QED
  BY <1>5, <1>7, <1>8

LEMMA EndReverseSteps ==
    ASSUME ~Overlap, IInv, CashInv, BooksInv, NEW s \in Sessions, EndReverse(s)
    PROVE  Steps
<1> DEFINE r == call[s].id
           n == call[s].amount
           flags == [cashrcpt[r] EXCEPT !.posted = FALSE, !.void = TRUE]
<1>1. call[s].op = "reverse" /\ r \in Receipts /\ UNCHANGED issued
  BY CallOK, Zenon DEF EndReverse, End
<1>2. cashrcpt[r].posted /\ n = cashrcpt[r].amount /\ cashrcpt[r] \in ReceiptType
  BY <1>1 DEF CashInv, Steady, IInv
<1>3. n \in Nat /\ cash[r] = n /\ cash \in [Receipts -> Int]
  BY <1>1, <1>2 DEF IInv, CashInv, CashOnce, ReceiptType
<1>4. \/ Net(aropen)' = Net(aropen) + n /\ Booked(r, flags, -n)
      \/ UNCHANGED <<aropen, cashrcpt, cash>>
  BY EndReverseBooks
<1>5. Standing(flags) = "closed" /\ Standing(cashrcpt[r]) = "in"
  BY <1>2 DEF Standing, ReceiptType
<1> HIDE DEF r, n, flags
<1>6. CASE Net(aropen)' = Net(aropen) + n /\ Booked(r, flags, -n)
  <2>1. cashrcpt' = [cashrcpt EXCEPT ![r] = flags] /\ cash' = [cash EXCEPT ![r] = 0]
    <3>1. cash[r] + (-n) = 0
      BY <1>3
    <3>2. QED
      BY <1>1, <1>6, <3>1, Zenon DEF Booked
  <2>2. Status' = [Status EXCEPT ![r] = "closed"]
    BY <1>1, <1>5, <2>1, StatusChanged
  <2>3. Status[r] = "in"
    BY <1>1, <1>5 DEF Status
  <2>4. QED
    BY <1>1, <1>3, <1>6, <2>1, <2>2, <2>3, AsReturn
<1>7. CASE UNCHANGED <<aropen, cashrcpt, cash>>
  BY <1>1, <1>7, AsNone DEF Status, Net, Signed
<1>8. QED
  BY <1>4, <1>6, <1>7

\* A receipt deleted or voided is dropped, a void one only once.
LEMMA DeleteSteps ==
    ASSUME IInv, NEW r \in Receipts, DeleteCashrcpt(r)
    PROVE  Steps
<1>1. cashrcpt[r] \in ReceiptType /\ UNCHANGED <<aropen, issued, cash>>
      /\ cashrcpt[r].state = "entered" /\ ~cashrcpt[r].posted
  BY DEF IInv, DeleteCashrcpt
<1>2. Standing(Receipt("deleted", 0)) = "closed"
  BY DEF Standing, Receipt
<1>3. Standing([cashrcpt[r] EXCEPT !.void = TRUE]) = "closed"
  BY <1>1 DEF Standing, ReceiptType
<1>4. \/ cashrcpt' = [cashrcpt EXCEPT ![r] = Receipt("deleted", 0)]
      \/ cashrcpt' = [cashrcpt EXCEPT ![r] = [cashrcpt[r] EXCEPT !.void = TRUE]]
  BY Zenon DEF DeleteCashrcpt
<1>5. PICK receipt : Standing(receipt) = "closed" /\ cashrcpt' = [cashrcpt EXCEPT ![r] = receipt]
  BY <1>2, <1>3, <1>4
<1>6. Status' = [Status EXCEPT ![r] = "closed"]
  BY <1>5, StatusChanged
<1>7. Status[r] \in {"pending", "closed"}
  BY <1>1 DEF Status, Standing
<1>8. CASE Status[r] = "pending"
  BY <1>1, <1>6, <1>8, AsDrop
<1>9. CASE Status[r] = "closed"
  BY <1>1, <1>6, <1>9, AsNone, StatusSame DEF Net, Signed
<1>10. QED
  BY <1>7, <1>8, <1>9

\* The account starts with nothing.
LEMMA InitAccount == Init => Account!Init
<1> SUFFICES ASSUME Init PROVE Account!Init
  OBVIOUS
<1>1. [d \in Docs |-> Signed(aropen, d)] \in [Docs -> Int] /\ \A d \in Docs : Signed(aropen, d) = 0
  BY DEF Init, Signed, Balance, NoDoc
<1>2. Net(aropen) = 0
  <2> DEFINE f == [d \in Docs |-> Signed(aropen, d)]
  <2>1. \A d \in Docs : f[d] = 0
    BY <1>1
  <2>2. f \in [Docs -> Int] /\ Net(aropen) = Sum(f)
    BY <1>1 DEF Net
  <2> HIDE DEF f
  <2>3. QED
    BY <2>1, <2>2, SumOverDocs, SumZero, DocsFinite
<1>3. Sum([d \in Docs |-> IF aropen[d].type = "C" THEN -Balance(aropen, d)
                                   ELSE Balance(aropen, d)]) = 0
  BY <1>2 DEF Net, Signed
<1>4. issued.net = 0 /\ cash = [r \in Receipts |-> 0] /\ \A r \in Receipts : cashrcpt[r] = Receipt("none", 0)
  BY DEF Init
<1>5. QED
  BY <1>3, <1>4 DEF Account!Init, Receipt

\* Every step is one of the account's, or none.
LEMMA NextSteps ==
    ASSUME ~Overlap, ~Overdrawn, IInv, CashInv, BooksInv, ReceiptsAt, [Next]_vars
    PROVE  Steps
<1> USE ReceivablesAssumption
<1>1. ASSUME NEW type \in {"I", "C"}, NEW n \in DocAmounts, Issue(type, n) PROVE Steps
  <2> DEFINE bill == IF type = "C" THEN -n ELSE n
  <2>1. Net(aropen)' = Net(aropen) + bill
    BY <1>1, IssueBooks
  <2>2. issued'.net = issued.net + bill /\ UNCHANGED <<cashrcpt, cash>>
    BY <1>1 DEF Issue
  <2>3. bill \in DocAmounts \cup {-m : m \in DocAmounts}
    OBVIOUS
  <2> HIDE DEF bill
  <2>4. QED
    BY <2>1, <2>2, <2>3, AsBill
<1>2. ASSUME UNCHANGED <<aropen, cashrcpt, cash, issued>> PROVE Steps
  BY <1>2, AsNone DEF Net, Signed, Status
<1>3. ASSUME NEW r \in Receipts, NEW n \in ReceiptAmounts, EnterReceipt(r, n) PROVE Steps
  <2>1. Standing(Receipt("entered", n)) = "pending"
    BY DEF Standing, Receipt
  <2>2. cashrcpt[r].state = "none" /\ cashrcpt' = [cashrcpt EXCEPT ![r] = Receipt("entered", n)]
        /\ UNCHANGED <<aropen, issued, cash>>
    BY <1>3 DEF EnterReceipt
  <2>3. Status[r] = "pending"
    BY <2>2 DEF Status, Standing, CashInv, Steady, ReceiptsAt, ReceiptAt
  <2>4. Status' = Status
    BY <2>1, <2>2, <2>3, StatusChanged, StatusSame
  <2>5. QED
    BY <2>2, <2>4, AsNone DEF Net, Signed
<1>4. ASSUME NEW r \in Receipts, DeleteCashrcpt(r) PROVE Steps
  BY <1>4, DeleteSteps
<1>5. ASSUME NEW s \in Sessions, EndApplication(s) PROVE Steps
  <2>1. Net(aropen)' = Net(aropen) /\ UNCHANGED <<cashrcpt, cash, issued>>
    BY <1>5, ApplicationBooks DEF EndApplication
  <2>2. QED
    BY <2>1, AsNone DEF Status
<1>6. ASSUME NEW a \in BagToSet(arapply), ReverseARApplication(a) PROVE Steps
  <2>1. Net(aropen)' = Net(aropen) /\ UNCHANGED <<cashrcpt, cash, issued>>
    BY <1>6, TakeBackBooks DEF ReverseARApplication
  <2>2. QED
    BY <2>1, AsNone DEF Status
<1>7. ASSUME NEW s \in Sessions, EndPost(s) \/ EndReverse(s) PROVE Steps
  BY <1>7, EndPostSteps, EndReverseSteps
<1>8. CASE UNCHANGED vars
  BY <1>2, <1>8 DEF vars
<1>9. ASSUME NEW r \in Receipts, \/ ApplyCashReceiptToBalance(r)
                                 \/ \E d \in Docs : ApplyCashReceiptLineBalance(r, d)
                                 \/ \E d \in Docs, n \in ItemAmounts : EnterItem(r, d, n)
      PROVE  Steps
  BY <1>2, <1>9 DEF ApplyCashReceiptToBalance, ApplyCashReceiptLineBalance, EnterItem, SetItems
<1>10. ASSUME NEW c \in Docs, \/ ApplyARCreditMemoToBalance(c)
                              \/ \E s \in Sessions : StartApplication(s, c)
       PROVE  Steps
  BY <1>2, <1>10 DEF ApplyARCreditMemoToBalance, StartApplication
<1>11. ASSUME NEW s \in Sessions, NEW r \in Receipts, StartPost(s, r) \/ StartReverse(s, r)
       PROVE  Steps
  BY <1>2, <1>11 DEF StartPost, StartReverse
<1>12. QED
  BY <1>1, <1>3, <1>4, <1>5, <1>6, <1>7, <1>8, <1>9, <1>10, <1>11 DEF Next

\* Posting and reversing receipts, issuing, applying, taking back and settling keep
\* one account with the customer, if transactions do not overlap and receipts are
\* not applied beyond an item's balance: postcashreceipt.sql moves it by the
\* receipt, once, reversecashreceipt.sql moves it back, deletecashrcpt.sql drops a
\* receipt, and what is applied to what (postarcreditmemoapplication.sql,
\* reversearapplication.sql, applycashreceipt*.sql) does not show.
THEOREM AccountKeptHolds ==
    ASSUME ~Overlap, ~Overdrawn
    PROVE  Spec => AccountKept
<1> DEFINE Inv == IInv /\ CashInv /\ BooksInv /\ ReceiptsAt
<1>1. Init => Inv
  BY InitIInv, InitCashInv, InitBooks, InitReceipts
<1>2. Inv /\ [Next]_vars => Inv'
  BY NextIInv, NextCash, NextBooks, NextReceipts
<1>3. Inv /\ [Next]_vars => [Account!Next]_(Account!accountVars)
  BY NextSteps DEF Steps
<1>4. QED
  BY <1>1, <1>2, <1>3, InitAccount, PTL DEF Spec, AccountKept, Account!Spec

=============================================================================
