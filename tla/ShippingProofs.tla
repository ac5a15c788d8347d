--------------------------- MODULE ShippingProofs ---------------------------
(***************************************************************************)
(* Theorems about Shipping, for every order, stock and number of series,    *)
(* shipments and items:                                                     *)
(*   - what is issued lies in a shipment that is there, and no shipment is  *)
(*     without items (ShipmentsHold);                                       *)
(*   - no history of the item site is left behind, as long as               *)
(*     issueAllBalanceToShipping is given a series (NothingForgottenHolds); *)
(*   - quantities keep their types (TypeOKHolds), because what a line has   *)
(*     shipped is what its items in shipped shipments come to;              *)
(*   - the stock account is implemented (StockKeptHolds).                   *)
(***************************************************************************)
EXTENDS Shipping, Sums

-----------------------------------------------------------------------------
(* Shipments and their items.                                              *)

HeadsOK == shiphead \in [Shipments -> {"none", "open", "shipped"}]
ItemsOK ==
    /\ shipitem = [l \in Lines |-> [i \in Slots |-> shipitem[l][i]]]
    /\ \A l \in Lines, i \in Slots : shipitem[l][i].ship \in Shipments \cup {0}

\* The inductive invariant of the shipments.
ShipInv == HeadsOK /\ ItemsOK /\ ShipmentsFull

LEMMA NumbersPositive == 0 \notin Shipments /\ Slots = 1..MaxItems
BY ShippingAssumption DEF Shipments, Slots

\* A line that is issued within the bound has a slot for its item.
LEMMA SlotFree ==
    ASSUME NEW D, D \subseteq Lines, NEW l \in D,
           Cardinality(Items) + Cardinality(D) <= MaxItems
    PROVE  FreeSlot(l) \in Slots /\ shipitem[l][FreeSlot(l)].ship = 0
<1> USE ShippingAssumption
<1>1. /\ IsFiniteSet(Slots) /\ Cardinality(Slots) = MaxItems
  BY FS_Interval DEF Slots
<1>2. IsFiniteSet(Lines \X Slots)
  BY <1>1, FS_Product
<1>3. Items \in SUBSET (Lines \X Slots)
  BY DEF Items
<1>4. IsFiniteSet(Items) /\ Cardinality(Items) \in Nat
  BY <1>2, <1>3, FS_Subset, FS_CardinalityType
<1>5. IsFiniteSet(D) /\ Cardinality(D) \in Nat
  BY FS_Subset, FS_CardinalityType
<1>6. Cardinality(D) # 0
  BY <1>5, FS_EmptySet
<1>7. \E i \in Slots : shipitem[l][i].ship = 0
  <2> SUFFICES ASSUME \A i \in Slots : shipitem[l][i].ship # 0 PROVE FALSE
    OBVIOUS
  <2>1. {l} \X Slots \in SUBSET Items
    BY DEF Items
  <2>2. IsFiniteSet({l}) /\ Cardinality({l}) = 1
    BY FS_Singleton
  <2>3. Cardinality({l} \X Slots) = MaxItems
    <3>1. Cardinality({l} \X Slots) = Cardinality({l}) * Cardinality(Slots)
      BY <1>1, <2>2, FS_Product, Zenon
    <3>2. 1 * MaxItems = MaxItems
      OBVIOUS
    <3>3. QED
      BY <1>1, <2>2, <3>1, <3>2
  <2>4. MaxItems <= Cardinality(Items)
    BY <1>4, <2>1, <2>3, FS_Subset
  <2>5. QED
    BY <1>4, <1>5, <1>6, <2>4
<1>8. QED
  BY <1>7 DEF FreeSlot

\* The item of an issued line.
NewItem(qty, l) ==
    [ship |-> Target, qty |-> qty[l],
     rsrv |-> IF qty[l] < coitem[l].reserved THEN qty[l] ELSE coitem[l].reserved]

\* Issuing fills a free slot of each line issued and touches no other.
LEMMA IssueItems ==
    ASSUME ItemsOK, NEW qty, NEW series, NEW order,
           DOMAIN qty \subseteq Lines, Issue(qty, series, order)
    PROVE  /\ \A l \in DOMAIN qty : FreeSlot(l) \in Slots /\ shipitem[l][FreeSlot(l)].ship = 0
           /\ \A l \in Lines, i \in Slots :
                shipitem'[l][i] = IF l \in DOMAIN qty /\ i = FreeSlot(l) THEN NewItem(qty, l)
                                  ELSE shipitem[l][i]
           /\ shipitem' = [l \in Lines |-> [i \in Slots |-> shipitem'[l][i]]]
<1> DEFINE D == DOMAIN qty
<1>1. shipitem' = [l \in Lines |-> IF l \notin D THEN shipitem[l]
                                   ELSE [shipitem[l] EXCEPT ![FreeSlot(l)] = NewItem(qty, l)]]
  BY Zenon DEF Issue, NewItem
<1>2. \A l \in D : FreeSlot(l) \in Slots /\ shipitem[l][FreeSlot(l)].ship = 0
  BY SlotFree DEF Issue
<1>3. \A l \in Lines : shipitem[l] = [i \in Slots |-> shipitem[l][i]]
  BY Zenon DEF ItemsOK
<1>4. \A l \in Lines, i \in Slots :
        shipitem'[l][i] = IF l \in D /\ i = FreeSlot(l) THEN NewItem(qty, l) ELSE shipitem[l][i]
  <2> SUFFICES ASSUME NEW l \in Lines, NEW i \in Slots
               PROVE  shipitem'[l][i] = IF l \in D /\ i = FreeSlot(l) THEN NewItem(qty, l)
                                        ELSE shipitem[l][i]
    OBVIOUS
  <2> QED
    BY <1>1, <1>3
<1>5. \A l \in Lines : shipitem'[l] = [i \in Slots |-> shipitem'[l][i]]
  BY <1>1, <1>3
<1>6. shipitem' = [l \in Lines |-> shipitem'[l]]
  BY <1>1
<1>7. shipitem' = [l \in Lines |-> [i \in Slots |-> shipitem'[l][i]]]
  BY <1>5, <1>6
<1> QED
  BY <1>2, <1>4, <1>7

\* Issuing puts the items into the shipment that is open or made for them.
LEMMA IssueShip ==
    ASSUME ShipInv, NEW qty, NEW series, NEW order,
           DOMAIN qty \subseteq Lines, DOMAIN qty # {}, Issue(qty, series, order)
    PROVE  ShipInv'
<1> DEFINE D == DOMAIN qty
<1>1. Target \in Shipments /\ Target # 0
  BY NumbersPositive DEF Issue
<1>2. shiphead' = [shiphead EXCEPT ![Target] = "open"]
  BY DEF Issue
<1>3. shipitem' = [l \in Lines |-> [i \in Slots |-> shipitem'[l][i]]]
  BY IssueItems DEF ShipInv
<1>4. \A l \in D : FreeSlot(l) \in Slots /\ shipitem[l][FreeSlot(l)].ship = 0
  BY IssueItems DEF ShipInv
<1>5. \A l \in D : NewItem(qty, l).ship = Target
  BY DEF NewItem
<1>6. \A l \in Lines, i \in Slots :
        shipitem'[l][i] = IF l \in D /\ i = FreeSlot(l) THEN NewItem(qty, l) ELSE shipitem[l][i]
  BY IssueItems DEF ShipInv
<1>7. HeadsOK'
  BY <1>1, <1>2 DEF ShipInv, HeadsOK
<1>8. ItemsOK'
  <2>1. \A l \in Lines, i \in Slots : shipitem'[l][i].ship \in Shipments \cup {0}
    BY <1>1, <1>5, <1>6 DEF ShipInv, ItemsOK
  <2>2. QED
    BY <1>3, <2>1 DEF ItemsOK, Shipments, Slots
<1>9. ASSUME NEW l \in Lines, NEW i \in Slots, shipitem'[l][i].ship # 0
      PROVE  shiphead'[shipitem'[l][i].ship] # "none"
  <2>1. CASE l \in D /\ i = FreeSlot(l)
    BY <2>1, <1>1, <1>2, <1>5, <1>6 DEF ShipInv, HeadsOK
  <2>2. CASE ~(l \in D /\ i = FreeSlot(l))
    <3>1. shipitem'[l][i] = shipitem[l][i]
      BY <2>2, <1>6
    <3>2. shipitem[l][i].ship \in Shipments /\ shiphead[shipitem[l][i].ship] # "none"
      BY <1>9, <3>1 DEF ShipInv, ItemsOK, ShipmentsFull
    <3>3. QED
      BY <1>1, <1>2, <3>1, <3>2 DEF ShipInv, HeadsOK
  <2>3. QED
    BY <2>1, <2>2
<1>10. ASSUME NEW s \in Shipments, shiphead'[s] # "none"
       PROVE  \E l \in Lines, i \in Slots : shipitem'[l][i].ship = s
  <2>1. CASE s = Target
    <3>1. PICK l \in D : TRUE
      OBVIOUS
    <3>2. shipitem'[l][FreeSlot(l)].ship = s
      BY <1>4, <1>5, <1>6, <2>1
    <3>3. QED
      BY <1>4, <3>2
  <2>2. CASE s # Target
    <3>1. shiphead[s] # "none"
      BY <1>1, <1>2, <1>10, <2>2 DEF ShipInv, HeadsOK
    <3>2. PICK l \in Lines, i \in Slots : shipitem[l][i].ship = s
      BY <3>1 DEF ShipInv, ShipmentsFull
    <3>3. ~(l \in D /\ i = FreeSlot(l))
      BY <1>4, <3>2, NumbersPositive
    <3>4. QED
      BY <1>6, <3>2, <3>3
  <2>3. QED
    BY <2>1, <2>2
<1>11. QED
  BY <1>7, <1>8, <1>9, <1>10 DEF ShipInv, ShipmentsFull, Shipments, Slots

\* A return deletes the shipments it empties and no other.
LEMMA ReturnShip ==
    ASSUME ShipInv, NEW B, Return(B)
    PROVE  ShipInv'
<1>1. shipitem' = [l \in Lines |-> [i \in Slots |->
                     IF <<l, i>> \in B THEN NoItem ELSE shipitem[l][i]]]
  BY Zenon DEF Return
<1>2. shiphead' = [s \in Shipments |-> IF Emptied(shipitem', s) THEN "none" ELSE shiphead[s]]
  BY Zenon DEF Return
<1>3. \A l \in Lines, i \in Slots :
        shipitem'[l][i] = IF <<l, i>> \in B THEN NoItem ELSE shipitem[l][i]
  BY <1>1
<1>4. NoItem.ship = 0
  BY DEF NoItem
<1>5. HeadsOK'
  BY <1>2 DEF ShipInv, HeadsOK
<1>6. ItemsOK'
  <2>1. \A l \in Lines : shipitem'[l] = [i \in Slots |-> shipitem'[l][i]]
    BY <1>1
  <2>2. shipitem' = [l \in Lines |-> shipitem'[l]]
    BY <1>1
  <2>3. shipitem' = [l \in Lines |-> [i \in Slots |-> shipitem'[l][i]]]
    BY <2>1, <2>2
  <2>4. \A l \in Lines, i \in Slots : shipitem'[l][i].ship \in Shipments \cup {0}
    BY <1>3, <1>4 DEF ShipInv, ItemsOK
  <2>5. QED
    BY <2>3, <2>4 DEF ItemsOK, Shipments, Slots
<1>7. ASSUME NEW l \in Lines, NEW i \in Slots, shipitem'[l][i].ship # 0
      PROVE  shiphead'[shipitem'[l][i].ship] # "none"
  <2> DEFINE s == shipitem'[l][i].ship
  <2>1. shipitem'[l][i] = shipitem[l][i]
    BY <1>3, <1>4, <1>7
  <2>2. s \in Shipments /\ shiphead[s] # "none"
    BY <2>1, <1>7 DEF ShipInv, ItemsOK, ShipmentsFull
  <2>3. ~Emptied(shipitem', s)
    BY DEF Emptied
  <2>4. QED
    BY <1>2, <2>2, <2>3
<1>8. ASSUME NEW s \in Shipments, shiphead'[s] # "none"
      PROVE  \E l \in Lines, i \in Slots : shipitem'[l][i].ship = s
  <2>1. ~Emptied(shipitem', s) /\ shiphead[s] # "none"
    BY <1>2, <1>8
  <2>2. CASE shiphead[s] = "open"
    BY <2>1, <2>2 DEF Emptied
  <2>3. CASE shiphead[s] # "open"
    <3>1. PICK l \in Lines, i \in Slots : shipitem[l][i].ship = s
      BY <2>1 DEF ShipInv, ShipmentsFull
    <3>2. <<l, i>> \notin B
      BY <2>3, <3>1 DEF Return, OpenItems, Open
    <3>3. QED
      BY <1>3, <3>1, <3>2
  <2>4. QED
    BY <2>2, <2>3
<1>9. QED
  BY <1>5, <1>6, <1>7, <1>8 DEF ShipInv, ShipmentsFull, Shipments, Slots

\* Shipping and recalling only change which shipments are open.
LEMMA ShipRecallShip ==
    ASSUME ShipInv, NEW s \in Shipments, ShipShipment(s) \/ RecallShipment(s)
    PROVE  ShipInv'
<1>1. PICK status \in {"open", "shipped"} : shiphead' = [shiphead EXCEPT ![s] = status]
  BY DEF ShipShipment, RecallShipment
<1>2. shiphead[s] # "none" /\ shipitem' = shipitem
  BY DEF ShipShipment, RecallShipment
<1>3. HeadsOK' /\ \A t \in Shipments : shiphead'[t] = "none" <=> shiphead[t] = "none"
  BY <1>1, <1>2 DEF ShipInv, HeadsOK
<1>4. ItemsOK'
  BY <1>2 DEF ShipInv, ItemsOK, Shipments, Slots
<1>5. ShipmentsFull'
  BY <1>2, <1>3 DEF ShipInv, ShipmentsFull, ItemsOK
<1>6. QED
  BY <1>3, <1>4, <1>5 DEF ShipInv

\* Every other step leaves shipments and items alone.
LEMMA AsideShip ==
    ASSUME ShipInv, UNCHANGED <<shiphead, shipitem>>
    PROVE  ShipInv'
BY DEF ShipInv, HeadsOK, ItemsOK, ShipmentsFull, Shipments, Slots

LEMMA InitShip == Init => ShipInv
<1> SUFFICES ASSUME Init PROVE ShipInv
  OBVIOUS
<1>1. \A l \in Lines, i \in Slots : shipitem[l][i].ship = 0
  BY DEF Init, NoItem
<1>2. shipitem = [l \in Lines |-> [i \in Slots |-> shipitem[l][i]]]
  BY DEF Init
<1>3. shiphead = [s \in Shipments |-> "none"]
  BY DEF Init
<1>4. QED
  BY <1>1, <1>2, <1>3 DEF ShipInv, HeadsOK, ItemsOK, ShipmentsFull

LEMMA NextShip ==
    ASSUME ShipInv, [Next]_vars
    PROVE  ShipInv'
<1>1. ASSUME NEW l \in Lines, NEW n \in Quantities, NEW s \in Series, IssueToShipping(l, n, s)
      PROVE  ShipInv'
  BY <1>1, IssueShip DEF IssueToShipping
<1>2. ASSUME IssueAllBalanceToShipping PROVE ShipInv'
  <2> DEFINE qty == [l \in ToIssue |-> Balance(l)]
  <2>1. DOMAIN qty \subseteq Lines /\ DOMAIN qty # {}
    BY <1>2 DEF IssueAllBalanceToShipping, ToIssue, OpenLines
  <2>2. PICK series, order : Issue(qty, series, order)
    BY <1>2, Zenon DEF IssueAllBalanceToShipping
  <2> HIDE DEF qty
  <2>3. QED
    BY <2>1, <2>2, IssueShip
<1>3. ASSUME NEW s \in Series, PostItemlocSeries(s) PROVE ShipInv'
  BY <1>3, AsideShip DEF PostItemlocSeries
<1>4. ASSUME NEW B, Return(B) PROVE ShipInv'
  BY <1>4, ReturnShip
<1>5. ASSUME NEW s \in Shipments, ShipShipment(s) \/ RecallShipment(s) PROVE ShipInv'
  BY <1>5, ShipRecallShip
<1>6. ASSUME NEW l \in Lines, NEW status, SetStatus(l, status) PROVE ShipInv'
  BY <1>6, AsideShip DEF SetStatus
<1>7. ASSUME NEW l \in Lines, NEW n, Reserve(l, n) PROVE ShipInv'
  BY <1>7, AsideShip DEF Reserve
<1>8. ASSUME NEW freeze, CreateCountTag(freeze) PROVE ShipInv'
  BY <1>8, AsideShip DEF CreateCountTag
<1>9. CASE ThawItemSite
  BY <1>9, AsideShip DEF ThawItemSite
<1>10. ASSUME NEW n, NEW thaw, PostCountTag(n, thaw) PROVE ShipInv'
  BY <1>10, AsideShip DEF PostCountTag
<1>11. CASE UNCHANGED vars
  BY <1>11, AsideShip DEF vars
<1>12. QED
  BY <1>1, <1>2, <1>3, <1>4, <1>5, <1>6, <1>7, <1>8, <1>9, <1>10, <1>11
     DEF Next, ReturnShipmentTransaction, ReturnItemShipments, ReturnCompleteShipment

\* issueToShipping, the three returns, shipShipment and recallShipment together
\* keep shipments and items consistent: every item is in a shipment that exists,
\* and a shipment whose last item is returned is deleted.
THEOREM ShipmentsHold == Spec => []ShipmentsFull
<1>1. Init => ShipInv
  BY InitShip
<1>2. ShipInv /\ [Next]_vars => ShipInv'
  BY NextShip
<1>3. ShipInv => ShipmentsFull
  BY DEF ShipInv
<1>4. QED
  BY <1>1, <1>2, <1>3, PTL DEF Spec

-----------------------------------------------------------------------------
(* The history of the item site.                                           *)

\* The inductive invariant of the history.
HistoryInv ==
    /\ unposted = [s \in Series |-> unposted[s]]
    /\ itemsite = [qoh |-> itemsite.qoh, frozen |-> itemsite.frozen]
    /\ NothingForgotten

\* Issuing adds only to the history of a series that the caller is told to post.
LEMMA IssueHistory ==
    ASSUME HistoryInv, NEW qty, NEW series, NEW order, Issue(qty, series, order),
           \A t \in Series : t \in todo \/ t \in Range(series) => t \in todo'
    PROVE  HistoryInv'
<1> DEFINE issued(s) == Sum([l \in DOMAIN qty |-> IF series[l] = s THEN qty[l] ELSE 0])
<1>1. unposted' = [s \in Series |-> IF s \notin Range(series) THEN unposted[s]
                                    ELSE unposted[s] - issued(s)]
  BY Zenon DEF Issue
<1> HIDE DEF issued
<1>2. UNCHANGED <<itemsite, waiting>>
  BY DEF Issue
<1>3. \A s \in Series : unposted'[s] # 0 => s \in todo'
  BY <1>1 DEF HistoryInv, NothingForgotten
<1>4. unposted' = [s \in Series |-> unposted'[s]]
  BY <1>1
<1>5. QED
  BY <1>2, <1>3, <1>4 DEF HistoryInv, NothingForgotten

\* The last line of the order has the series of every line.
LEMMA IssueAllHistory ==
    ASSUME OwnSeries, HistoryInv, IssueAllBalanceToShipping
    PROVE  HistoryInv'
<1> DEFINE qty == [l \in ToIssue |-> Balance(l)]
           last(order) == {m \in ToIssue : order[m] = Cardinality(ToIssue)}
<1>1. PICK order \in Orders(ToIssue), series \in [ToIssue -> FreeSeries] :
        /\ \A l, m \in ToIssue : series[l] = series[m]
        /\ Issue(qty, series, order)
        /\ todo' = todo \cup {series[l] : l \in last(order)}
  BY Zenon DEF IssueAllBalanceToShipping
<1> HIDE DEF qty
<1>2. IsFiniteSet(ToIssue) /\ ToIssue # {}
  BY ShippingAssumption, FS_Subset DEF ToIssue, OpenLines, IssueAllBalanceToShipping
<1>3. Cardinality(ToIssue) \in 1..Cardinality(ToIssue)
  BY <1>2, FS_CardinalityType, FS_EmptySet
<1>4. PICK m \in ToIssue : order[m] = Cardinality(ToIssue)
  BY <1>3 DEF Orders, Bijection, Surjection
<1>5. series[m] \in todo'
  BY <1>1, <1>4
<1>6. \A t \in Range(series) : t = series[m]
  BY <1>1, <1>4 DEF Range
<1>7. \A t \in Series : t \in todo \/ t \in Range(series) => t \in todo'
  BY <1>1, <1>5, <1>6
<1>8. QED
  BY <1>1, <1>7, IssueHistory

\* Posting a series leaves nothing of it, but what waits for a thaw.
LEMMA PostHistory ==
    ASSUME HistoryInv, NEW s \in Series, PostItemlocSeries(s)
    PROVE  HistoryInv'
<1>1. unposted' = [unposted EXCEPT ![s] = 0] /\ todo' = todo \ {s}
  BY DEF PostItemlocSeries
<1>2. unposted' = [t \in Series |-> unposted'[t]]
  BY <1>1 DEF HistoryInv
<1>3. \A t \in Series : unposted'[t] # 0 => t \in todo'
  BY <1>1 DEF HistoryInv, NothingForgotten
<1>4. /\ itemsite' = [qoh |-> itemsite'.qoh, frozen |-> itemsite'.frozen]
      /\ waiting' # 0 => itemsite'.frozen
  <2>1. CASE itemsite.frozen
    BY <2>1 DEF HistoryInv, PostItemlocSeries
  <2>2. CASE ~itemsite.frozen
    BY <2>2 DEF HistoryInv, NothingForgotten, PostItemlocSeries
  <2>3. QED
    BY <2>1, <2>2
<1>5. QED
  BY <1>2, <1>3, <1>4 DEF HistoryInv, NothingForgotten

\* What is returned to a frozen site waits for the thaw.
LEMMA ReturnHistory ==
    ASSUME HistoryInv, NEW B, Return(B)
    PROVE  HistoryInv'
<1> DEFINE back == Sum([b \in B |-> At(b).qty])
<1>1. /\ UNCHANGED <<unposted, todo>>
      /\ IF itemsite.frozen
         THEN waiting' = waiting + back /\ UNCHANGED itemsite
         ELSE itemsite' = [itemsite EXCEPT !.qoh = @ + back] /\ UNCHANGED waiting
  BY Zenon DEF Return
<1> HIDE DEF back
<1>2. /\ itemsite' = [qoh |-> itemsite'.qoh, frozen |-> itemsite'.frozen]
      /\ waiting' # 0 => itemsite'.frozen
  <2>1. CASE itemsite.frozen
    BY <1>1, <2>1 DEF HistoryInv
  <2>2. CASE ~itemsite.frozen
    BY <1>1, <2>2 DEF HistoryInv, NothingForgotten
  <2>3. QED
    BY <2>1, <2>2
<1>3. QED
  BY <1>1, <1>2 DEF HistoryInv, NothingForgotten

\* A thaw leaves no history.
LEMMA ThawHistory ==
    ASSUME NEW late, Thaw(late)
    PROVE  HistoryInv'
<1>1. unposted' = [s \in Series |-> 0]
  BY DEF Thaw
<1>2. unposted' = [s \in Series |-> unposted'[s]] /\ \A s \in Series : unposted'[s] = 0
  BY <1>1
<1>3. itemsite' = [qoh |-> itemsite'.qoh, frozen |-> itemsite'.frozen] /\ waiting' = 0
  BY DEF Thaw
<1>4. QED
  BY <1>2, <1>3 DEF HistoryInv, NothingForgotten

\* Counting a site that is not thawed.
LEMMA CountHistory ==
    ASSUME HistoryInv, NEW n, NEW thaw, PostCountTag(n, thaw)
    PROVE  HistoryInv'
<1> DEFINE difference == n - itemsite.qoh
<1>1. UNCHANGED todo
  BY DEF PostCountTag
<1>2. \/ /\ ~itemsite.frozen
         /\ itemsite' = [itemsite EXCEPT !.qoh = n]
         /\ UNCHANGED <<unposted, waiting>>
      \/ Thaw(difference)
      \/ /\ itemsite.frozen
         /\ waiting' = waiting + difference
         /\ UNCHANGED <<itemsite, unposted>>
  BY Zenon DEF PostCountTag
<1> HIDE DEF difference
<1>3. CASE ~itemsite.frozen /\ itemsite' = [itemsite EXCEPT !.qoh = n]
           /\ UNCHANGED <<unposted, waiting>>
  <2>1. /\ itemsite' = [qoh |-> itemsite'.qoh, frozen |-> itemsite'.frozen]
        /\ itemsite'.frozen = itemsite.frozen
    BY <1>3 DEF HistoryInv
  <2>2. QED
    BY <1>1, <1>3, <2>1 DEF HistoryInv, NothingForgotten
<1>4. CASE itemsite.frozen /\ UNCHANGED <<itemsite, unposted>>
  BY <1>1, <1>4 DEF HistoryInv, NothingForgotten
<1>5. QED
  BY <1>2, <1>3, <1>4, ThawHistory

LEMMA AsideHistory ==
    ASSUME HistoryInv, UNCHANGED <<unposted, itemsite, waiting, todo>>
    PROVE  HistoryInv'
BY DEF HistoryInv, NothingForgotten

LEMMA NextHistory ==
    ASSUME OwnSeries, HistoryInv, [Next]_vars
    PROVE  HistoryInv'
<1>1. ASSUME NEW l \in Lines, NEW n \in Quantities, NEW s \in Series, IssueToShipping(l, n, s)
      PROVE  HistoryInv'
  <2> DEFINE series == [m \in {l} |-> s]
  <2>1. Range(series) = {s} /\ todo' = todo \cup {s}
    BY <1>1 DEF Range, IssueToShipping
  <2>2. Issue([m \in {l} |-> n], series, [m \in {l} |-> 1])
    BY <1>1, Zenon DEF IssueToShipping
  <2> HIDE DEF series
  <2>3. QED
    BY <2>1, <2>2, IssueHistory
<1>2. CASE IssueAllBalanceToShipping
  BY <1>2, IssueAllHistory
<1>3. ASSUME NEW s \in Series, PostItemlocSeries(s) PROVE HistoryInv'
  BY <1>3, PostHistory
<1>4. ASSUME NEW B, Return(B) PROVE HistoryInv'
  BY <1>4, ReturnHistory
<1>5. ASSUME NEW s \in Shipments, ShipShipment(s) \/ RecallShipment(s) PROVE HistoryInv'
  BY <1>5, AsideHistory DEF ShipShipment, RecallShipment
<1>6. ASSUME NEW l \in Lines, NEW status, SetStatus(l, status) PROVE HistoryInv'
  BY <1>6, AsideHistory DEF SetStatus
<1>7. ASSUME NEW l \in Lines, NEW n, Reserve(l, n) PROVE HistoryInv'
  BY <1>7, AsideHistory DEF Reserve
<1>8. ASSUME NEW freeze, CreateCountTag(freeze) PROVE HistoryInv'
  <2>1. /\ itemsite' = [itemsite EXCEPT !.frozen = @ \/ freeze]
        /\ UNCHANGED <<unposted, waiting, todo>>
    BY <1>8 DEF CreateCountTag
  <2>2. /\ itemsite' = [qoh |-> itemsite'.qoh, frozen |-> itemsite'.frozen]
        /\ itemsite.frozen => itemsite'.frozen
    BY <2>1 DEF HistoryInv
  <2>3. QED
    BY <2>1, <2>2 DEF HistoryInv, NothingForgotten
<1>9. CASE ThawItemSite
  BY <1>9, ThawHistory DEF ThawItemSite
<1>10. ASSUME NEW n, NEW thaw, PostCountTag(n, thaw) PROVE HistoryInv'
  BY <1>10, CountHistory
<1>11. CASE UNCHANGED vars
  BY <1>11, AsideHistory DEF vars
<1>12. QED
  BY <1>1, <1>2, <1>3, <1>4, <1>5, <1>6, <1>7, <1>8, <1>9, <1>10, <1>11
     DEF Next, ReturnShipmentTransaction, ReturnItemShipments, ReturnCompleteShipment

\* postItemLocSeries skips the history of a frozen site and is never called again
\* for it; issueAllBalanceToShipping reports one series only.  Still no history is
\* left behind, if issueAllBalanceToShipping is given the series: a caller has been
\* told to post it, or thawItemSite will.
THEOREM NothingForgottenHolds ==
    ASSUME OwnSeries
    PROVE  Spec => []NothingForgotten
<1>1. Init => HistoryInv
  <2> SUFFICES ASSUME Init PROVE HistoryInv
    OBVIOUS
  <2>1. unposted = [s \in Series |-> 0] /\ waiting = 0
    BY DEF Init
  <2>2. itemsite = [qoh |-> itemsite.qoh, frozen |-> itemsite.frozen]
    BY DEF Init
  <2>3. QED
    BY <2>1, <2>2 DEF HistoryInv, NothingForgotten
<1>2. HistoryInv /\ [Next]_vars => HistoryInv'
  BY NextHistory
<1>3. HistoryInv => NothingForgotten
  BY DEF HistoryInv
<1>4. QED
  BY <1>1, <1>2, <1>3, PTL DEF Spec

-----------------------------------------------------------------------------
(* Quantities.                                                             *)

\* What a slot of line l counts for in the shipments S, and what the line's slots
\* come to.
QtyIn(items, l, S) ==
    [i \in Slots |-> IF items[l][i].ship \in S THEN items[l][i].qty ELSE 0]
IssuedOf(items, l, S) == SumFunctionOnSet(QtyIn(items, l, S), Slots)

Shipped == {s \in Shipments : shiphead[s] = "shipped"}

LinesTyped == coitem \in [Lines -> LineType]
ItemsTyped ==
    /\ shipitem \in [Lines -> [Slots -> ItemType]]
    /\ \A l \in Lines, i \in Slots : shipitem[l][i].rsrv <= shipitem[l][i].qty
NumbersOK ==
    /\ number \in 0..MaxShipments
    /\ \A s \in Shipments : shiphead[s] # "none" => s <= number
SiteTyped ==
    /\ itemsite \in [qoh : Int, frozen : BOOLEAN]
    /\ unposted \in [Series -> Int] /\ waiting \in Int /\ todo \subseteq Series
    /\ invcnt \in BOOLEAN /\ counted \in -MaxCounted..MaxCounted

\* What a line has shipped is what its items in shipped shipments come to.
ShippedIsIssued == \A l \in Lines : coitem[l].shipped = IssuedOf(shipitem, l, Shipped)

\* The inductive invariant of the types.
QtyInv ==
    ShipInv /\ LinesTyped /\ ItemsTyped /\ NumbersOK /\ SiteTyped /\ ShippedIsIssued

LEMMA SlotsFinite == IsFiniteSet(Slots)
BY ShippingAssumption, FS_Interval DEF Slots

LEMMA QtyInNat ==
    ASSUME NEW items \in [Lines -> [Slots -> ItemType]], NEW l \in Lines, NEW S
    PROVE  /\ \A i \in Slots : QtyIn(items, l, S)[i] \in Nat
           /\ IssuedOf(items, l, S) \in Nat
<1>1. \A i \in Slots : items[l][i].qty \in Nat
  BY DEF ItemType
<1>2. \A i \in Slots : QtyIn(items, l, S)[i] \in Nat
  BY <1>1 DEF QtyIn
<1>3. QED
  BY <1>2, SlotsFinite, SumNat DEF IssuedOf

\* The model's sum over the items in S is the sum over all slots.
LEMMA IssuedAll ==
    ASSUME NEW items \in [Lines -> [Slots -> ItemType]], NEW l \in Lines, NEW S
    PROVE  Sum([i \in {i \in Slots : items[l][i].ship \in S} |-> items[l][i].qty])
             = IssuedOf(items, l, S)
<1> DEFINE T == {i \in Slots : items[l][i].ship \in S}
           f == [i \in T |-> items[l][i].qty]
           g == QtyIn(items, l, S)
<1>1. T \in SUBSET Slots /\ DOMAIN f = T
  OBVIOUS
<1>2. /\ \A i \in T : f[i] \in Int /\ g[i] = f[i]
      /\ \A i \in Slots \ T : g[i] = 0
  BY DEF QtyIn, ItemType
<1> HIDE DEF T, f, g
<1>3. SumFunctionOnSet(g, Slots) = SumFunctionOnSet(f, T)
  BY <1>1, <1>2, SlotsFinite, SumOfSome
<1>4. Sum(f) = SumFunctionOnSet(g, Slots)
  BY <1>1, <1>3 DEF Sum, SumFunction
<1>5. QED
  BY <1>4 DEF f, g, T, IssuedOf

\* Shipments of two sets.
LEMMA IssuedUnion ==
    ASSUME NEW items \in [Lines -> [Slots -> ItemType]], NEW l \in Lines,
           NEW S, NEW T, S \cap T = {}
    PROVE  IssuedOf(items, l, S \cup T) = IssuedOf(items, l, S) + IssuedOf(items, l, T)
<1> DEFINE f == QtyIn(items, l, S)
           g == QtyIn(items, l, T)
           h == QtyIn(items, l, S \cup T)
<1>1. \A i \in Slots : f[i] \in Int /\ g[i] \in Int /\ h[i] = f[i] + g[i]
  BY DEF QtyIn, ItemType
<1> HIDE DEF f, g, h
<1>2. SumFunctionOnSet(h, Slots) = SumFunctionOnSet(f, Slots) + SumFunctionOnSet(g, Slots)
  BY <1>1, SlotsFinite, SumPlus
<1>3. QED
  BY <1>2 DEF IssuedOf, f, g, h

\* Lines whose slots count the same have the same issued.
LEMMA IssuedSame ==
    ASSUME NEW items, NEW after, NEW l, NEW S, NEW T,
           \A i \in Slots : QtyIn(after, l, T)[i] = QtyIn(items, l, S)[i]
    PROVE  IssuedOf(after, l, T) = IssuedOf(items, l, S)
BY SlotsFinite, SumEqual DEF IssuedOf

\* The lowest of a set of numbers.
LEMMA LeastIn ==
    ASSUME NEW S, S \subseteq Nat, S # {}
    PROVE  Least(S) \in S
BY LeastNumber DEF Least

\* The shipment that the issues join is open, or its number is new.
LEMMA TargetFits ==
    ASSUME HeadsOK, NumbersOK, Target \in Shipments
    PROVE  /\ Target <= (IF Open # {} THEN number ELSE number + 1)
           /\ \/ Open # {} /\ Target \in Open
              \/ Open = {} /\ shiphead[Target] = "none"
<1>1. Shipments \subseteq Nat /\ MaxShipments \in Nat
  BY ShippingAssumption DEF Shipments
<1>2. CASE Open # {}
  <2>1. Open \subseteq Nat /\ Open \subseteq Shipments
    BY <1>1 DEF Open
  <2>2. Target \in Open
    BY <1>2, <2>1, LeastIn DEF Target
  <2>3. Target <= number
    BY <2>2 DEF NumbersOK, Open
  <2>4. QED
    BY <1>2, <2>2, <2>3
<1>3. CASE Open = {}
  <2>1. Target = number + 1 /\ number \in Nat
    BY <1>1, <1>3 DEF Target, NumbersOK
  <2>2. shiphead[Target] = "none"
    BY <2>1 DEF NumbersOK
  <2>3. QED
    BY <1>3, <2>1, <2>2
<1>4. QED
  BY <1>2, <1>3

\* What is issued counts as at shipping, and only that; what is shipped stays so.
LEMMA IssueCounts ==
    ASSUME QtyInv, NEW qty, NEW series, NEW order,
           DOMAIN qty \subseteq Lines, DOMAIN qty # {}, \A l \in DOMAIN qty : qty[l] \in Nat,
           Issue(qty, series, order)
    PROVE  /\ \A l \in Lines : IssuedOf(shipitem', l, Open') =
                IssuedOf(shipitem, l, Open) + (IF l \in DOMAIN qty THEN qty[l] ELSE 0)
           /\ \A l \in Lines : IssuedOf(shipitem', l, Shipped') = IssuedOf(shipitem, l, Shipped)
<1> DEFINE D == DOMAIN qty
<1>1. /\ \A l \in D : FreeSlot(l) \in Slots /\ shipitem[l][FreeSlot(l)].ship = 0
      /\ \A l \in Lines, i \in Slots :
           shipitem'[l][i] = IF l \in D /\ i = FreeSlot(l) THEN NewItem(qty, l)
                             ELSE shipitem[l][i]
  BY IssueItems DEF QtyInv, ShipInv
<1>2. Target \in Shipments /\ shiphead' = [shiphead EXCEPT ![Target] = "open"]
  BY DEF Issue
<1>3. Open' = Open \cup {Target} /\ Shipped' = Shipped \ {Target}
  BY <1>2 DEF Open, Shipped, QtyInv, ShipInv, HeadsOK, Shipments
<1>4. /\ Target \notin Shipped /\ 0 \notin Open /\ 0 \notin Shipped
      /\ Target \notin Open => \A l \in Lines, i \in Slots : shipitem[l][i].ship # Target
  <2>1. Target \in Open \/ shiphead[Target] = "none"
    BY <1>2, TargetFits DEF QtyInv, ShipInv
  <2>2. Target \notin Shipped
    BY <2>1 DEF Shipped, Open
  <2>3. 0 \notin Open /\ 0 \notin Shipped /\ Target # 0
    BY <1>2, NumbersPositive DEF Shipped, Open
  <2>4. QED
    BY <2>1, <2>2, <2>3 DEF QtyInv, ShipInv, ShipmentsFull
<1>5. \A l \in D : NewItem(qty, l).ship = Target /\ NewItem(qty, l).qty = qty[l]
  BY DEF NewItem
<1>6. shipitem \in [Lines -> [Slots -> ItemType]]
  BY DEF QtyInv, ItemsTyped
<1>7. ASSUME NEW l \in Lines
      PROVE  IssuedOf(shipitem', l, Open') =
               IssuedOf(shipitem, l, Open) + (IF l \in D THEN qty[l] ELSE 0)
  <2> DEFINE f == QtyIn(shipitem, l, Open)
             g == QtyIn(shipitem', l, Open')
  <2>1. \A i \in Slots : g[i] = IF l \in D /\ i = FreeSlot(l) THEN qty[l] ELSE f[i]
    BY <1>1, <1>3, <1>4, <1>5 DEF QtyIn
  <2>2. \A i \in Slots : f[i] \in Int
    BY <1>6, QtyInNat
  <2>3. l \in D => f[FreeSlot(l)] = 0
    BY <1>1, <1>4 DEF QtyIn
  <2>4. SumFunctionOnSet(f, Slots) \in Int
    BY <2>2, SlotsFinite, SumInt
  <2> HIDE DEF f, g
  <2>5. CASE l \in D
    <3>1. SumFunctionOnSet(g, Slots)
            = SumFunctionOnSet(f, Slots) + g[FreeSlot(l)] - f[FreeSlot(l)]
      BY <1>1, <2>1, <2>2, <2>5, SlotsFinite, SumChanged
    <3>2. g[FreeSlot(l)] = qty[l]
      BY <1>1, <2>1, <2>5
    <3>3. QED
      BY <2>3, <2>4, <2>5, <3>1, <3>2 DEF IssuedOf, f, g
  <2>6. CASE l \notin D
    <3>1. SumFunctionOnSet(g, Slots) = SumFunctionOnSet(f, Slots)
      BY <2>1, <2>6, SlotsFinite, SumEqual
    <3>2. QED
      BY <2>4, <2>6, <3>1 DEF IssuedOf, f, g
  <2>7. QED
    BY <2>5, <2>6
<1>8. ASSUME NEW l \in Lines
      PROVE  IssuedOf(shipitem', l, Shipped') = IssuedOf(shipitem, l, Shipped)
  <2>1. \A i \in Slots : QtyIn(shipitem', l, Shipped')[i] = QtyIn(shipitem, l, Shipped)[i]
    BY <1>1, <1>3, <1>4, <1>5 DEF QtyIn
  <2>2. QED
    BY <2>1, IssuedSame
<1>9. QED
  BY <1>7, <1>8

\* The history of the series issued gives up what its lines are issued.
IssuedFor(qty, series, s) ==
    SumFunctionOnSet([l \in DOMAIN qty |-> IF series[l] = s THEN qty[l] ELSE 0], DOMAIN qty)

LEMMA IssueTypes ==
    ASSUME QtyInv, NEW qty, NEW series, NEW order,
           DOMAIN qty \subseteq Lines, DOMAIN qty # {}, \A l \in DOMAIN qty : qty[l] \in Nat,
           Issue(qty, series, order), todo' \subseteq Series
    PROVE  QtyInv'
<1> DEFINE D == DOMAIN qty
<1>1. ShipInv'
  BY IssueShip DEF QtyInv
<1>2. LinesTyped'
  <2>1. coitem' = [l \in Lines |-> IF l \notin D THEN coitem[l]
                     ELSE [coitem[l] EXCEPT !.reserved = NoNeg(@ - qty[l])]]
    BY DEF Issue
  <2>2. \A l \in Lines : coitem[l] \in LineType
    BY DEF QtyInv, LinesTyped
  <2>3. ASSUME NEW l \in D
        PROVE  [coitem[l] EXCEPT !.reserved = NoNeg(@ - qty[l])] \in LineType
    BY <2>2 DEF LineType, NoNeg
  <2>4. QED
    BY <2>1, <2>2, <2>3 DEF LinesTyped
<1>3. ItemsTyped'
  <2>1. /\ shipitem' = [l \in Lines |-> [i \in Slots |-> shipitem'[l][i]]]
        /\ \A l \in Lines, i \in Slots :
             shipitem'[l][i] = IF l \in D /\ i = FreeSlot(l) THEN NewItem(qty, l)
                               ELSE shipitem[l][i]
    BY IssueItems DEF QtyInv, ShipInv
  <2>2. \A l \in Lines, i \in Slots :
          shipitem[l][i] \in ItemType /\ shipitem[l][i].rsrv <= shipitem[l][i].qty
    BY DEF QtyInv, ItemsTyped
  <2>3. ASSUME NEW l \in D
        PROVE  NewItem(qty, l) \in ItemType /\ NewItem(qty, l).rsrv <= NewItem(qty, l).qty
    <3>1. Target \in Shipments
      BY DEF Issue
    <3>2. coitem[l].reserved \in Nat
      BY DEF QtyInv, LinesTyped, LineType
    <3>3. QED
      BY <3>1, <3>2 DEF NewItem, ItemType
  <2>4. \A l \in Lines, i \in Slots :
          shipitem'[l][i] \in ItemType /\ shipitem'[l][i].rsrv <= shipitem'[l][i].qty
    BY <2>1, <2>2, <2>3
  <2>5. shipitem' \in [Lines -> [Slots -> ItemType]]
    BY <2>1, <2>4
  <2>6. QED
    BY <2>4, <2>5 DEF ItemsTyped, Slots, ItemType, Shipments
<1>4. NumbersOK'
  <2>1. /\ Target \in Shipments /\ shiphead' = [shiphead EXCEPT ![Target] = "open"]
        /\ number' = IF Open # {} THEN number ELSE number + 1
    BY DEF Issue
  <2>2. Target <= number' /\ (Open = {} => Target = number + 1)
    BY <2>1, TargetFits DEF QtyInv, ShipInv, Target
  <2>3. number \in Nat /\ number <= MaxShipments /\ MaxShipments \in Nat
    BY ShippingAssumption DEF QtyInv, NumbersOK
  <2>4. number' \in 0..MaxShipments /\ number <= number'
    BY <2>1, <2>2, <2>3 DEF Shipments
  <2>5. ASSUME NEW s \in Shipments, shiphead'[s] # "none" PROVE s <= number'
    <3>1. CASE s = Target
      BY <2>2, <3>1
    <3>2. CASE s # Target
      <4>1. s <= number /\ s \in Nat
        BY <2>1, <2>5, <3>2 DEF QtyInv, NumbersOK, ShipInv, HeadsOK, Shipments
      <4>2. QED
        BY <2>3, <2>4, <4>1
    <3>3. QED
      BY <3>1, <3>2
  <2>6. QED
    BY <2>4, <2>5 DEF NumbersOK, Shipments
<1>5. SiteTyped'
  <2>1. /\ unposted' = [s \in Series |-> IF s \notin Range(series) THEN unposted[s]
                                        ELSE unposted[s] - IssuedFor(qty, series, s)]
        /\ UNCHANGED <<itemsite, waiting, invcnt, counted>>
    BY DEF Issue, IssuedFor, Sum, SumFunction
  <2>2. \A s \in Series : IssuedFor(qty, series, s) \in Int
    <3>1. IsFiniteSet(D)
      BY ShippingAssumption, FS_Subset
    <3>2. QED
      BY <3>1, SumInt DEF IssuedFor
  <2>3. unposted' \in [Series -> Int]
    BY <2>1, <2>2 DEF QtyInv, SiteTyped
  <2>4. QED
    BY <2>1, <2>3 DEF QtyInv, SiteTyped
<1>6. ShippedIsIssued'
  <2>1. \A l \in Lines : coitem'[l].shipped = coitem[l].shipped
    BY DEF Issue, QtyInv, LinesTyped, LineType
  <2>2. QED
    BY <2>1, IssueCounts DEF QtyInv, ShippedIsIssued
<1>7. QED
  BY <1>1, <1>2, <1>3, <1>4, <1>5, <1>6 DEF QtyInv

\* What comes back of a line, and of the whole return.
BackOf(B, l) == SumFunctionOnSet([b \in B |-> At(b).qty], {b \in B : b[1] = l})
Back(B) == SumFunctionOnSet([b \in B |-> At(b).qty], B)

LEMMA ReturnFinite ==
    ASSUME ItemsTyped, NEW B, Return(B)
    PROVE  /\ IsFiniteSet(B) /\ \A b \in B : b[1] \in Lines /\ b[2] \in Slots /\ b = <<b[1], b[2]>>
           /\ \A b \in B : At(b).qty \in Nat /\ At(b).rsrv \in Nat /\ At(b).ship \in Open
<1>1. B \subseteq Lines \X Slots /\ \A b \in B : At(b).ship \in Open
  BY DEF Return, OpenItems, At
<1>2. IsFiniteSet(Lines \X Slots)
  BY ShippingAssumption, SlotsFinite, FS_Product
<1>3. IsFiniteSet(B)
  BY <1>1, <1>2, FS_Subset
<1>4. \A b \in B : b[1] \in Lines /\ b[2] \in Slots /\ b = <<b[1], b[2]>>
  BY <1>1
<1>5. \A b \in B : At(b) \in ItemType
  BY <1>4 DEF ItemsTyped, At
<1>6. QED
  BY <1>1, <1>3, <1>4, <1>5 DEF ItemType

\* The items that come back of a line, by slot.
LEMMA BackBySlot ==
    ASSUME ItemsTyped, NEW B, Return(B), NEW l \in Lines
    PROVE  /\ BackOf(B, l) \in Nat
           /\ SumFunctionOnSet([i \in Slots |-> IF <<l, i>> \in B THEN shipitem[l][i].qty ELSE 0],
                               Slots) = BackOf(B, l)
<1> DEFINE k == [i \in Slots |-> IF <<l, i>> \in B THEN shipitem[l][i].qty ELSE 0]
           T == {i \in Slots : <<l, i>> \in B}
           h == [i \in T |-> <<l, i>>]
           q == [b \in B |-> At(b).qty]
           L == {b \in B : b[1] = l}
<1>1. /\ T \in SUBSET Slots /\ IsFiniteSet(T)
      /\ \A i \in T : k[i] \in Int /\ q[h[i]] = k[i]
      /\ \A i \in Slots \ T : k[i] = 0
      /\ \A i, j \in T : h[i] = h[j] => i = j
  <2>1. IsFiniteSet(T)
    BY SlotsFinite, FS_Subset
  <2>2. \A i \in T : h[i] \in B /\ q[h[i]] = shipitem[l][i].qty /\ shipitem[l][i].qty \in Nat
    BY DEF At, ItemsTyped, ItemType
  <2>3. QED
    BY <2>1, <2>2
<1>2. {h[i] : i \in T} = L
  <2>1. \A b \in L : b[2] \in T /\ h[b[2]] = b
    BY ReturnFinite
  <2>2. \A i \in T : h[i] \in L
    OBVIOUS
  <2> HIDE DEF T, h, L
  <2>3. QED
    BY <2>1, <2>2
<1>3. L \in SUBSET B /\ IsFiniteSet(L) /\ \A b \in L : q[b] \in Nat
  BY ReturnFinite, FS_Subset
<1> HIDE DEF k, T, h, q, L
<1>4. SumFunctionOnSet(k, Slots) = SumFunctionOnSet(k, T)
  BY <1>1, SlotsFinite, SumOfSome
<1>5. SumFunctionOnSet(k, T) = SumFunctionOnSet(q, L)
  BY <1>1, <1>2, SumRenamed
<1>6. SumFunctionOnSet(q, L) \in Nat
  BY <1>3, SumNat
<1>7. QED
  BY <1>4, <1>5, <1>6 DEF BackOf, k, q, L

\* What comes back no longer counts as at shipping; what is shipped stays so.
LEMMA ReturnCounts ==
    ASSUME QtyInv, NEW B, Return(B)
    PROVE  /\ \A l \in Lines :
                IssuedOf(shipitem, l, Open) = IssuedOf(shipitem', l, Open') + BackOf(B, l)
           /\ \A l \in Lines : IssuedOf(shipitem', l, Shipped') = IssuedOf(shipitem, l, Shipped)
<1>1. \A l \in Lines, i \in Slots :
        shipitem'[l][i] = IF <<l, i>> \in B THEN NoItem ELSE shipitem[l][i]
  BY Zenon DEF Return
<1>2. \A s \in Shipments :
        shiphead'[s] = IF Emptied(shipitem', s) THEN "none" ELSE shiphead[s]
  BY Zenon DEF Return
<1>3. \A b \in B : b[1] \in Lines /\ b[2] \in Slots /\ At(b).ship \in Open
  BY ReturnFinite DEF QtyInv
<1>4. 0 \notin Open' /\ 0 \notin Shipped' /\ 0 \notin Shipped /\ 0 \notin Open
  BY NumbersPositive DEF Open, Shipped, Shipments
<1>5. \A l \in Lines, i \in Slots : <<l, i>> \notin B =>
        /\ shipitem[l][i].ship \in Open' <=> shipitem[l][i].ship \in Open
        /\ shipitem[l][i].ship \in Shipped' <=> shipitem[l][i].ship \in Shipped
  <2> SUFFICES ASSUME NEW l \in Lines, NEW i \in Slots, <<l, i>> \notin B,
                      shipitem[l][i].ship \in Shipments
               PROVE  shiphead'[shipitem[l][i].ship] = shiphead[shipitem[l][i].ship]
    BY DEF Open, Shipped, Shipments
  <2>1. shipitem'[l][i].ship = shipitem[l][i].ship
    BY <1>1
  <2>2. ~Emptied(shipitem', shipitem[l][i].ship)
    BY <2>1 DEF Emptied
  <2>3. QED
    BY <1>2, <2>2
<1>6. NoItem.ship = 0
  BY DEF NoItem
<1>7. \A l \in Lines, i \in Slots : <<l, i>> \in B =>
        shipitem[l][i].ship \in Open /\ shipitem[l][i].ship \notin Shipped
  BY <1>3 DEF At, Open, Shipped
<1>8. ASSUME NEW l \in Lines
      PROVE  IssuedOf(shipitem, l, Open) = IssuedOf(shipitem', l, Open') + BackOf(B, l)
  <2> DEFINE f == QtyIn(shipitem', l, Open')
             g == [i \in Slots |-> IF <<l, i>> \in B THEN shipitem[l][i].qty ELSE 0]
             h == QtyIn(shipitem, l, Open)
  <2>1. \A i \in Slots : shipitem[l][i].qty \in Int
    BY DEF QtyInv, ItemsTyped, ItemType
  <2>2. \A i \in Slots : f[i] = IF <<l, i>> \in B THEN 0 ELSE h[i]
    BY <1>1, <1>4, <1>5, <1>6 DEF QtyIn
  <2>3. \A i \in Slots : h[i] \in Int /\ (<<l, i>> \in B => h[i] = shipitem[l][i].qty)
    BY <1>7, <2>1 DEF QtyIn
  <2>4. \A i \in Slots : f[i] \in Int /\ g[i] \in Int /\ h[i] = f[i] + g[i]
    BY <2>1, <2>2, <2>3
  <2>5. SumFunctionOnSet(g, Slots) = BackOf(B, l)
    BY BackBySlot DEF QtyInv
  <2> HIDE DEF f, g, h
  <2>6. SumFunctionOnSet(h, Slots) = SumFunctionOnSet(f, Slots) + SumFunctionOnSet(g, Slots)
    BY <2>4, SlotsFinite, SumPlus
  <2>7. QED
    BY <2>5, <2>6 DEF IssuedOf, f, h
<1>9. ASSUME NEW l \in Lines
      PROVE  IssuedOf(shipitem', l, Shipped') = IssuedOf(shipitem, l, Shipped)
  <2>1. ASSUME NEW i \in Slots
        PROVE  QtyIn(shipitem', l, Shipped')[i] = QtyIn(shipitem, l, Shipped)[i]
    <3>1. CASE <<l, i>> \in B
      <4>1. shipitem'[l][i].ship \notin Shipped' /\ shipitem[l][i].ship \notin Shipped
        BY <1>1, <1>4, <1>6, <1>7, <3>1
      <4>2. QED
        BY <4>1 DEF QtyIn
    <3>2. CASE <<l, i>> \notin B
      <4>1. /\ shipitem'[l][i] = shipitem[l][i]
            /\ shipitem[l][i].ship \in Shipped' <=> shipitem[l][i].ship \in Shipped
        BY <1>1, <1>5, <3>2
      <4>2. QED
        BY <4>1 DEF QtyIn
    <3>3. QED
      BY <3>1, <3>2
  <2>2. QED
    BY <2>1, IssuedSame
<1>10. QED
  BY <1>8, <1>9

\* The site takes what comes back, in the quantity on hand or as waiting history.
LEMMA ReturnSite ==
    ASSUME NEW B, Return(B)
    PROVE  IF itemsite.frozen
           THEN waiting' = waiting + Back(B) /\ UNCHANGED itemsite
           ELSE itemsite' = [itemsite EXCEPT !.qoh = @ + Back(B)] /\ UNCHANGED waiting
<1> DEFINE q == [b \in B |-> At(b).qty]
<1>1. DOMAIN q = B
  OBVIOUS
<1>2. Sum(q) = Back(B)
  BY <1>1 DEF Back, Sum, SumFunction
<1> HIDE DEF q
<1>3. IF itemsite.frozen
      THEN waiting' = waiting + Sum(q) /\ UNCHANGED itemsite
      ELSE itemsite' = [itemsite EXCEPT !.qoh = @ + Sum(q)] /\ UNCHANGED waiting
  BY Zenon DEF Return, q
<1>4. QED
  BY <1>2, <1>3

LEMMA ReturnTypes ==
    ASSUME QtyInv, NEW B, Return(B)
    PROVE  QtyInv'
<1>1. ShipInv'
  BY ReturnShip DEF QtyInv
<1> DEFINE more(l) == Sum([b \in {b \in B : b[1] = l} |-> At(b).rsrv])
<1>2. \A l \in Lines : more(l) \in Nat
  <2> SUFFICES ASSUME NEW l \in Lines PROVE more(l) \in Nat
    OBVIOUS
  <2> DEFINE L == {b \in B : b[1] = l}
             r == [b \in L |-> At(b).rsrv]
  <2>1. IsFiniteSet(L) /\ DOMAIN r = L /\ \A b \in L : r[b] \in Nat
    BY ReturnFinite, FS_Subset DEF QtyInv
  <2> HIDE DEF r
  <2>2. Sum(r) \in Nat
    BY <2>1, SumNat DEF Sum, SumFunction
  <2>3. QED
    BY <2>2 DEF r
<1>3. coitem' = [l \in Lines |-> [coitem[l] EXCEPT !.reserved = @ + more(l)]]
  BY Zenon DEF Return
<1> HIDE DEF more
<1>4. \A l \in Lines : coitem[l] \in LineType
  BY DEF QtyInv, LinesTyped
<1>5. /\ LinesTyped'
      /\ \A l \in Lines : coitem'[l].shipped = coitem[l].shipped
  BY <1>2, <1>3, <1>4 DEF LinesTyped, LineType
<1>6. ItemsTyped'
  <2>1. shipitem' = [l \in Lines |-> [i \in Slots |->
                       IF <<l, i>> \in B THEN NoItem ELSE shipitem[l][i]]]
    BY Zenon DEF Return
  <2>2. NoItem \in ItemType /\ NoItem.rsrv <= NoItem.qty
    BY DEF NoItem, ItemType
  <2>3. \A l \in Lines, i \in Slots :
          shipitem[l][i] \in ItemType /\ shipitem[l][i].rsrv <= shipitem[l][i].qty
    BY DEF QtyInv, ItemsTyped
  <2>4. QED
    BY <2>1, <2>2, <2>3 DEF ItemsTyped, Slots, ItemType, Shipments
<1>7. NumbersOK'
  <2>1. \A s \in Shipments : shiphead'[s] # "none" => shiphead[s] # "none"
    BY DEF Return
  <2>2. number' = number
    BY DEF Return
  <2>3. QED
    BY <2>1, <2>2 DEF QtyInv, NumbersOK, Shipments
<1>8. SiteTyped'
  <2>1. Back(B) \in Nat
    BY ReturnFinite, SumNat DEF QtyInv, Back
  <2>2. /\ itemsite' \in [qoh : Int, frozen : BOOLEAN] /\ waiting' \in Int
    BY <2>1, ReturnSite DEF QtyInv, SiteTyped
  <2>3. UNCHANGED <<unposted, todo, invcnt, counted>>
    BY DEF Return
  <2>4. QED
    BY <2>2, <2>3 DEF QtyInv, SiteTyped
<1>9. ShippedIsIssued'
  BY <1>5, ReturnCounts DEF QtyInv, ShippedIsIssued
<1>10. QED
  BY <1>1, <1>5, <1>6, <1>7, <1>8, <1>9 DEF QtyInv

\* Shipping moves what is issued in a shipment from shipping to what is shipped,
\* and recalling moves it back.
LEMMA ShipCounts ==
    ASSUME QtyInv, NEW s \in Shipments, ShipShipment(s), NEW l \in Lines
    PROVE  /\ IssuedOf(shipitem, l, {s}) \in Nat
           /\ coitem'[l].shipped = coitem[l].shipped + IssuedOf(shipitem, l, {s})
           /\ IssuedOf(shipitem', l, Shipped') =
                IssuedOf(shipitem, l, Shipped) + IssuedOf(shipitem, l, {s})
           /\ IssuedOf(shipitem, l, Open) =
                IssuedOf(shipitem', l, Open') + IssuedOf(shipitem, l, {s})
<1>1. shipitem \in [Lines -> [Slots -> ItemType]] /\ shipitem' = shipitem
  BY DEF QtyInv, ItemsTyped, ShipShipment
<1>2. /\ s \notin Shipped /\ Shipped' = Shipped \cup {s}
      /\ s \notin Open' /\ Open = Open' \cup {s}
  BY DEF QtyInv, ShipInv, HeadsOK, ShipShipment, Shipped, Open, Shipments
<1>3. coitem'[l].shipped = coitem[l].shipped + IssuedOf(shipitem, l, {s})
  <2>1. coitem' = [m \in Lines |-> [coitem[m] EXCEPT !.shipped = @ + Issued(m, {s})]]
    BY DEF ShipShipment
  <2>2. Issued(l, {s}) = IssuedOf(shipitem, l, {s})
    BY <1>1, IssuedAll DEF Issued
  <2>3. QED
    BY <2>1, <2>2 DEF QtyInv, LinesTyped, LineType
<1>4. IssuedOf(shipitem, l, Shipped \cup {s}) =
        IssuedOf(shipitem, l, Shipped) + IssuedOf(shipitem, l, {s})
  BY <1>1, <1>2, IssuedUnion
<1>5. IssuedOf(shipitem, l, Open' \cup {s}) =
        IssuedOf(shipitem, l, Open') + IssuedOf(shipitem, l, {s})
  BY <1>1, <1>2, IssuedUnion
<1>6. QED
  BY <1>1, <1>2, <1>3, <1>4, <1>5, QtyInNat

LEMMA RecallCounts ==
    ASSUME QtyInv, NEW s \in Shipments, RecallShipment(s), NEW l \in Lines
    PROVE  /\ IssuedOf(shipitem, l, {s}) \in Nat
           /\ coitem'[l].shipped = coitem[l].shipped - IssuedOf(shipitem, l, {s})
           /\ IssuedOf(shipitem, l, Shipped) =
                IssuedOf(shipitem', l, Shipped') + IssuedOf(shipitem, l, {s})
           /\ IssuedOf(shipitem', l, Open') =
                IssuedOf(shipitem, l, Open) + IssuedOf(shipitem, l, {s})
<1>1. shipitem \in [Lines -> [Slots -> ItemType]] /\ shipitem' = shipitem
  BY DEF QtyInv, ItemsTyped, RecallShipment
<1>2. /\ s \notin Shipped' /\ Shipped = Shipped' \cup {s}
      /\ s \notin Open /\ Open' = Open \cup {s}
  BY DEF QtyInv, ShipInv, HeadsOK, RecallShipment, Shipped, Open, Shipments
<1>3. coitem'[l].shipped = coitem[l].shipped - IssuedOf(shipitem, l, {s})
  <2>1. coitem' = [m \in Lines |-> [coitem[m] EXCEPT !.shipped = @ - Issued(m, {s})]]
    BY DEF RecallShipment
  <2>2. Issued(l, {s}) = IssuedOf(shipitem, l, {s})
    BY <1>1, IssuedAll DEF Issued
  <2>3. QED
    BY <2>1, <2>2 DEF QtyInv, LinesTyped, LineType
<1>4. IssuedOf(shipitem, l, Shipped' \cup {s}) =
        IssuedOf(shipitem, l, Shipped') + IssuedOf(shipitem, l, {s})
  BY <1>1, <1>2, IssuedUnion
<1>5. IssuedOf(shipitem, l, Open \cup {s}) =
        IssuedOf(shipitem, l, Open) + IssuedOf(shipitem, l, {s})
  BY <1>1, <1>2, IssuedUnion
<1>6. QED
  BY <1>1, <1>2, <1>3, <1>4, <1>5, QtyInNat

LEMMA ShipRecallTypes ==
    ASSUME QtyInv, NEW s \in Shipments, ShipShipment(s) \/ RecallShipment(s)
    PROVE  QtyInv'
<1>1. ShipInv'
  BY ShipRecallShip DEF QtyInv
<1>2. /\ UNCHANGED <<number, shipitem, itemsite, unposted, waiting, todo, invcnt, counted>>
      /\ shiphead[s] # "none"
      /\ shiphead' \in {[shiphead EXCEPT ![s] = "shipped"], [shiphead EXCEPT ![s] = "open"]}
  BY DEF ShipShipment, RecallShipment
<1>3. ItemsTyped' /\ SiteTyped'
  BY <1>2 DEF QtyInv, ItemsTyped, SiteTyped, Slots, ItemType, Shipments
<1>4. NumbersOK'
  BY <1>2 DEF QtyInv, ShipInv, HeadsOK, NumbersOK, Shipments
<1>5. \A l \in Lines : coitem[l].shipped = IssuedOf(shipitem, l, Shipped)
  BY DEF QtyInv, ShippedIsIssued
<1>6. ShippedIsIssued'
  <2>1. ASSUME NEW l \in Lines PROVE coitem'[l].shipped = IssuedOf(shipitem', l, Shipped')
    <3>1. shipitem \in [Lines -> [Slots -> ItemType]] /\ shipitem' = shipitem
      BY <1>2 DEF QtyInv, ItemsTyped
    <3>2. IssuedOf(shipitem', l, Shipped') \in Nat /\ IssuedOf(shipitem, l, Shipped) \in Nat
      BY <3>1, QtyInNat
    <3>3. CASE ShipShipment(s)
      BY <1>5, <3>2, <3>3, ShipCounts
    <3>4. CASE RecallShipment(s)
      <4>1. /\ IssuedOf(shipitem, l, {s}) \in Nat
            /\ coitem'[l].shipped = coitem[l].shipped - IssuedOf(shipitem, l, {s})
            /\ IssuedOf(shipitem, l, Shipped) =
                 IssuedOf(shipitem', l, Shipped') + IssuedOf(shipitem, l, {s})
        BY <3>4, RecallCounts
      <4>2. coitem[l].shipped = IssuedOf(shipitem, l, Shipped)
        BY <1>5
      <4>3. QED
        BY <3>2, <4>1, <4>2
    <3>5. QED
      BY <3>3, <3>4
  <2>2. QED
    BY <2>1 DEF ShippedIsIssued
<1>7. LinesTyped'
  <2>1. ASSUME NEW l \in Lines
        PROVE  /\ coitem'[l].shipped \in Nat
               /\ coitem'[l] = [coitem[l] EXCEPT !.shipped = coitem'[l].shipped]
    <3>1. shipitem' \in [Lines -> [Slots -> ItemType]]
      BY <1>2 DEF QtyInv, ItemsTyped
    <3>2. coitem'[l].shipped \in Nat
      BY <1>6, <3>1, QtyInNat DEF ShippedIsIssued
    <3>3. \E n : coitem'[l] = [coitem[l] EXCEPT !.shipped = n]
      BY DEF ShipShipment, RecallShipment
    <3>4. QED
      BY <3>2, <3>3 DEF QtyInv, LinesTyped, LineType
  <2>2. coitem' = [l \in Lines |-> coitem'[l]]
    BY DEF ShipShipment, RecallShipment
  <2>3. QED
    BY <2>1, <2>2 DEF QtyInv, LinesTyped, LineType
<1>8. QED
  BY <1>1, <1>3, <1>4, <1>6, <1>7 DEF QtyInv

\* Steps that leave shipments, items and what is shipped alone.
LEMMA AsideTypes ==
    ASSUME QtyInv, UNCHANGED <<shiphead, number, shipitem>>,
           LinesTyped', \A l \in Lines : coitem'[l].shipped = coitem[l].shipped, SiteTyped'
    PROVE  QtyInv'
<1>1. ShipInv'
  BY AsideShip DEF QtyInv
<1>2. ItemsTyped' /\ NumbersOK'
  BY DEF QtyInv, ItemsTyped, NumbersOK, Slots, ItemType, Shipments
<1>3. Shipped' = Shipped
  BY DEF Shipped, Shipments
<1>4. ShippedIsIssued'
  BY <1>3 DEF QtyInv, ShippedIsIssued
<1>5. QED
  BY <1>1, <1>2, <1>4 DEF QtyInv

LEMMA UnpostedInt == ASSUME SiteTyped PROVE Sum(unposted) \in Int
<1>1. DOMAIN unposted = Series /\ \A s \in Series : unposted[s] \in Int
  BY DEF SiteTyped
<1>2. QED
  BY <1>1, ShippingAssumption, SumInt DEF Sum, SumFunction

\* Posting, thawing and counting keep the types of the site.
LEMMA PostTypes ==
    ASSUME SiteTyped, NEW s \in Series, PostItemlocSeries(s)
    PROVE  SiteTyped'
<1>1. unposted' = [unposted EXCEPT ![s] = 0] /\ unposted[s] \in Int
  BY DEF PostItemlocSeries, SiteTyped
<1>2. CASE itemsite.frozen
  BY <1>1, <1>2 DEF PostItemlocSeries, SiteTyped
<1>3. CASE ~itemsite.frozen
  BY <1>1, <1>3 DEF PostItemlocSeries, SiteTyped
<1>4. QED
  BY <1>2, <1>3

LEMMA ThawTypes ==
    ASSUME SiteTyped, NEW late \in Int, Thaw(late)
    PROVE  /\ itemsite' \in [qoh : Int, frozen : BOOLEAN]
           /\ unposted' \in [Series -> Int] /\ waiting' \in Int
BY UnpostedInt DEF Thaw, SiteTyped

LEMMA CountTypes ==
    ASSUME SiteTyped, NEW n \in Counts, NEW thaw \in BOOLEAN, PostCountTag(n, thaw)
    PROVE  SiteTyped'
<1> DEFINE difference == n - itemsite.qoh
<1>1. n \in Nat /\ difference \in Int
  BY ShippingAssumption DEF SiteTyped
<1>2. /\ \/ itemsite' = [itemsite EXCEPT !.qoh = n] /\ UNCHANGED <<unposted, waiting>>
         \/ Thaw(difference)
         \/ waiting' = waiting + difference /\ UNCHANGED <<itemsite, unposted>>
      /\ counted' \in -MaxCounted..MaxCounted /\ invcnt' = FALSE /\ todo' = todo
  BY DEF PostCountTag
<1> HIDE DEF difference
<1> SUFFICES /\ itemsite' \in [qoh : Int, frozen : BOOLEAN]
             /\ unposted' \in [Series -> Int] /\ waiting' \in Int
  BY <1>2 DEF SiteTyped
<1>3. CASE itemsite' = [itemsite EXCEPT !.qoh = n] /\ UNCHANGED <<unposted, waiting>>
  BY <1>1, <1>2, <1>3 DEF SiteTyped
<1>4. CASE Thaw(difference)
  BY <1>1, <1>2, <1>4, ThawTypes DEF SiteTyped
<1>5. CASE waiting' = waiting + difference /\ UNCHANGED <<itemsite, unposted>>
  BY <1>1, <1>2, <1>5 DEF SiteTyped
<1>6. QED
  BY <1>2, <1>3, <1>4, <1>5

LEMMA InitTypes == Init => QtyInv
<1> SUFFICES ASSUME Init PROVE QtyInv
  OBVIOUS
<1>1. ShipInv
  BY InitShip
<1>2. /\ coitem = [l \in Lines |-> [status |-> "O", shipped |-> 0, reserved |-> 0]]
      /\ shiphead = [s \in Shipments |-> "none"] /\ number = 0
      /\ shipitem = [l \in Lines |-> [i \in Slots |-> NoItem]]
      /\ itemsite = [qoh |-> Stock, frozen |-> FALSE]
      /\ unposted = [s \in Series |-> 0] /\ waiting = 0 /\ todo = {}
      /\ invcnt = FALSE /\ counted = 0
  BY DEF Init
<1>3. LinesTyped
  BY <1>2 DEF LinesTyped, LineType
<1>4. ItemsTyped
  BY <1>2 DEF ItemsTyped, ItemType, NoItem
<1>5. NumbersOK
  BY <1>2, ShippingAssumption DEF NumbersOK
<1>6. SiteTyped
  <2>1. counted \in -MaxCounted..MaxCounted
    BY <1>2, ShippingAssumption
  <2>2. itemsite \in [qoh : Int, frozen : BOOLEAN]
    BY <1>2, ShippingAssumption
  <2>3. unposted \in [Series -> Int] /\ waiting \in Int /\ todo \subseteq Series
    BY <1>2
  <2>4. QED
    BY <1>2, <2>1, <2>2, <2>3 DEF SiteTyped
<1>7. ShippedIsIssued
  <2>1. Shipped = {}
    BY <1>2 DEF Shipped
  <2>2. ASSUME NEW l \in Lines PROVE IssuedOf(shipitem, l, Shipped) = 0
    BY <2>1, SlotsFinite, SumZero DEF IssuedOf, QtyIn
  <2>3. QED
    BY <1>2, <2>2 DEF ShippedIsIssued
<1>8. QED
  BY <1>1, <1>3, <1>4, <1>5, <1>6, <1>7 DEF QtyInv

\* What both issues have in common.
LEMMA IssuesAre ==
    ASSUME QtyInv,
           \/ \E l \in Lines, n \in Quantities, s \in Series : IssueToShipping(l, n, s)
           \/ IssueAllBalanceToShipping
    PROVE  \E qty, series, order :
             /\ DOMAIN qty \subseteq Lines /\ DOMAIN qty # {}
             /\ \A l \in DOMAIN qty : qty[l] \in Nat /\ series[l] \in Series
             /\ DOMAIN series = DOMAIN qty
             /\ Issue(qty, series, order) /\ todo' \subseteq Series
<1>1. ASSUME NEW l \in Lines, NEW n \in Quantities, NEW s \in Series, IssueToShipping(l, n, s)
      PROVE  \E qty, series, order :
             /\ DOMAIN qty \subseteq Lines /\ DOMAIN qty # {}
             /\ \A m \in DOMAIN qty : qty[m] \in Nat /\ series[m] \in Series
             /\ DOMAIN series = DOMAIN qty
             /\ Issue(qty, series, order) /\ todo' \subseteq Series
  <2> DEFINE qty == [m \in {l} |-> n]
             series == [m \in {l} |-> s]
             order == [m \in {l} |-> 1]
  <2>1. Issue(qty, series, order) /\ todo' = todo \cup {s}
    BY <1>1, Zenon DEF IssueToShipping
  <2>2. todo' \subseteq Series
    BY <2>1 DEF QtyInv, SiteTyped
  <2>3. DOMAIN qty = {l} /\ qty[l] \in Nat /\ DOMAIN series = {l} /\ series[l] \in Series
    BY ShippingAssumption
  <2> HIDE DEF qty, series, order
  <2>4. QED
    BY <2>1, <2>2, <2>3
<1>2. ASSUME IssueAllBalanceToShipping
      PROVE  \E qty, series, order :
             /\ DOMAIN qty \subseteq Lines /\ DOMAIN qty # {}
             /\ \A m \in DOMAIN qty : qty[m] \in Nat /\ series[m] \in Series
             /\ DOMAIN series = DOMAIN qty
             /\ Issue(qty, series, order) /\ todo' \subseteq Series
  <2> DEFINE qty == [l \in ToIssue |-> Balance(l)]
             last(order) == {m \in ToIssue : order[m] = Cardinality(ToIssue)}
  <2>1. PICK order \in Orders(ToIssue), series \in [ToIssue -> FreeSeries] :
          Issue(qty, series, order) /\ todo' = todo \cup {series[l] : l \in last(order)}
    BY <1>2, Zenon DEF IssueAllBalanceToShipping
  <2>2. DOMAIN qty = ToIssue /\ ToIssue \subseteq Lines /\ ToIssue # {}
    BY <1>2 DEF IssueAllBalanceToShipping, ToIssue, OpenLines
  <2>3. \A l \in ToIssue : qty[l] \in Nat
    <3> SUFFICES ASSUME NEW l \in Lines PROVE Balance(l) \in Nat
      BY <2>2
    <3>1. QtyAtShipping(l) \in Nat
      <4>1. Issued(l, Open) = IssuedOf(shipitem, l, Open)
        BY IssuedAll DEF Issued, QtyInv, ItemsTyped
      <4>2. QED
        BY <4>1, QtyInNat DEF QtyAtShipping, QtyInv, ItemsTyped
    <3>2. Ordered[l] \in Nat /\ coitem[l].shipped \in Nat
      BY ShippingAssumption DEF QtyInv, LinesTyped, LineType
    <3>3. QED
      BY <3>1, <3>2 DEF Balance, NoNeg
  <2>4. FreeSeries \subseteq Series
    BY DEF FreeSeries
  <2>5. todo' \subseteq Series
    BY <2>1, <2>4 DEF QtyInv, SiteTyped
  <2> HIDE DEF qty
  <2>6. QED
    BY <2>1, <2>2, <2>3, <2>4, <2>5
<1>3. QED
  BY <1>1, <1>2

LEMMA NextTypes ==
    ASSUME QtyInv, [Next]_vars
    PROVE  QtyInv'
<1>1. CASE \/ \E l \in Lines, n \in Quantities, s \in Series : IssueToShipping(l, n, s)
           \/ IssueAllBalanceToShipping
  BY <1>1, IssuesAre, IssueTypes
<1>2. ASSUME NEW s \in Series, PostItemlocSeries(s) PROVE QtyInv'
  <2>1. UNCHANGED <<coitem, shiphead, number, shipitem>>
    BY <1>2 DEF PostItemlocSeries
  <2>2. SiteTyped'
    BY <1>2, PostTypes DEF QtyInv
  <2>3. QED
    BY <2>1, <2>2, AsideTypes DEF QtyInv, LinesTyped
<1>3. ASSUME NEW B, Return(B) PROVE QtyInv'
  BY <1>3, ReturnTypes
<1>4. ASSUME NEW s \in Shipments, ShipShipment(s) \/ RecallShipment(s) PROVE QtyInv'
  BY <1>4, ShipRecallTypes
<1>5. ASSUME NEW l \in Lines, NEW status \in {"O", "C", "X"}, SetStatus(l, status)
      PROVE  QtyInv'
  <2>1. /\ coitem' = [coitem EXCEPT ![l].status = status,
                                    ![l].reserved = IF status = "O" THEN @ ELSE 0]
        /\ UNCHANGED <<shiphead, number, shipitem>>
        /\ UNCHANGED <<itemsite, unposted, waiting, todo, invcnt, counted>>
    BY <1>5 DEF SetStatus
  <2>2. LinesTyped' /\ \A m \in Lines : coitem'[m].shipped = coitem[m].shipped
    BY <2>1 DEF QtyInv, LinesTyped, LineType
  <2>3. SiteTyped'
    BY <2>1 DEF QtyInv, SiteTyped
  <2>4. QED
    BY <2>1, <2>2, <2>3, AsideTypes
<1>6. ASSUME NEW l \in Lines, NEW n \in Reservations, Reserve(l, n) PROVE QtyInv'
  <2>1. /\ coitem' = [coitem EXCEPT ![l].reserved = @ + n] /\ n \in Nat
        /\ UNCHANGED <<shiphead, number, shipitem>>
        /\ UNCHANGED <<itemsite, unposted, waiting, todo, invcnt, counted>>
    BY <1>6, ShippingAssumption DEF Reserve
  <2>2. LinesTyped' /\ \A m \in Lines : coitem'[m].shipped = coitem[m].shipped
    BY <2>1 DEF QtyInv, LinesTyped, LineType
  <2>3. SiteTyped'
    BY <2>1 DEF QtyInv, SiteTyped
  <2>4. QED
    BY <2>1, <2>2, <2>3, AsideTypes
<1>7. ASSUME NEW freeze \in BOOLEAN, CreateCountTag(freeze) PROVE QtyInv'
  <2>1. /\ UNCHANGED <<coitem, shiphead, number, shipitem, unposted, waiting, todo, counted>>
        /\ itemsite' = [itemsite EXCEPT !.frozen = @ \/ freeze] /\ invcnt' = TRUE
    BY <1>7 DEF CreateCountTag
  <2>2. itemsite' \in [qoh : Int, frozen : BOOLEAN]
    BY <2>1 DEF QtyInv, SiteTyped
  <2>3. SiteTyped'
    BY <2>1, <2>2 DEF QtyInv, SiteTyped
  <2>4. QED
    BY <2>1, <2>3, AsideTypes DEF QtyInv, LinesTyped
<1>8. CASE ThawItemSite
  <2>1. /\ UNCHANGED <<coitem, shiphead, number, shipitem, todo, invcnt, counted>>
        /\ Thaw(0)
    BY <1>8 DEF ThawItemSite
  <2>2. SiteTyped'
    BY <2>1, ThawTypes DEF QtyInv, SiteTyped
  <2>3. QED
    BY <2>1, <2>2, AsideTypes DEF QtyInv, LinesTyped
<1>9. ASSUME NEW n \in Counts, NEW thaw \in BOOLEAN, PostCountTag(n, thaw) PROVE QtyInv'
  <2>1. UNCHANGED <<coitem, shiphead, number, shipitem>>
    BY <1>9 DEF PostCountTag
  <2>2. SiteTyped'
    BY <1>9, CountTypes DEF QtyInv
  <2>3. QED
    BY <2>1, <2>2, AsideTypes DEF QtyInv, LinesTyped
<1>10. CASE UNCHANGED vars
  BY <1>10, AsideTypes DEF vars, QtyInv, LinesTyped, SiteTyped
<1>11. QED
  BY <1>1, <1>2, <1>3, <1>4, <1>5, <1>6, <1>7, <1>8, <1>9, <1>10
     DEF Next, ReturnShipmentTransaction, ReturnItemShipments, ReturnCompleteShipment

\* The inductive invariant of the types, for the theorems below.
LEMMA QtyInvHolds == Spec => []QtyInv
<1>1. QtyInv /\ [Next]_vars => QtyInv'
  BY NextTypes
<1>2. QED
  BY <1>1, InitTypes, PTL DEF Spec

\* No sum of the issues, returns, reservations, recalls and counts leaves its type:
\* what is shipped and reserved of a line never becomes negative, no item holds a
\* reservation larger than itself, and no shipment has a number that was not fetched.
THEOREM TypeOKHolds == Spec => []TypeOK
<1>1. QtyInv => TypeOK
  BY DEF QtyInv, ShipInv, HeadsOK, LinesTyped, ItemsTyped, NumbersOK, SiteTyped, TypeOK
<1>2. QED
  BY <1>1, QtyInvHolds, PTL

-----------------------------------------------------------------------------
(* The stock account.                                                      *)

AtShipping == [l \in Lines |-> QtyAtShipping(l)]

\* The account's sums are the module's.
LEMMA AccountSum == ASSUME NEW f PROVE Account!SumFunction(f) = SumFunction(f)
BY DEF SumFunction, SumFunctionOnSet, FoldFunctionOnSet, MapThenFoldSet,
       Account!SumFunction, Account!SumFunctionOnSet, Account!FoldFunctionOnSet,
       Account!MapThenFoldSet

\* What is at shipping for a line and in all, before and after a step.
LEMMA AtShippingIs ==
    ASSUME ItemsTyped
    PROVE  /\ \A l \in Lines : QtyAtShipping(l) = IssuedOf(shipitem, l, Open)
           /\ \A l \in Lines : AtShipping[l] \in Nat /\ AtShipping[l] = IssuedOf(shipitem, l, Open)
           /\ DOMAIN AtShipping = Lines
<1>1. shipitem \in [Lines -> [Slots -> ItemType]]
  BY DEF ItemsTyped
<1>2. \A l \in Lines : Issued(l, Open) = IssuedOf(shipitem, l, Open)
  BY <1>1, IssuedAll DEF Issued
<1>3. QED
  BY <1>1, <1>2, QtyInNat DEF QtyAtShipping, AtShipping

LEMMA AtShippingNext ==
    ASSUME ItemsTyped'
    PROVE  /\ \A l \in Lines : QtyAtShipping(l)' = IssuedOf(shipitem', l, Open')
           /\ \A l \in Lines :
                AtShipping'[l] \in Nat /\ AtShipping'[l] = IssuedOf(shipitem', l, Open')
           /\ DOMAIN (AtShipping') = Lines
<1>1. shipitem' \in [Lines -> [Slots -> ItemType]]
  BY DEF ItemsTyped, ItemType, Slots, Shipments
<1>2. \A l \in Lines : Issued(l, Open)' = IssuedOf(shipitem', l, Open')
  BY <1>1, IssuedAll DEF Issued
<1>3. QED
  BY <1>1, <1>2, QtyInNat DEF QtyAtShipping, AtShipping

\* The site's history, as a sum over the series.
LEMMA StockIs ==
    /\ SiteTyped => InStock = itemsite.qoh + waiting + SumFunctionOnSet(unposted, Series)
    /\ SiteTyped' =>
         InStock' = itemsite'.qoh + waiting' + SumFunctionOnSet(unposted', Series)
BY DEF InStock, SiteTyped, Sum, SumFunction

\* What a series gives up for the lines issued in it comes, over all series, to
\* what is issued.
LEMMA IssuedForAll ==
    ASSUME NEW qty, NEW series, DOMAIN qty \subseteq Lines,
           \A l \in DOMAIN qty : qty[l] \in Nat /\ series[l] \in Series
    PROVE  /\ \A s \in Series : IssuedFor(qty, series, s) \in Int
           /\ SumFunctionOnSet([s \in Series |-> IssuedFor(qty, series, s)], Series)
                = SumFunctionOnSet(qty, DOMAIN qty)
<1> DEFINE D == DOMAIN qty
           e == [s \in Series |-> IssuedFor(qty, series, s)]
<1>1. IsFiniteSet(D) /\ IsFiniteSet(Series)
  BY ShippingAssumption, FS_Subset
<1>2. ASSUME NEW s \in Series
      PROVE  /\ IssuedFor(qty, series, s) \in Int
             /\ IssuedFor(qty, series, s) = SumFunctionOnSet(qty, {l \in D : series[l] = s})
  <2> DEFINE f == [l \in D |-> IF series[l] = s THEN qty[l] ELSE 0]
             T == {l \in D : series[l] = s}
  <2>1. /\ T \in SUBSET D /\ \A l \in T : qty[l] \in Int /\ f[l] = qty[l]
        /\ \A l \in D \ T : f[l] = 0
        /\ \A l \in D : f[l] \in Int
    OBVIOUS
  <2> HIDE DEF f, T, D
  <2>2. SumFunctionOnSet(f, D) = SumFunctionOnSet(qty, T) /\ SumFunctionOnSet(f, D) \in Int
    BY <1>1, <2>1, SumOfSome, SumInt
  <2>3. QED
    BY <2>2 DEF IssuedFor, f, T, D
<1>3. \A s \in Series : e[s] = SumFunctionOnSet(qty, {l \in D : series[l] = s})
  BY <1>2
<1>4. \A l \in D : qty[l] \in Int /\ series[l] \in Series
  OBVIOUS
<1> HIDE DEF e, D
<1>5. SumFunctionOnSet(qty, D) = SumFunctionOnSet(e, Series)
  <2> DEFINE part == [s \in Series |-> {l \in D : series[l] = s}]
  <2>1. \A s \in Series : part[s] = {l \in D : series[l] = s}
    OBVIOUS
  <2>2. \A s \in Series : e[s] = SumFunctionOnSet(qty, part[s])
    BY <1>3, <2>1
  <2> HIDE DEF part
  <2>3. QED
    BY <1>1, <1>4, <2>1, <2>2, SumOfParts
<1>6. QED
  BY <1>2, <1>5 DEF e, D

\* Issuing moves stock from the site to shipping.
LEMMA IssueMoves ==
    ASSUME QtyInv, QtyInv', NEW qty, NEW series, NEW order,
           DOMAIN qty \subseteq Lines, DOMAIN qty # {}, DOMAIN series = DOMAIN qty,
           \A l \in DOMAIN qty : qty[l] \in Nat /\ series[l] \in Series,
           Issue(qty, series, order)
    PROVE  Account!Transfer
<1> DEFINE D == DOMAIN qty
           e == [s \in Series |-> IssuedFor(qty, series, s)]
           q == [l \in Lines |-> IF l \in D THEN qty[l] ELSE 0]
<1>1. IsFiniteSet(Lines) /\ IsFiniteSet(Series) /\ IsFiniteSet(D)
  BY ShippingAssumption, FS_Subset
<1>2. SumFunctionOnSet(unposted, Series)
        = SumFunctionOnSet(unposted', Series) + SumFunctionOnSet(e, Series)
  <2>1. unposted' = [s \in Series |-> IF s \notin Range(series) THEN unposted[s]
                                      ELSE unposted[s] - IssuedFor(qty, series, s)]
    BY DEF Issue, IssuedFor, Sum, SumFunction
  <2>2. \A s \in Series : s \notin Range(series) => IssuedFor(qty, series, s) = 0
    <3> SUFFICES ASSUME NEW s \in Series, s \notin Range(series)
                 PROVE  IssuedFor(qty, series, s) = 0
      OBVIOUS
    <3> DEFINE f == [l \in D |-> IF series[l] = s THEN qty[l] ELSE 0]
    <3>1. \A l \in D : f[l] = 0
      BY DEF Range
    <3> HIDE DEF f
    <3>2. SumFunctionOnSet(f, D) = 0
      BY <1>1, <3>1, SumZero
    <3>3. QED
      BY <3>2 DEF IssuedFor, f
  <2>3. \A s \in Series : /\ unposted'[s] \in Int /\ e[s] \in Int
                          /\ unposted[s] = unposted'[s] + e[s]
    <3>1. \A s \in Series : unposted[s] \in Int /\ IssuedFor(qty, series, s) \in Int
      BY IssuedForAll DEF QtyInv, SiteTyped
    <3>2. \A s \in Series : unposted'[s] = unposted[s] - e[s]
      BY <2>1, <2>2, <3>1
    <3>3. QED
      BY <3>1, <3>2
  <2> HIDE DEF e
  <2>4. QED
    BY <1>1, <2>3, SumPlus
<1>3. SumFunctionOnSet(AtShipping', Lines)
        = SumFunctionOnSet(AtShipping, Lines) + SumFunctionOnSet(q, Lines)
  <2>1. \A l \in Lines : IssuedOf(shipitem', l, Open') =
          IssuedOf(shipitem, l, Open) + (IF l \in DOMAIN qty THEN qty[l] ELSE 0)
    BY IssueCounts
  <2>2. \A l \in Lines : /\ AtShipping[l] \in Int /\ q[l] \in Int
                         /\ AtShipping'[l] = AtShipping[l] + q[l]
    BY <2>1, AtShippingIs, AtShippingNext DEF QtyInv
  <2> HIDE DEF q
  <2>3. QED
    BY <1>1, <2>2, SumPlus
<1>4. SumFunctionOnSet(q, Lines) = SumFunctionOnSet(qty, D)
  <2>1. /\ D \in SUBSET Lines /\ \A l \in D : qty[l] \in Int /\ q[l] = qty[l]
        /\ \A l \in Lines \ D : q[l] = 0
    OBVIOUS
  <2> HIDE DEF q, D
  <2>2. QED
    BY <1>1, <2>1, SumOfSome
<1>5. SumFunctionOnSet(e, Series) = SumFunctionOnSet(qty, D)
  BY IssuedForAll
<1>6. SumFunctionOnSet(qty, D) \in Int
  BY <1>1, SumInt
<1> HIDE DEF e, q, D
<1>7. InStock' + SumFunctionOnSet(AtShipping', Lines)
        = InStock + SumFunctionOnSet(AtShipping, Lines)
  <2>1. /\ SumFunctionOnSet(unposted', Series) \in Int
        /\ SumFunctionOnSet(AtShipping, Lines) \in Int
        /\ itemsite.qoh \in Int /\ waiting \in Int
    BY <1>1, AtShippingIs, SumInt DEF QtyInv, SiteTyped
  <2>2. UNCHANGED <<itemsite, waiting>>
    BY DEF Issue
  <2>3. /\ InStock = itemsite.qoh + waiting + SumFunctionOnSet(unposted, Series)
        /\ InStock' = itemsite.qoh + waiting + SumFunctionOnSet(unposted', Series)
    BY <2>2, StockIs DEF QtyInv
  <2>4. QED
    BY <1>2, <1>3, <1>4, <1>5, <1>6, <2>1, <2>3
<1>8. /\ counted' = counted
      /\ [l \in Lines |-> coitem[l].shipped]' = [l \in Lines |-> coitem[l].shipped]
  <2>1. \A l \in Lines : coitem'[l].shipped = coitem[l].shipped
    BY DEF Issue, QtyInv, LinesTyped, LineType
  <2>2. QED
    BY <2>1 DEF Issue
<1>9. /\ SumFunction(AtShipping) = SumFunctionOnSet(AtShipping, Lines)
      /\ SumFunction(AtShipping') = SumFunctionOnSet(AtShipping', Lines)
  BY AtShippingIs, AtShippingNext DEF QtyInv, SumFunction
<1>10. QED
  BY <1>7, <1>8, <1>9, AccountSum DEF Account!Transfer, AtShipping

\* A return moves stock from shipping to the site.
LEMMA ReturnMoves ==
    ASSUME QtyInv, QtyInv', NEW B, Return(B)
    PROVE  Account!Transfer
<1> DEFINE q == [b \in B |-> At(b).qty]
           key == [b \in B |-> b[1]]
           part == [l \in Lines |-> {b \in B : b[1] = l}]
           back == [l \in Lines |-> BackOf(B, l)]
<1>1. IsFiniteSet(Lines) /\ IsFiniteSet(Series) /\ IsFiniteSet(B)
  BY ShippingAssumption, ReturnFinite DEF QtyInv
<1>2. \A l \in Lines : BackOf(B, l) \in Nat
  BY BackBySlot DEF QtyInv
<1>3. SumFunctionOnSet(q, B) = SumFunctionOnSet(back, Lines)
  <2>1. \A b \in B : q[b] \in Int /\ key[b] \in Lines
    BY ReturnFinite DEF QtyInv
  <2>2. \A l \in Lines : part[l] = {b \in B : key[b] = l}
    OBVIOUS
  <2>3. \A l \in Lines : back[l] = SumFunctionOnSet(q, part[l])
    BY DEF BackOf
  <2> HIDE DEF q, key, part, back
  <2>4. QED
    BY <1>1, <2>1, <2>2, <2>3, SumOfParts
<1>4. SumFunctionOnSet(AtShipping, Lines)
        = SumFunctionOnSet(AtShipping', Lines) + SumFunctionOnSet(back, Lines)
  <2>1. \A l \in Lines : /\ AtShipping'[l] \in Int /\ back[l] \in Int
                         /\ AtShipping[l] = AtShipping'[l] + back[l]
    <3>1. \A l \in Lines :
            IssuedOf(shipitem, l, Open) = IssuedOf(shipitem', l, Open') + BackOf(B, l)
      BY ReturnCounts
    <3>2. QED
      BY <1>2, <3>1, AtShippingIs, AtShippingNext DEF QtyInv
  <2> HIDE DEF back
  <2>2. QED
    BY <1>1, <2>1, SumPlus
<1>5. SumFunctionOnSet(q, B) = Back(B) /\ Back(B) \in Nat
  BY ReturnFinite, SumNat DEF Back, QtyInv
<1> HIDE DEF q, key, part, back
<1>6. InStock' = InStock + Back(B)
  <2>1. /\ itemsite.qoh \in Int /\ waiting \in Int /\ DOMAIN itemsite = {"qoh", "frozen"}
        /\ SumFunctionOnSet(unposted, Series) \in Int
    BY <1>1, SumInt DEF QtyInv, SiteTyped
  <2>2. /\ InStock = itemsite.qoh + waiting + SumFunctionOnSet(unposted, Series)
        /\ InStock' = itemsite'.qoh + waiting' + SumFunctionOnSet(unposted', Series)
    BY StockIs DEF QtyInv
  <2>3. unposted' = unposted
    BY DEF Return
  <2>4. itemsite'.qoh + waiting' = itemsite.qoh + waiting + Back(B)
    BY <1>5, <2>1, ReturnSite
  <2>5. itemsite'.qoh \in Int /\ waiting' \in Int
    BY DEF QtyInv, SiteTyped
  <2>6. QED
    BY <1>5, <2>1, <2>2, <2>3, <2>4, <2>5
<1>7. InStock' + SumFunctionOnSet(AtShipping', Lines)
        = InStock + SumFunctionOnSet(AtShipping, Lines)
  <2>1. /\ SumFunctionOnSet(AtShipping', Lines) \in Int
        /\ InStock \in Int
    <3>1. SumFunctionOnSet(AtShipping', Lines) \in Int
      BY <1>1, AtShippingNext, SumInt DEF QtyInv
    <3>2. InStock \in Int
      BY UnpostedInt DEF InStock, QtyInv, SiteTyped
    <3>3. QED
      BY <3>1, <3>2
  <2>2. QED
    BY <1>3, <1>4, <1>5, <1>6, <2>1
<1>8. /\ counted' = counted
      /\ [l \in Lines |-> coitem[l].shipped]' = [l \in Lines |-> coitem[l].shipped]
  <2>1. \A l \in Lines : coitem'[l].shipped = coitem[l].shipped
    <3> DEFINE more(l) == Sum([b \in {b \in B : b[1] = l} |-> At(b).rsrv])
    <3>1. coitem' = [l \in Lines |-> [coitem[l] EXCEPT !.reserved = @ + more(l)]]
      BY Zenon DEF Return
    <3> HIDE DEF more
    <3>2. QED
      BY <3>1 DEF QtyInv, LinesTyped, LineType
  <2>2. QED
    BY <2>1 DEF Return
<1>9. /\ SumFunction(AtShipping) = SumFunctionOnSet(AtShipping, Lines)
      /\ SumFunction(AtShipping') = SumFunctionOnSet(AtShipping', Lines)
  BY AtShippingIs, AtShippingNext DEF QtyInv, SumFunction
<1>10. QED
  BY <1>7, <1>8, <1>9, AccountSum DEF Account!Transfer, AtShipping

\* Shipping and recalling move stock between shipping and the customer.
LEMMA ShipMoves ==
    ASSUME QtyInv, QtyInv', NEW s \in Shipments, ShipShipment(s) \/ RecallShipment(s)
    PROVE  Account!Deliver
<1>1. InStock' = InStock /\ counted' = counted
  BY DEF ShipShipment, RecallShipment, InStock
<1>2. ASSUME NEW l \in Lines
      PROVE  QtyAtShipping(l)' + coitem'[l].shipped = QtyAtShipping(l) + coitem[l].shipped
  <2>1. /\ QtyAtShipping(l) = IssuedOf(shipitem, l, Open)
        /\ QtyAtShipping(l)' = IssuedOf(shipitem', l, Open')
        /\ IssuedOf(shipitem, l, Open) \in Nat /\ IssuedOf(shipitem', l, Open') \in Nat
    BY AtShippingIs, AtShippingNext DEF QtyInv
  <2>2. coitem[l].shipped \in Nat
    BY DEF QtyInv, LinesTyped, LineType
  <2>3. CASE ShipShipment(s)
    <3>1. /\ IssuedOf(shipitem, l, {s}) \in Nat
          /\ coitem'[l].shipped = coitem[l].shipped + IssuedOf(shipitem, l, {s})
          /\ IssuedOf(shipitem, l, Open) =
               IssuedOf(shipitem', l, Open') + IssuedOf(shipitem, l, {s})
      BY <2>3, ShipCounts
    <3>2. QED
      BY <2>1, <2>2, <3>1
  <2>4. CASE RecallShipment(s)
    <3>1. /\ IssuedOf(shipitem, l, {s}) \in Nat
          /\ coitem'[l].shipped = coitem[l].shipped - IssuedOf(shipitem, l, {s})
          /\ IssuedOf(shipitem', l, Open') =
               IssuedOf(shipitem, l, Open) + IssuedOf(shipitem, l, {s})
      BY <2>4, RecallCounts
    <3>2. QED
      BY <2>1, <2>2, <3>1
  <2>5. QED
    BY <2>3, <2>4
<1>3. QED
  BY <1>1, <1>2 DEF Account!Deliver

\* Steps that leave lines, shipments and items alone leave what is at shipping and
\* delivered alone.
LEMMA AsideAccount ==
    ASSUME UNCHANGED <<shiphead, shipitem>>,
           \A l \in Lines : coitem'[l].shipped = coitem[l].shipped
    PROVE  /\ [l \in Lines |-> QtyAtShipping(l)]' = [l \in Lines |-> QtyAtShipping(l)]
           /\ [l \in Lines |-> coitem[l].shipped]' = [l \in Lines |-> coitem[l].shipped]
<1>1. \A l \in Lines : QtyAtShipping(l)' = QtyAtShipping(l)
  BY DEF QtyAtShipping, Issued, Open
<1>2. QED
  BY <1>1

\* Posting a series only moves its history into the quantity on hand.
LEMMA PostKeepsStock ==
    ASSUME QtyInv, QtyInv', NEW s \in Series, PostItemlocSeries(s)
    PROVE  InStock' = InStock
<1>1. unposted' = [unposted EXCEPT ![s] = 0] /\ unposted \in [Series -> Int]
  BY DEF PostItemlocSeries, QtyInv, SiteTyped
<1>2. SumFunctionOnSet(unposted', Series)
        = SumFunctionOnSet(unposted, Series) + unposted'[s] - unposted[s]
  <2>1. /\ \A t \in Series : unposted[t] \in Int /\ unposted'[t] \in Int
        /\ \A t \in Series \ {s} : unposted'[t] = unposted[t]
    BY <1>1
  <2>2. IsFiniteSet(Series)
    BY ShippingAssumption
  <2>3. QED
    BY <2>1, <2>2, SumChanged
<1>3. itemsite'.qoh + waiting' = itemsite.qoh + waiting + unposted[s]
  BY <1>1 DEF PostItemlocSeries, QtyInv, SiteTyped
<1>4. /\ itemsite.qoh \in Int /\ waiting \in Int /\ unposted[s] \in Int
      /\ itemsite'.qoh \in Int /\ waiting' \in Int /\ unposted'[s] = 0
      /\ SumFunctionOnSet(unposted, Series) \in Int
  BY <1>1, ShippingAssumption, SumInt DEF QtyInv, SiteTyped
<1>5. QED
  BY <1>2, <1>3, <1>4, StockIs DEF QtyInv

\* A thaw moves all history into the quantity on hand.
LEMMA ThawStock ==
    ASSUME QtyInv, QtyInv', NEW late \in Int, Thaw(late)
    PROVE  InStock' = InStock + late
<1>1. /\ itemsite'.qoh = itemsite.qoh + waiting + late + Sum(unposted)
      /\ waiting' = 0 /\ unposted' = [s \in Series |-> 0]
  BY DEF Thaw
<1>2. SumFunctionOnSet(unposted', Series) = 0
  BY <1>1, ShippingAssumption, SumZero
<1>3. itemsite.qoh \in Int /\ waiting \in Int /\ Sum(unposted) \in Int
  BY UnpostedInt DEF QtyInv, SiteTyped
<1>4. QED
  BY <1>1, <1>2, <1>3, StockIs DEF QtyInv, InStock

\* A count adds its difference to the site.
LEMMA CountMoves ==
    ASSUME QtyInv, QtyInv', NEW n \in Counts, NEW thaw \in BOOLEAN, PostCountTag(n, thaw)
    PROVE  Account!Count
<1> DEFINE difference == n - itemsite.qoh
<1>1. n \in Nat /\ difference \in Int /\ counted \in Int /\ InStock \in Int
  BY ShippingAssumption, UnpostedInt DEF QtyInv, SiteTyped, InStock
<1>2. /\ \/ itemsite' = [itemsite EXCEPT !.qoh = n] /\ UNCHANGED <<unposted, waiting>>
         \/ Thaw(difference)
         \/ waiting' = waiting + difference /\ UNCHANGED <<itemsite, unposted>>
      /\ counted' = counted + difference
      /\ UNCHANGED <<coitem, shiphead, shipitem>>
  BY DEF PostCountTag
<1>3. InStock' = InStock + difference
  <2>1. itemsite.qoh \in Int /\ waiting \in Int /\ Sum(unposted) \in Int
    BY UnpostedInt DEF QtyInv, SiteTyped
  <2>2. CASE itemsite' = [itemsite EXCEPT !.qoh = n] /\ UNCHANGED <<unposted, waiting>>
    <3>1. itemsite'.qoh = n
      BY <2>2 DEF QtyInv, SiteTyped
    <3>2. InStock' = n + waiting + Sum(unposted)
      BY <2>2, <3>1 DEF InStock
    <3>3. QED
      BY <1>1, <2>1, <3>2 DEF InStock
  <2>3. CASE Thaw(difference)
    BY <1>1, <2>3, ThawStock
  <2>4. CASE waiting' = waiting + difference /\ UNCHANGED <<itemsite, unposted>>
    <3>1. InStock' = itemsite.qoh + (waiting + difference) + Sum(unposted)
      BY <2>4 DEF InStock
    <3>2. QED
      BY <1>1, <2>1, <3>1 DEF InStock
  <2>5. QED
    BY <1>2, <2>2, <2>3, <2>4
<1> HIDE DEF difference
<1>4. InStock' - InStock = counted' - counted
  BY <1>1, <1>2, <1>3
<1>5. QED
  BY <1>2, <1>4, AsideAccount DEF Account!Count

LEMMA InitAccount == Init => Account!Init
<1> SUFFICES ASSUME Init PROVE Account!Init
  OBVIOUS
<1>1. QtyInv
  BY InitTypes
<1>2. InStock = Stock
  <2>1. SumFunctionOnSet(unposted, Series) = 0
    BY ShippingAssumption, SumZero DEF Init
  <2>2. itemsite.qoh = Stock /\ waiting = 0 /\ Stock \in Int
    BY ShippingAssumption DEF Init
  <2>3. QED
    BY <1>1, <2>1, <2>2, StockIs DEF QtyInv
<1>3. \A l \in Lines : QtyAtShipping(l) = 0
  <2>1. Open = {}
    BY DEF Init, Open
  <2>2. \A l \in Lines : IssuedOf(shipitem, l, Open) = 0
    BY <2>1, SlotsFinite, SumZero DEF IssuedOf, QtyIn
  <2>3. QED
    BY <1>1, <2>2, AtShippingIs DEF QtyInv
<1>4. \A l \in Lines : coitem[l].shipped = 0
  BY DEF Init
<1>5. counted = 0
  BY DEF Init
<1>6. QED
  BY <1>2, <1>3, <1>4, <1>5 DEF Account!Init

LEMMA NextAccount ==
    ASSUME QtyInv, QtyInv', [Next]_vars
    PROVE  [Account!Next]_(Account!stockVars)
<1> DEFINE Stays == /\ InStock' = InStock /\ counted' = counted
                    /\ UNCHANGED <<shiphead, shipitem>>
                    /\ \A l \in Lines : coitem'[l].shipped = coitem[l].shipped
<1>0. Stays => UNCHANGED (Account!stockVars)
  <2>1. SUFFICES ASSUME Stays PROVE UNCHANGED (Account!stockVars)
    OBVIOUS
  <2>2. QED
    BY <2>1, AsideAccount DEF Account!stockVars
<1>1. CASE \/ \E l \in Lines, n \in Quantities, s \in Series : IssueToShipping(l, n, s)
           \/ IssueAllBalanceToShipping
  BY <1>1, IssuesAre, IssueMoves DEF Account!Next
<1>2. ASSUME NEW s \in Series, PostItemlocSeries(s) PROVE Stays
  BY <1>2, PostKeepsStock DEF PostItemlocSeries
<1>3. ASSUME NEW B, Return(B) PROVE Account!Next
  BY <1>3, ReturnMoves DEF Account!Next
<1>4. ASSUME NEW s \in Shipments, ShipShipment(s) \/ RecallShipment(s) PROVE Account!Next
  BY <1>4, ShipMoves DEF Account!Next
<1>5. ASSUME NEW l \in Lines, NEW status, SetStatus(l, status) PROVE Stays
  BY <1>5 DEF SetStatus, InStock, QtyInv, LinesTyped, LineType
<1>6. ASSUME NEW l \in Lines, NEW n, Reserve(l, n) PROVE Stays
  BY <1>6 DEF Reserve, InStock, QtyInv, LinesTyped, LineType
<1>7. ASSUME NEW freeze, CreateCountTag(freeze) PROVE Stays
  BY <1>7 DEF CreateCountTag, InStock, QtyInv, SiteTyped
<1>8. CASE ThawItemSite
  <2>1. InStock' = InStock + 0 /\ InStock \in Int
    BY <1>8, ThawStock, UnpostedInt DEF ThawItemSite, InStock, QtyInv, SiteTyped
  <2>2. Stays
    BY <1>8, <2>1 DEF ThawItemSite
  <2>3. QED
    BY <1>0, <2>2
<1>9. ASSUME NEW n \in Counts, NEW thaw \in BOOLEAN, PostCountTag(n, thaw) PROVE Account!Next
  BY <1>9, CountMoves DEF Account!Next
<1>10. CASE UNCHANGED vars
  <2>1. Stays
    BY <1>10 DEF vars, InStock
  <2>2. QED
    BY <1>0, <2>1
<1> HIDE DEF Stays
<1>11. QED
  BY <1>0, <1>1, <1>2, <1>3, <1>4, <1>5, <1>6, <1>7, <1>8, <1>9, <1>10
     DEF Next, ReturnShipmentTransaction, ReturnItemShipments, ReturnCompleteShipment

\* Shipping implements the stock account: through issues, returns, shipments and
\* recalls, through series posted, frozen, thawed or never posted, no unit of the
\* item appears or vanishes but by a count.
THEOREM StockKeptHolds == Spec => StockKept
<1>1. Init => Account!Init
  BY InitAccount
<1>2. QtyInv /\ QtyInv' /\ [Next]_vars => [Account!Next]_(Account!stockVars)
  BY NextAccount
<1>3. QED
  BY <1>1, <1>2, QtyInvHolds, PTL DEF Spec, StockKept, Account!Spec

=============================================================================
