------------------------------ MODULE Shipping ------------------------------
(***************************************************************************)
(* One sales order for a stocked item of one site: its lines are issued to  *)
(* shipping, returned, shipped and recalled while the site is frozen,       *)
(* counted and thawed.  Reservations are enabled and not required; units    *)
(* are those of the item; the cost is standard, so that quantities say all; *)
(* no holds, kits, job items, lots and locations; nothing is selected for   *)
(* billing while it is shipped and recalled.                                *)
(*                                                                         *)
(* A procedure is one transaction and one step.  Inventory transactions     *)
(* belong to a series, and the quantity on hand shows them only when a      *)
(* caller posts the series, in a transaction of its own.  An exception      *)
(* leaves no trace: the action is not enabled.                              *)
(***************************************************************************)
EXTENDS Integers, FiniteSets, Functions

CONSTANTS
    Lines,         \* lines of the order
    Ordered,       \* quantity ordered of a line
    Stock,         \* quantity on hand at first
    Quantities,    \* quantities issued by hand
    Reservations,  \* quantities reserved by hand
    Counts,        \* quantities counted
    Freezing,      \* sites may be frozen for a count
    OwnSeries,     \* issueAllBalanceToShipping is given a series by its caller
    Series,        \* ids of series; those without history are used again
    MaxItems,      \* bound: shipitems
    MaxShipments,  \* bound: shipment numbers
    MaxCounted     \* bound: what the counts come to

ASSUME ShippingAssumption ==
    /\ IsFiniteSet(Lines) /\ Ordered \in [Lines -> Nat \ {0}]
    /\ Stock \in Nat /\ Quantities \subseteq Nat \ {0} /\ Counts \subseteq Nat
    /\ Reservations \subseteq Nat \ {0}
    /\ Freezing \in BOOLEAN /\ OwnSeries \in BOOLEAN
    /\ IsFiniteSet(Series)
    /\ MaxItems \in Nat /\ MaxShipments \in Nat /\ MaxCounted \in Nat

VARIABLES
    coitem,    \* lines: status, quantity shipped, quantity reserved
    shiphead,  \* shipments by number: "none", "open" or "shipped"
    number,    \* the last shipment number fetched
    shipitem,  \* what was issued of a line: shipment (0 for none), quantity, reservation
    itemsite,  \* quantity on hand, frozen or not
    unposted,  \* sum of the history of a series that no posting of it has met
    waiting,   \* sum of the unposted history that is in none of these series
    todo,      \* series that a caller has been told to post
    invcnt,    \* there is a count tag
    counted    \* history: what the counts have added

vars == <<coitem, shiphead, number, shipitem, itemsite, unposted, waiting, todo, invcnt,
          counted>>

Shipments == 1..MaxShipments
Slots == 1..MaxItems
NoItem == [ship |-> 0, qty |-> 0, rsrv |-> 0]

Sum(f) == SumFunction(f)
Least(S) == CHOOSE n \in S : \A m \in S : n <= m
NoNeg(n) == IF n > 0 THEN n ELSE 0

Open == {s \in Shipments : shiphead[s] = "open"}

\* What is issued of line l and in the shipments S.
Issued(l, S) == Sum([i \in {i \in Slots : shipitem[l][i].ship \in S} |-> shipitem[l][i].qty])
QtyAtShipping(l) == Issued(l, Open)
QtyReserved(co) == Sum([l \in Lines |-> co[l].reserved])
Balance(l) == NoNeg(Ordered[l] - coitem[l].shipped - QtyAtShipping(l))

\* What is at the site, whether its history is posted or not.
InStock == itemsite.qoh + waiting + Sum(unposted)

OpenLines == {l \in Lines : coitem[l].status = "O"}
FreeSlot(l) == CHOOSE i \in Slots : shipitem[l][i].ship = 0
Items == {b \in Lines \X Slots : shipitem[b[1]][b[2]].ship # 0}
FreeSeries == {s \in Series : unposted[s] = 0 /\ s \notin todo}

\* An order in which a set is gone through, whichever the database chooses.
Orders(S) == Bijection(S, 1..Cardinality(S))

-----------------------------------------------------------------------------
(* Issuing.                                                                *)

\* The shipment the issues join: the open one with the lowest number or a new one.
Target == IF Open # {} THEN Least(Open) ELSE number + 1

\* After the lines up to l in the order have given up what was reserved for them,
\* the quantity on hand, which shows none of the issues yet, must cover the issue
\* of l and what is reserved.
StockSuffices(qty, order) ==
    \A l \in DOMAIN qty :
        itemsite.qoh - qty[l] >=
          Sum([m \in Lines |->
                 IF m \in DOMAIN qty /\ order[m] <= order[l]
                 THEN NoNeg(coitem[m].reserved - qty[m]) ELSE coitem[m].reserved])

\* The quantities qty of lines are issued, each with its series.
Issue(qty, series, order) ==
    /\ StockSuffices(qty, order)
    /\ Target \in Shipments
    /\ Cardinality(Items) + Cardinality(DOMAIN qty) <= MaxItems
    /\ shiphead' = [shiphead EXCEPT ![Target] = "open"]
    /\ number' = IF Open # {} THEN number ELSE number + 1
    /\ shipitem' = [l \in Lines |->
         IF l \notin DOMAIN qty THEN shipitem[l]
         ELSE [shipitem[l] EXCEPT ![FreeSlot(l)] =
                 [ship |-> Target, qty |-> qty[l],
                  rsrv |-> IF qty[l] < coitem[l].reserved THEN qty[l] ELSE coitem[l].reserved]]]
    /\ coitem' = [l \in Lines |->
         IF l \notin DOMAIN qty THEN coitem[l]
         ELSE [coitem[l] EXCEPT !.reserved = NoNeg(@ - qty[l])]]
    /\ unposted' = [s \in Series |->
         IF s \notin Range(series) THEN unposted[s]
         ELSE unposted[s] - Sum([l \in DOMAIN qty |-> IF series[l] = s THEN qty[l] ELSE 0])]
    /\ UNCHANGED <<itemsite, waiting, invcnt, counted>>

\* The screens offer the lines that are neither closed nor cancelled.
IssueToShipping(l, n, s) ==
    /\ l \in OpenLines /\ s \in FreeSeries
    /\ Issue([m \in {l} |-> n], [m \in {l} |-> s], [m \in {l} |-> 1])
    /\ todo' = todo \cup {s}

\* The series given is every line's; without one each line draws its own, and the
\* caller hears of the last.
ToIssue == {l \in OpenLines : Balance(l) > 0}
IssueAllBalanceToShipping ==
    /\ ToIssue # {}
    /\ \E order \in Orders(ToIssue), series \in [ToIssue -> FreeSeries] :
         /\ IF OwnSeries THEN \A l, m \in ToIssue : series[l] = series[m] ELSE IsInjective(series)
         /\ Issue([l \in ToIssue |-> Balance(l)], series, order)
         /\ todo' = todo \cup {series[l] : l \in {m \in ToIssue : order[m] = Cardinality(ToIssue)}}

\* (mutant) the history of a frozen site is flagged as posted.
PostItemlocSeriesFlagged(s) ==
    /\ s \in todo
    /\ todo' = todo \ {s}
    /\ unposted' = [unposted EXCEPT ![s] = 0]
    /\ itemsite' = IF itemsite.frozen THEN itemsite
                   ELSE [itemsite EXCEPT !.qoh = @ + unposted[s]]
    /\ UNCHANGED <<coitem, shiphead, number, shipitem, waiting, invcnt, counted>>

\* A caller posts its series.  The history of a frozen site stays unposted, and no
\* one will post the series again.
PostItemlocSeries(s) ==
    /\ s \in todo
    /\ todo' = todo \ {s}
    /\ unposted' = [unposted EXCEPT ![s] = 0]
    /\ IF itemsite.frozen
       THEN waiting' = waiting + unposted[s] /\ UNCHANGED itemsite
       ELSE itemsite' = [itemsite EXCEPT !.qoh = @ + unposted[s]] /\ UNCHANGED waiting
    /\ UNCHANGED <<coitem, shiphead, number, shipitem, invcnt, counted>>

-----------------------------------------------------------------------------
(* Returning, shipping and recalling.                                      *)

\* An item of a shipment that is not shipped, as line and slot.
OpenItems == {b \in Lines \X Slots : shipitem[b[1]][b[2]].ship \in Open}
At(b) == shipitem[b[1]][b[2]]

\* Each return must leave on hand what is reserved before it; the returns before
\* it are on hand, unless the site is frozen, and reserved again.
ReturnsPass(B, order) ==
    \A b \in B :
        LET before == {c \in B : order[c] < order[b]}
        IN  itemsite.qoh + At(b).qty
              + (IF itemsite.frozen THEN 0 ELSE Sum([c \in before |-> At(c).qty]))
              >= QtyReserved(coitem) + Sum([c \in before |-> At(c).rsrv])

\* (mutant) a shipment whose last item goes is kept.
EmptiedNever(items, s) == FALSE

\* Shipment s has lost its last item.
Emptied(items, s) ==
    shiphead[s] = "open" /\ \A l \in Lines, i \in Slots : items[l][i].ship # s

\* The items B come back, are posted in a series of their own, and what was
\* reserved for them is reserved again.  A shipment without items is deleted.
Return(B) ==
    /\ B # {} /\ B \subseteq OpenItems
    /\ \E order \in Orders(B) : ReturnsPass(B, order)
    /\ LET back == Sum([b \in B |-> At(b).qty])
       IN  IF itemsite.frozen
           THEN waiting' = waiting + back /\ UNCHANGED itemsite
           ELSE itemsite' = [itemsite EXCEPT !.qoh = @ + back] /\ UNCHANGED waiting
    /\ coitem' = [l \in Lines |-> [coitem[l] EXCEPT !.reserved =
         @ + Sum([b \in {b \in B : b[1] = l} |-> At(b).rsrv])]]
    /\ shipitem' = [l \in Lines |-> [i \in Slots |->
         IF <<l, i>> \in B THEN NoItem ELSE shipitem[l][i]]]
    /\ shiphead' = [s \in Shipments |-> IF Emptied(shipitem', s) THEN "none" ELSE shiphead[s]]
    /\ UNCHANGED <<number, unposted, todo, invcnt, counted>>

ReturnShipmentTransaction(b) == b \in OpenItems /\ Return({b})
ReturnItemShipments(l) == Return({b \in OpenItems : b[1] = l})
ReturnCompleteShipment(s) == s \in Open /\ Return({b \in OpenItems : At(b).ship = s})

ShipShipment(s) ==
    /\ shiphead[s] = "open"
    /\ shiphead' = [shiphead EXCEPT ![s] = "shipped"]
    /\ coitem' = [l \in Lines |-> [coitem[l] EXCEPT !.shipped = @ + Issued(l, {s})]]
    /\ UNCHANGED <<number, shipitem, itemsite, unposted, waiting, todo, invcnt, counted>>

RecallShipment(s) ==
    /\ shiphead[s] = "shipped"
    /\ shiphead' = [shiphead EXCEPT ![s] = "open"]
    /\ coitem' = [l \in Lines |-> [coitem[l] EXCEPT !.shipped = @ - Issued(l, {s})]]
    /\ UNCHANGED <<number, shipitem, itemsite, unposted, waiting, todo, invcnt, counted>>

-----------------------------------------------------------------------------
(* Lines and reservations.                                                 *)

\* The trigger of coitem: a line with items at shipping is not closed, and a line
\* closed or cancelled has nothing reserved.
SetStatus(l, status) ==
    /\ coitem[l].status # status
    /\ status = "C" => QtyAtShipping(l) = 0
    /\ coitem' = [coitem EXCEPT ![l].status = status,
                                ![l].reserved = IF status = "O" THEN @ ELSE 0]
    /\ UNCHANGED <<shiphead, number, shipitem, itemsite, unposted, waiting, todo, invcnt, counted>>

\* What is in stock and not reserved is reserved for an open line that needs it.
Reserve(l, n) ==
    /\ l \in OpenLines
    /\ coitem[l].reserved + n <= Balance(l)
    /\ QtyReserved(coitem) + n <= InStock
    /\ coitem' = [coitem EXCEPT ![l].reserved = @ + n]
    /\ UNCHANGED <<shiphead, number, shipitem, itemsite, unposted, waiting, todo, invcnt, counted>>

-----------------------------------------------------------------------------
(* Counting.                                                               *)

CreateCountTag(freeze) ==
    /\ ~invcnt /\ invcnt' = TRUE
    /\ itemsite' = [itemsite EXCEPT !.frozen = @ \/ freeze]
    /\ UNCHANGED <<coitem, shiphead, number, shipitem, unposted, waiting, todo, counted>>

\* (mutant) a frozen site is thawed without its history.
ThawOnly(late) ==
    /\ itemsite' = [itemsite EXCEPT !.frozen = FALSE]
    /\ waiting' = waiting + late
    /\ UNCHANGED unposted

\* A frozen site is thawed: all its unposted history is applied, that of series
\* nobody has posted yet and the row late included.
Thaw(late) ==
    /\ itemsite' = [qoh |-> itemsite.qoh + waiting + late + Sum(unposted), frozen |-> FALSE]
    /\ waiting' = 0
    /\ unposted' = [s \in Series |-> 0]

ThawItemSite ==
    /\ itemsite.frozen
    /\ Thaw(0)
    /\ UNCHANGED <<coitem, shiphead, number, shipitem, todo, invcnt, counted>>

\* The count n is posted.  The quantity on hand becomes n, unless the site is
\* frozen: then the difference waits with the rest of its history.
PostCountTag(n, thaw) ==
    LET difference == n - itemsite.qoh
    IN  /\ invcnt /\ invcnt' = FALSE
        /\ counted + difference \in -MaxCounted..MaxCounted
        /\ counted' = counted + difference
        /\ \/ /\ ~itemsite.frozen
              /\ itemsite' = [itemsite EXCEPT !.qoh = n]
              /\ UNCHANGED <<unposted, waiting>>
           \/ /\ itemsite.frozen /\ thaw
              /\ Thaw(difference)
           \/ /\ itemsite.frozen /\ ~thaw
              /\ waiting' = waiting + difference
              /\ UNCHANGED <<itemsite, unposted>>
        /\ UNCHANGED <<coitem, shiphead, number, shipitem, todo>>

-----------------------------------------------------------------------------

Init ==
    /\ coitem = [l \in Lines |-> [status |-> "O", shipped |-> 0, reserved |-> 0]]
    /\ shiphead = [s \in Shipments |-> "none"] /\ number = 0
    /\ shipitem = [l \in Lines |-> [i \in Slots |-> NoItem]]
    /\ itemsite = [qoh |-> Stock, frozen |-> FALSE]
    /\ unposted = [s \in Series |-> 0] /\ waiting = 0 /\ todo = {}
    /\ invcnt = FALSE /\ counted = 0

Next ==
    \/ \E l \in Lines, n \in Quantities, s \in Series : IssueToShipping(l, n, s)
    \/ IssueAllBalanceToShipping
    \/ \E s \in Series : PostItemlocSeries(s)
    \/ \E b \in Lines \X Slots : ReturnShipmentTransaction(b)
    \/ \E l \in Lines : ReturnItemShipments(l)
    \/ \E s \in Shipments : ReturnCompleteShipment(s) \/ ShipShipment(s) \/ RecallShipment(s)
    \/ \E l \in Lines, status \in {"O", "C", "X"} : SetStatus(l, status)
    \/ \E l \in Lines, n \in Reservations : Reserve(l, n)
    \/ CreateCountTag(FALSE)
    \/ Freezing /\ CreateCountTag(TRUE)
    \/ ThawItemSite
    \/ \E n \in Counts, thaw \in BOOLEAN : PostCountTag(n, thaw)

Spec == Init /\ [][Next]_vars

-----------------------------------------------------------------------------
(* Properties.                                                             *)

LineType == [status : {"O", "C", "X"}, shipped : Nat, reserved : Nat]
ItemType == [ship : Shipments \cup {0}, qty : Nat, rsrv : Nat]

\* What is issued lies in a shipment that is there, and no shipment is without items.
ShipmentsFull ==
    /\ \A l \in Lines, i \in Slots :
         shipitem[l][i].ship # 0 => shiphead[shipitem[l][i].ship] # "none"
    /\ \A s \in Shipments : shiphead[s] # "none" =>
         \E l \in Lines, i \in Slots : shipitem[l][i].ship = s

\* The types, with the shipments so; no more was reserved for what is issued than
\* was issued, and no shipment has a number that was not fetched.
TypeOK ==
    /\ coitem \in [Lines -> LineType]
    /\ shiphead \in [Shipments -> {"none", "open", "shipped"}]
    /\ number \in 0..MaxShipments
    /\ shipitem \in [Lines -> [Slots -> ItemType]]
    /\ ShipmentsFull
    /\ \A l \in Lines, i \in Slots : shipitem[l][i].rsrv <= shipitem[l][i].qty
    /\ \A s \in Shipments : shiphead[s] # "none" => s <= number
    /\ itemsite \in [qoh : Int, frozen : BOOLEAN]
    /\ unposted \in [Series -> Int] /\ waiting \in Int /\ todo \subseteq Series
    /\ invcnt \in BOOLEAN /\ counted \in -MaxCounted..MaxCounted

\* Whatever is issued, returned, shipped, recalled, frozen, counted and thawed, the
\* stock only moves: what is on hand with the history still to be posted, what is
\* at shipping and what is shipped come to the first stock and what the counts added.
Account == INSTANCE StockAccount WITH
    instock <- InStock,
    atshipping <- [l \in Lines |-> QtyAtShipping(l)],
    delivered <- [l \in Lines |-> coitem[l].shipped]
StockKept == Account!Spec

\* No history is left behind: someone will post its series, or the site is frozen
\* and the thaw will.
NothingForgotten ==
    /\ \A s \in Series : unposted[s] # 0 => s \in todo
    /\ waiting # 0 => itemsite.frozen

\* No transaction reduces the quantity on hand below what is reserved.
ReservedOnHand == QtyReserved(coitem) <= itemsite.qoh

=============================================================================
