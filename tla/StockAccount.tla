---------------------------- MODULE StockAccount ----------------------------
(***************************************************************************)
(* What shipping promises of the stock of an item: it moves between the     *)
(* site, the shipping area and the customers, and none comes or goes but by *)
(* counting the site.  When a movement shows in the quantity on hand, and   *)
(* through which shipment it went, does not matter.                         *)
(***************************************************************************)
EXTENDS Functions, Integers

CONSTANTS
    Lines,  \* order lines
    Stock   \* what the site has at first

VARIABLES
    instock,     \* at the site
    atshipping,  \* in the shipping area, for a line
    delivered,   \* with the customer, for a line
    counted      \* what the counts have added to the site

stockVars == <<instock, atshipping, delivered, counted>>

Init ==
    /\ instock = Stock /\ counted = 0
    /\ atshipping = [l \in Lines |-> 0] /\ delivered = [l \in Lines |-> 0]

\* Between the site and the shipping area.
Transfer ==
    /\ UNCHANGED <<delivered, counted>>
    /\ instock' + SumFunction(atshipping') = instock + SumFunction(atshipping)

\* Between the shipping area and the customer.
Deliver ==
    /\ UNCHANGED <<instock, counted>>
    /\ \A l \in Lines : atshipping'[l] + delivered'[l] = atshipping[l] + delivered[l]

Count ==
    /\ UNCHANGED <<atshipping, delivered>>
    /\ instock' - instock = counted' - counted

Next == Transfer \/ Deliver \/ Count

Spec == Init /\ [][Next]_stockVars

=============================================================================
