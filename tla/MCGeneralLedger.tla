--------------------------- MODULE MCGeneralLedger ---------------------------
(* Instances of GeneralLedger for TLC.                                     *)
EXTENDS GeneralLedger

CONSTANTS Cash, Sales, Equity

EquityFirst == <<Cash, Equity, Sales>>
AllAccounts == {Cash, Sales, Equity}
MCRevExp == {Sales}
SaleAndOwner == {<<Sales, Cash>>, <<Equity, Cash>>}
SaleOnly == {<<Sales, Cash>>}
NoEntries == {}
TwoAccounts == <<Cash, Equity>>
ThreeRows == {<<Cash, 1>>, <<Cash, -1>>, <<Equity, -1>>}
OneYear == [s \in 1..NSlots |-> 1]
SecondYear == [s \in 1..NSlots |-> IF s = 1 THEN 1 ELSE 2]

=============================================================================
