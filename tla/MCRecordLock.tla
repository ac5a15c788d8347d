---------------------------- MODULE MCRecordLock ----------------------------
(* Instances of RecordLock for TLC.                                        *)
EXTENDS RecordLock, TLC

CONSTANTS Ann, Bob, f1, f2, f3

ThreeForms == {f1, f2, f3}
TwoForms == {f1, f2}
AnnTwice == (f1 :> Ann) @@ (f2 :> Ann) @@ (f3 :> Bob)
OneEach == (f1 :> Ann) @@ (f2 :> Bob)

=============================================================================
