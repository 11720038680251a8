---------------------------- MODULE MCPublication ----------------------------
(* The instances of Publication that TLC checks. *)
EXTENDS Publication

AnyShape  == BOOLEAN
Nobody    == {}
Everybody == Accounts
LastOne   == {NumAccounts}
NoFaults  == {}
AllFaults == {"crash", "raise"}
=============================================================================
