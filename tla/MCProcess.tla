------------------------------ MODULE MCProcess ------------------------------
(* The instance of Process that TLC checks. *)
EXTENDS Process

CONSTANTS alice, bob
TwoAccounts == {alice, bob}
=============================================================================
