-------------------------------- MODULE Bounds --------------------------------
(* The bounds that the parts of the process share. *)
EXTENDS Naturals

CONSTANTS MaxConns,     \* MQTT connections ever opened
          MaxUpdates    \* results ever saved

ASSUME BoundsAssumption == MaxConns \in Nat /\ MaxUpdates \in Nat
=============================================================================
