------------------------------- MODULE MCUsage -------------------------------
(* The instance of Usage that TLC checks. *)
EXTENDS Usage

TwoNumbers == {"n1", "n2"}
\* Every number has its own bundle, one of them very small.
OwnQuotas == [n1 |-> 5, n2 |-> 1]
=============================================================================
