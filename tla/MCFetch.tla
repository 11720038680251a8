------------------------------- MODULE MCFetch -------------------------------
(* The instance of Fetch that TLC checks. *)
EXTENDS Fetch

CONSTANTS n1, n2, n3
ShortPages == {<<>>, <<n1>>, <<n1, n2>>, <<n2, n3, n1>>}
=============================================================================
