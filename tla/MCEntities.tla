------------------------------ MODULE MCEntities ------------------------------
(* The instance of Entities that TLC checks: the same number is a twin at one *)
(* carrier and a line at another, a username moves between carriers, a twin   *)
(* has an account of its own, an account lists its own name as a number, and  *)
(* two usernames have one slug.                                               *)
EXTENDS Entities

CONSTANTS joe, ann, n1, n2, n3

Two       == {joe, ann}
Carriers  == {"alfa", "touch", "ogero"}
OnlyOgero == {"ogero"}
\* One of the usernames is its own slug, and the other's.
SlugOf    == joe :> ann @@ ann :> ann
Shapes    == [a \in [user : Two, provider : Carriers] |->
                CASE a.provider = "alfa"  -> IF a.user = joe THEN {{}, {n1, ann}} ELSE {{n2}}
                  [] a.provider = "touch" -> IF a.user = joe THEN {{n3}} ELSE {{n1, ann}}
                  [] OTHER                -> IF a.user = joe THEN {{n1}} ELSE {{n2}}]

At(u, p)      == [user |-> u, provider |-> p]
Valid(items)  == [valid |-> TRUE, items |-> items]
SomeForms == {
  Valid(<<At(ann, "touch"), At(ann, "ogero"), At(joe, "alfa")>>),
  Valid(<<At(ann, "alfa"), At(joe, "alfa")>>),
  Valid(<<At(ann, "ogero")>>),
  Valid(<<At(joe, "ogero"), At(ann, "ogero")>>),
  Valid(<<At(ann, "nobody")>>),
  Valid(<<At(joe, "alfa"), At(joe, "nobody")>>),
  [valid |-> FALSE, items |-> <<At(joe, "alfa")>>]}
=============================================================================
