---------------------------- MODULE MCCustodian ----------------------------
(* Which custodian is made under which one; the order in which they are made *)
(* is left open.                                                             *)
EXTENDS Custodian

CONSTANTS root, c1, c2, c3, c4

\* A child beside a child with a child.
UnderMixed == c1 :> root @@ c2 :> root @@ c3 :> c2
\* The same below another custodian.
UnderDeep == c1 :> root @@ c2 :> c1 @@ c3 :> c2 @@ c4 :> c1
=============================================================================
