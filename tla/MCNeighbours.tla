--------------------------- MODULE MCNeighbours ---------------------------
(***************************************************************************)
(* A small instance of the neighbours: four users on a line, places that   *)
(* expire at once, after a second and never, and a response of two rows.   *)
(***************************************************************************)
EXTENDS NeighbourProperties

At(u, p, e, r) == [uid |-> u, pos |-> p, expiry |-> e, radius |-> r]

\* in "u"'s default radius of 3 there are three neighbours, in a radius of 2
\* only one or two
AllMessages ==
  {At("u", 0, Absent, Absent), At("v", 1, 0, 1), At("w", 2, Absent, 1),
   At("w", -1, 0, Absent), At("x", 1, -1, Absent)}

===========================================================================
