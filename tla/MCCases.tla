------------------------------- MODULE MCCases -------------------------------
(***************************************************************************)
(* Instances of Cases for TLC.                                             *)
(***************************************************************************)
EXTENDS Cases, TLC

CONSTANTS q1, q2, q3, c1, c2, o1, i1, i2, i3

\* Two requests for one key and one for another key of the same owner.
RivalSlots == (q1 :> c1) @@ (q2 :> c1) @@ (q3 :> c2)
SoleOwner == (c1 :> o1) @@ (c2 :> o1)
=============================================================================
